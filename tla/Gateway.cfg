SPECIFICATION Spec
CONSTANTS
    u = u  v = v  n = n  p = p  q = q  r = r
    Users <- MCUsers
    Names <- MCNames
    Passwords <- MCPasswords
    Requests <- MCRequests
    Connections <- MCRequests
    Mode = "file"
    NoRow = NoRow
    NoToken = NoToken
    AccessLife = 1
    RefreshLife = 2
    MaxTime = 2
    MaxKeys = 2
    MaxSigns = 2
INVARIANTS
    AuthenticationWitnessed
    SessionsFromPasswords
    TokensGood
    TelemetryShut
PROPERTIES
    RefusalsWitnessed
    PromiseKept
    StopsWhenTold
