SPECIFICATION Spec
CONSTANTS
    q1 = q1  q2 = q2  q3 = q3  r1 = r1  r2 = r2
    p1 = p1  p2 = p2  p3 = p3  a = a  b = b
    NoResource = NoResource  NoRole = NoRole
    Servers = {s1, s2}
    Requests = {q1, q2}
    RoleIDs = {r1}
    RoleCodes = {admin}
    PermissionIDs = {p1, p2, p3}
    Resources = {a, b}
    ResourceOf <- SharedResource
    Operations = {"assign", "create", "reload"}
    BatchAccepted = TRUE
    MaxActive = 1
    MaxFaults = 0
INVARIANTS
    AllOrNoPolicies
