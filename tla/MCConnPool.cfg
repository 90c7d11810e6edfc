SPECIFICATION Spec
CONSTANTS
    Requests = {q1, q2, q3}
    Assigners = {q1, q2}
    Roles = {r1, r2}
    Pool = 2
    Reloader = Reloader
    Nobody = Nobody
    MaxCancels = 1
INVARIANTS
    TypeOK
    ConnectionsAccounted
    LockAccounted
    StuckMeansExhausted
PROPERTY
    EveryRequestServed
\* With as many transactions as connections the server stops.
CHECK_DEADLOCK FALSE
