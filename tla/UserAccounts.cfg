SPECIFICATION Spec
CONSTANTS
    Requests = {q1, q2}
    UserIDs = {u1, u2}
    Names = {a, b}
    Emails = {x, y}
    Passwords = {p, r}
    NoRow = NoRow
    Keep = Keep
    Operations = {"create", "update", "changePassword", "delete"}
    MaxActive = 2
    MaxFaults = 1
INVARIANTS
    TypeOK
    IdentifiersUnique
    RowsAsAsked
SYMMETRY RequestSymmetry
\* Clients stop once every request has been used.
CHECK_DEADLOCK FALSE
