SPECIFICATION Spec
CONSTANTS
    q1 = q1  q2 = q2  q3 = q3  r1 = r1  r2 = r2  user = user  admin = admin
    Servers = {s1}
    Requests = {q1, q2}
    UserIDs = {u1}
    RoleIDs = {r1, r2}
    RoleCodes = {user, admin}
    CodeOf <- UserAndAdmin
    RoleUser = user
    Operations = {"create", "assign", "remove", "deleteUser", "deleteRole", "reload"}
    MaxActive = 2
    MaxFaults = 1
INVARIANTS
    TypeOK
    RulesFollowRows
    ReferencesResolve
SYMMETRY RequestSymmetry
\* Clients stop once every request has been used.
CHECK_DEADLOCK FALSE
