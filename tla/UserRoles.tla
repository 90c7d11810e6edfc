------------------------------ MODULE UserRoles ------------------------------
(***************************************************************************)
(* Users and the roles they have: internal/apiserver/biz/v1/user_role over  *)
(* the table user_role, the creation and deletion of users, and the g rules *)
(* of Casbin.  Nothing here runs in a transaction: every statement commits  *)
(* for itself, and the roles whose rules are to go are read beforehand.     *)
(***************************************************************************)
EXTENDS Naturals, FiniteSets

CONSTANTS
    Servers,
    Requests,
    UserIDs,         \* the UUIDs the database may give to users
    RoleIDs,         \* the roles that exist at the start
    RoleCodes,
    CodeOf,          \* CodeOf[r]: the code of role r; never updated
    RoleUser,        \* the code of the role every new user gets, "user"
    Operations,      \* the operations clients use in this instance
    MaxActive,       \* requests in progress at the same time
    MaxFaults        \* bound on failing calls and crashes

UserRole == UserIDs \X RoleIDs          \* user_role (user_id, role_id)
Grouping == UserIDs \X RoleCodes        \* g, user ID, role::code

ASSUME CodeOfAssumption ==
    /\ CodeOf \in [RoleIDs -> RoleCodes]
    /\ \A r1, r2 \in RoleIDs : CodeOf[r1] = CodeOf[r2] => r1 = r2
ASSUME RoleUserAssumption == RoleUser \in RoleCodes
ASSUME SomeServerAssumption == Servers # {}
ASSUME SomeUserIDAssumption == UserIDs # {}

VARIABLES
    rules, mem, loading, snap,   \* the enforcer and its table
    users,      \* the rows of table user
    retired,    \* IDs of deleted users; a UUID is not given twice
    roles,      \* the rows of table role
    user_role,  \* the rows of table user_role
    pc,         \* where each request is
    rq,         \* its arguments and local variables
    faults,     \* failing calls and crashes so far
    excused     \* history: g rules on which an incident may have left rows and
                \* rules apart

INSTANCE Enforcer WITH Rules <- Grouping

enforcerVars == <<rules, mem, loading, snap>>
dbVars == <<users, retired, roles, user_role>>
vars == <<rules, mem, loading, snap, users, retired, roles, user_role,
          pc, rq, faults, excused>>

-----------------------------------------------------------------------------
Final == {"ok", "error", "crashed"}
Active == {q \in Requests : pc[q] \notin Final \cup {"new"}}

Request == [server : Servers, user : UserIDs,
            asked : SUBSET RoleIDs,    \* the roles of the request
            old : SUBSET RoleCodes,    \* codes whose rules are still to go
            todo : SUBSET RoleIDs]     \* roles whose rules are still to come

NoRequest == [server |-> CHOOSE s \in Servers : TRUE, user |-> CHOOSE u \in UserIDs : TRUE,
              asked |-> {}, old |-> {}, todo |-> {}]

TypeOK ==
    /\ EnforcerTypeOK
    /\ users \in SUBSET UserIDs
    /\ retired \in SUBSET UserIDs
    /\ roles \in SUBSET RoleIDs
    /\ user_role \in SUBSET UserRole
    /\ pc \in [Requests -> Final \cup {"new", "readOld", "deleteRows", "insertRows", "dropOld",
                  "addNew", "removeRow", "dropRule", "insertUser", "addDefault", "deleteUser",
                  "dropDefault"}]
    /\ rq \in [Requests -> Request]
    /\ faults \in Nat
    /\ excused \in SUBSET Grouping

RolesOf(u) == {r \in roles : <<u, r>> \in user_role}
Codes(R) == {CodeOf[r] : r \in R}

\* The g rules that the rows stand for, and the one a user is created with.
GroupsOf(u) == {u} \X (Codes(RolesOf(u)) \cup IF u \in users THEN {RoleUser} ELSE {})

\* The database was filled by a script, table and rules alike.
Init ==
    /\ users \in SUBSET UserIDs
    /\ retired = {}
    /\ roles = RoleIDs
    /\ user_role \in SUBSET (users \X RoleIDs)
    /\ EnforcerInit(UNION {GroupsOf(u) : u \in users})
    /\ pc = [q \in Requests |-> "new"]
    /\ rq = [q \in Requests |-> NoRequest]
    /\ faults = 0
    /\ excused = {}

-----------------------------------------------------------------------------
(* Steps common to the requests.                                           *)

Goto(q, label) == pc' = [pc EXCEPT ![q] = label]
User(q) == rq[q].user
Server(q) == rq[q].server
Fault == faults < MaxFaults /\ faults' = faults + 1

Excuse(groups) == excused' = excused \cup groups

\* A request about user u arrives.  Two of them at a time may leave anything.
Receive(q, op, u) ==
    /\ pc[q] = "new"
    /\ op \in Operations
    /\ Cardinality(Active) < MaxActive
    /\ IF \E x \in Active : User(x) = u THEN Excuse({u} \X RoleCodes) ELSE UNCHANGED excused

\* The first read finds the reason to refuse the request, or fails.
Refused(q, refused) ==
    /\ (refused /\ UNCHANGED faults) \/ Fault
    /\ Goto(q, "error")
    /\ UNCHANGED rq

\* The g rules that differ from the rows while q is where it is.
Unfinished(q) == {User(q)} \X
    CASE pc[q] \in {"insertRows", "dropRule"} -> rq[q].old
      [] pc[q] \in {"dropOld", "addNew"} -> rq[q].old \cup Codes(rq[q].todo)
      [] pc[q] = "dropDefault" -> {RoleUser}
      [] OTHER -> {}

\* A statement of q fails, and q answers an error.  What it has done, stays.
GiveUp(q) ==
    /\ Goto(q, "error")
    /\ Excuse(Unfinished(q))
    /\ UNCHANGED rq

\* AddGroupingPolicy(u, c).  False is no error, whatever the table holds; a
\* rule this memory does not know of may meet the index of casbin_rule.
AddGroup(q, c) ==
    LET g == <<User(q), c>> IN
    /\ \/ AddStored(Server(q), {g}) /\ UNCHANGED excused
       \/ /\ AddRefused(Server(q), {g})
          /\ Excuse({g} \ rules)
    /\ UNCHANGED faults

AddGroupFails(q, c) ==
    /\ AddFails(Server(q), {<<User(q), c>>})
    /\ (<<User(q), c>> \in rules /\ UNCHANGED faults) \/ Fault
    /\ GiveUp(q)

\* RemoveGroupingPolicy(u, c).
RemoveGroup(q, c) ==
    /\ RemoveMatching(Server(q), {<<User(q), c>>})
    /\ UNCHANGED <<faults, excused>>

\* Its failure, where the caller only logs it.
RemoveGroupIgnored(q, c) ==
    /\ Fault
    /\ Excuse({<<User(q), c>>})
    /\ UNCHANGED enforcerVars

-----------------------------------------------------------------------------
(* AssignRolesToUser: look up the user and the roles, read the old roles,   *)
(* then userRoleStore.AssignRoles (a DELETE and an INSERT), then Casbin.     *)

AssignRolesToUser(q, u, R, s) ==
    /\ Receive(q, "assign", u)
    /\ \/ /\ u \in users /\ R \subseteq roles
          /\ Goto(q, "readOld")
          /\ rq' = [rq EXCEPT ![q] = [server |-> s, user |-> u, asked |-> R, old |-> {},
                                      todo |-> R]]
          /\ UNCHANGED faults
       \/ Refused(q, ~(u \in users /\ R \subseteq roles))
    /\ UNCHANGED <<enforcerVars, dbVars>>

\* Mutant: the rules to go are named by role IDs.
GetUserRolesIDs(q) ==
    /\ pc[q] = "readOld"
    /\ rq' = [rq EXCEPT ![q].old = RolesOf(User(q))]
    /\ Goto(q, "deleteRows")
    /\ UNCHANGED <<enforcerVars, dbVars, faults, excused>>

\* Mutant: the old roles are not read, as in append mode.
GetUserRolesNone(q) ==
    /\ pc[q] = "readOld"
    /\ Goto(q, "deleteRows")
    /\ UNCHANGED <<enforcerVars, dbVars, rq, faults, excused>>

\* GetUserRoles; its error is dropped, and then there are no old roles.
GetUserRoles(q) ==
    /\ pc[q] = "readOld"
    /\ \/ /\ rq' = [rq EXCEPT ![q].old = Codes(RolesOf(User(q)))]
          /\ UNCHANGED <<faults, excused>>
       \/ Fault /\ Excuse({User(q)} \X Codes(RolesOf(User(q)))) /\ UNCHANGED rq
    /\ Goto(q, "deleteRows")
    /\ UNCHANGED <<enforcerVars, dbVars>>

RemoveAllRoles(q) ==
    /\ pc[q] = "deleteRows"
    /\ \/ /\ user_role' = {row \in user_role : row[1] # User(q)}
          /\ Goto(q, "insertRows")
          /\ UNCHANGED <<rq, faults, excused>>
       \/ Fault /\ GiveUp(q) /\ UNCHANGED user_role
    /\ UNCHANGED <<enforcerVars, users, retired, roles>>

\* Mutant: user_role has no foreign keys.
InsertUserRolesUnchecked(q) ==
    /\ pc[q] = "insertRows"
    /\ user_role' = user_role \cup ({User(q)} \X rq[q].asked)
    /\ Goto(q, "dropOld")
    /\ UNCHANGED <<enforcerVars, users, retired, roles, rq, faults, excused>>

\* One INSERT, which the foreign keys or the unique index may refuse, and gorm
\* itself, for it is handed a []interface{}.
InsertUserRoles(q) ==
    LET new == {User(q)} \X rq[q].asked
        legal == User(q) \in users /\ rq[q].asked \subseteq roles /\ new \cap user_role = {}
    IN
    /\ pc[q] = "insertRows"
    /\ \/ /\ legal
          /\ user_role' = user_role \cup new
          /\ Goto(q, "dropOld")
          /\ UNCHANGED <<rq, faults, excused>>
       \/ GiveUp(q) /\ UNCHANGED <<user_role, faults>>
    /\ UNCHANGED <<enforcerVars, users, retired, roles>>

\* The loop over the old roles.
DropOldGroup(q) ==
    /\ pc[q] = "dropOld"
    /\ IF rq[q].old = {}
       THEN Goto(q, "addNew") /\ UNCHANGED <<enforcerVars, rq, faults, excused>>
       ELSE /\ \E c \in rq[q].old :
                 /\ RemoveGroup(q, c) \/ RemoveGroupIgnored(q, c)
                 /\ rq' = [rq EXCEPT ![q].old = @ \ {c}]
            /\ UNCHANGED pc
    /\ UNCHANGED dbVars

\* The loop over the new ones: a role that cannot be read is skipped, and a
\* failure of Casbin ends the request.
AddNewGroup(q) ==
    /\ pc[q] = "addNew"
    /\ IF rq[q].todo = {}
       THEN Goto(q, "ok") /\ UNCHANGED <<enforcerVars, rq, faults, excused>>
       ELSE \E r \in rq[q].todo :
              \/ /\ \/ r \in roles /\ AddGroup(q, CodeOf[r])
                    \/ r \notin roles /\ UNCHANGED <<enforcerVars, faults, excused>>
                    \/ Fault /\ Excuse({<<User(q), CodeOf[r]>>}) /\ UNCHANGED enforcerVars
                 /\ rq' = [rq EXCEPT ![q].todo = @ \ {r}]
                 /\ UNCHANGED pc
              \/ r \in roles /\ AddGroupFails(q, CodeOf[r])
    /\ UNCHANGED dbVars

-----------------------------------------------------------------------------
(* RemoveRoleFromUser: read the role, delete the row, remove the rule.      *)

RemoveRoleFromUser(q, u, r, s) ==
    /\ Receive(q, "remove", u)
    /\ \/ /\ r \in roles
          /\ Goto(q, "removeRow")
          /\ rq' = [rq EXCEPT ![q] = [server |-> s, user |-> u, asked |-> {r},
                                      old |-> {CodeOf[r]}, todo |-> {}]]
          /\ UNCHANGED faults
       \/ Refused(q, r \notin roles)
    /\ UNCHANGED <<enforcerVars, dbVars>>

RemoveRole(q) ==
    /\ pc[q] = "removeRow"
    /\ \/ /\ user_role' = user_role \ ({User(q)} \X rq[q].asked)
          /\ Goto(q, "dropRule")
          /\ UNCHANGED <<rq, faults, excused>>
       \/ Fault /\ GiveUp(q) /\ UNCHANGED user_role
    /\ UNCHANGED <<enforcerVars, users, retired, roles>>

DropRule(q) ==
    /\ pc[q] = "dropRule"
    /\ \E c \in rq[q].old : RemoveGroup(q, c) \/ RemoveGroupIgnored(q, c)
    /\ Goto(q, "ok")
    /\ UNCHANGED <<dbVars, rq>>

-----------------------------------------------------------------------------
(* The rows of users and roles, as far as user_role depends on them: the    *)
(* statements of userBiz.Create, userBiz.Delete and roleBiz.Delete.         *)

FreshIDs == UserIDs \ (users \cup retired)

CreateUser(q, s) ==
    /\ pc[q] = "new"
    /\ "create" \in Operations
    /\ Cardinality(Active) < MaxActive
    /\ \/ /\ \E u \in FreshIDs :
               /\ users' = users \cup {u}
               /\ rq' = [rq EXCEPT ![q] = [server |-> s, user |-> u, asked |-> {},
                                           old |-> {}, todo |-> {}]]
          /\ Goto(q, "addDefault")
          /\ UNCHANGED faults
       \/ Fault /\ Goto(q, "error") /\ UNCHANGED <<users, rq>>
    /\ UNCHANGED <<enforcerVars, retired, roles, user_role, excused>>

\* A failure is answered as an error, and the user stays.
AddDefaultGroup(q) ==
    /\ pc[q] = "addDefault"
    /\ \/ AddGroup(q, RoleUser) /\ Goto(q, "ok") /\ UNCHANGED rq
       \/ AddGroupFails(q, RoleUser)
    /\ UNCHANGED dbVars

\* The row goes, and by cascade its rows in user_role.  Of the rules only the
\* one for RoleUser will go.
DeleteUser(q, u, s) ==
    /\ pc[q] = "new"
    /\ "deleteUser" \in Operations
    /\ Cardinality(Active) < MaxActive
    /\ \/ /\ users' = users \ {u}
          /\ retired' = retired \cup {u}
          /\ user_role' = {row \in user_role : row[1] # u}
          /\ rq' = [rq EXCEPT ![q] = [server |-> s, user |-> u, asked |-> {},
                                      old |-> {}, todo |-> {}]]
          /\ Goto(q, "dropDefault")
          /\ Excuse({u} \X IF \E x \in Active : User(x) = u THEN RoleCodes
                           ELSE Codes(RolesOf(u)))
          /\ UNCHANGED faults
       \/ /\ Fault /\ Goto(q, "error")
          /\ UNCHANGED <<users, retired, user_role, rq, excused>>
    /\ UNCHANGED <<enforcerVars, roles>>

DropDefaultGroup(q) ==
    /\ pc[q] = "dropDefault"
    /\ \/ RemoveGroup(q, RoleUser) /\ Goto(q, "ok") /\ UNCHANGED rq
       \/ Fault /\ GiveUp(q) /\ UNCHANGED enforcerVars
    /\ UNCHANGED dbVars

\* roleBiz.Delete: the row goes, by cascade its rows in user_role, and no g
\* rule, since the first field of a g rule is a user.
DeleteRole(r) ==
    /\ "deleteRole" \in Operations
    /\ r \in roles
    /\ roles' = roles \ {r}
    /\ user_role' = {row \in user_role : row[2] # r}
    /\ Excuse({u \in UserIDs : <<u, r>> \in user_role} \X {CodeOf[r]})
    /\ UNCHANGED <<enforcerVars, users, retired, pc, rq, faults>>

\* A server dies and is started again.
Crash(s) ==
    LET lost == {q \in Active : Server(q) = s} IN
    /\ Fault
    /\ StartEnforcer(s)
    /\ pc' = [q \in Requests |-> IF q \in lost THEN "crashed" ELSE pc[q]]
    /\ Excuse(UNION {Unfinished(q) : q \in lost})
    /\ UNCHANGED <<dbVars, rq>>

Reload(s) ==
    /\ "reload" \in Operations
    /\ ReadPolicy(s) \/ ApplyPolicy(s)
    /\ UNCHANGED <<dbVars, pc, rq, faults, excused>>

-----------------------------------------------------------------------------
Start(q) ==
    \E s \in Servers :
        \/ CreateUser(q, s)
        \* The IDs clients know of: those of users that are there or were.
        \/ \E u \in users \cup retired :
              \/ \E R \in SUBSET RoleIDs \ {{}} : AssignRolesToUser(q, u, R, s)
              \/ \E r \in RoleIDs : RemoveRoleFromUser(q, u, r, s)
              \/ DeleteUser(q, u, s)

Step(q) ==
    \/ GetUserRoles(q) \/ RemoveAllRoles(q) \/ InsertUserRoles(q)
    \/ DropOldGroup(q) \/ AddNewGroup(q)
    \/ RemoveRole(q) \/ DropRule(q)
    \/ AddDefaultGroup(q) \/ DropDefaultGroup(q)

Next ==
    \/ \E q \in Requests : Start(q) \/ Step(q)
    \/ \E r \in RoleIDs : DeleteRole(r)
    \/ \E s \in Servers : Crash(s) \/ Reload(s)

Spec == Init /\ [][Next]_vars

-----------------------------------------------------------------------------
(* Properties.                                                             *)

Idle(u) == \A q \in Active : User(q) # u

\* When no request about a user is in progress, the g rules of the user are the
\* roles of the rows, and perhaps RoleUser: none is left over, none is missing.
\* The exceptions are what an incident left: two requests about the user at a
\* time, a failing statement or a crash between rows and rules, the deletion of
\* the role or of the user, and an AddGroupingPolicy that a stale memory
\* refused.
RulesFollowRows ==
    \A u \in UserIDs : Idle(u) =>
        /\ rules \cap ({u} \X RoleCodes) \subseteq GroupsOf(u) \cup excused
        /\ {u} \X Codes(RolesOf(u)) \subseteq rules \cup excused

\* The foreign keys of user_role (template.sql) are all that is left of the
\* checks at the start of AssignRolesToUser once users and roles may go.
ReferencesResolve == user_role \subseteq users \X roles
=============================================================================
