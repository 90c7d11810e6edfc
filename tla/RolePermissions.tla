--------------------------- MODULE RolePermissions ---------------------------
(***************************************************************************)
(* Roles and what they grant: internal/apiserver/biz/v1/role over the      *)
(* tables role, permission and role_permission, and the p rules of Casbin. *)
(*                                                                         *)
(* A request is a goroutine of one server.  It is used once: pc goes from  *)
(* "new" to "ok" or "error" (or "crashed" with its server).  Its database  *)
(* transaction reads and locks as PostgreSQL does at READ COMMITTED; the   *)
(* calls of the enforcer it makes inside that transaction are not part of  *)
(* it, because the gorm adapter writes on a connection of its own.         *)
(***************************************************************************)
EXTENDS Naturals, FiniteSets

CONSTANTS
    Servers,
    Requests,
    RoleIDs,         \* the UUIDs the database may give to roles
    RoleCodes,
    PermissionIDs,
    Resources,       \* (resource_path, action) pairs
    NoResource,      \* a permission without a resource path
    ResourceOf,      \* ResourceOf[p]: what permission p is about; never updated
    NoRole,          \* no row in table role
    Operations,      \* the operations clients and operators use in this instance
    BatchAccepted,   \* gorm takes the []interface{} of store/role.go:82; 1.31.0 refuses it
    MaxActive,       \* requests in progress at the same time
    MaxFaults        \* bound on failing calls and crashes

Row == RoleIDs \X PermissionIDs         \* role_permission (role_id, permission_id)
Policy == RoleCodes \X Resources        \* p, role::code, path+method, allow

ASSUME ResourceOfAssumption == ResourceOf \in [PermissionIDs -> Resources \cup {NoResource}]
ASSUME NoResourceAssumption == NoResource \notin Resources
ASSUME NonEmptyAssumption == Servers # {} /\ RoleIDs # {} /\ RoleCodes # {}
ASSUME NoRoleAssumption == NoRole \notin RoleCodes
ASSUME BatchAcceptedAssumption == BatchAccepted \in BOOLEAN

VARIABLES
    rules, mem, loading, snap,   \* the enforcer and its table
    role,             \* role[r]: the code of the row with this ID, or NoRole
    retired,          \* IDs of deleted roles; a UUID is not given twice
    permission,       \* the rows of table permission
    role_permission,  \* the committed rows of table role_permission
    pc,               \* where each request is
    rq,               \* its arguments and local variables
    view,             \* rows its DELETE found, and holds locked once past "lock"
    ins,              \* rows it has inserted and not committed
    faults,           \* failing calls and crashes so far
    excused,          \* history: rules an incident may have left without a row
    missed            \* history: rules an incident has left out though a row has them

INSTANCE Enforcer WITH Rules <- Policy

enforcerVars == <<rules, mem, loading, snap>>
dbVars == <<role, retired, permission, role_permission>>
vars == <<rules, mem, loading, snap, role, retired, permission, role_permission,
          pc, rq, view, ins, faults, excused, missed>>

-----------------------------------------------------------------------------
Final == {"ok", "error", "crashed"}
Holding == {"insert", "collect", "remove", "add", "commit"}  \* past the DELETE
InTx == {"scan", "lock"} \cup Holding
Active == {q \in Requests : pc[q] \notin Final \cup {"new"}}

Request == [server : Servers,
            role : RoleIDs, code : RoleCodes, perms : SUBSET PermissionIDs,
            found : SUBSET PermissionIDs,    \* permissions read back for Casbin
            cleared : BOOLEAN]               \* the old policies were removed

NoRequest == [server |-> CHOOSE s \in Servers : TRUE,
              role |-> CHOOSE r \in RoleIDs : TRUE, code |-> CHOOSE c \in RoleCodes : TRUE,
              perms |-> {}, found |-> {}, cleared |-> FALSE]

TypeOK ==
    /\ EnforcerTypeOK
    /\ role \in [RoleIDs -> RoleCodes \cup {NoRole}]
    /\ retired \in SUBSET RoleIDs
    /\ permission \in SUBSET PermissionIDs
    /\ role_permission \in SUBSET Row
    /\ pc \in [Requests -> Final \cup InTx \cup {"new", "insertRole", "deleteRole", "dropGroups"}]
    /\ rq \in [Requests -> Request]
    /\ view \in [Requests -> SUBSET Row]
    /\ ins \in [Requests -> SUBSET Row]
    /\ faults \in Nat
    /\ excused \in SUBSET Policy
    /\ missed \in SUBSET Policy

\* The p rules for role code c and the permissions P: those without a resource
\* path have none.
PoliciesFor(c, P) == {<<c, ResourceOf[p]>> : p \in {x \in P : ResourceOf[x] # NoResource}}

\* The p rules that a set of role_permission rows stands for.
PoliciesOf(rows) ==
    {<<role[row[1]], ResourceOf[row[2]]>> :
        row \in {x \in rows : role[x[1]] # NoRole /\ ResourceOf[x[2]] # NoResource}}

RowsOf(r) == {row \in role_permission : row[1] = r}
\* Mutant: the field index counts the policy type, and matches the resource.
PoliciesOfCodeWrongField(c) == {rule \in Policy : rule[2] = c}

PoliciesOfCode(c) == {rule \in Policy : rule[1] = c}

\* The database was filled by a script, table and policies alike.
Init ==
    /\ role \in [RoleIDs -> RoleCodes \cup {NoRole}]
    /\ \A r1, r2 \in RoleIDs : role[r1] = role[r2] /\ role[r1] # NoRole => r1 = r2
    /\ retired = {}
    /\ permission = PermissionIDs
    /\ role_permission \in SUBSET {row \in Row : role[row[1]] # NoRole}
    /\ EnforcerInit(PoliciesOf(role_permission))
    /\ pc = [q \in Requests |-> "new"]
    /\ rq = [q \in Requests |-> NoRequest]
    /\ view = [q \in Requests |-> {}]
    /\ ins = [q \in Requests |-> {}]
    /\ faults = 0
    /\ excused = {}
    /\ missed = {}

-----------------------------------------------------------------------------
(* Steps common to the requests.                                           *)

Goto(q, label) == pc' = [pc EXCEPT ![q] = label]
Server(q) == rq[q].server

\* Some call fails: the database or the connection is unavailable, or the
\* client is gone and its context is cancelled.
Fault == faults < MaxFaults /\ faults' = faults + 1

\* A request arrives and reads its role.
Receive(q, op) ==
    /\ pc[q] = "new"
    /\ op \in Operations
    /\ Cardinality(Active) < MaxActive

\* The first read of a request finds the reason to refuse it, or fails.
ReadFails(q, refused) ==
    /\ (refused /\ UNCHANGED faults) \/ Fault
    /\ Goto(q, "error")
    /\ UNCHANGED rq

\* The rows in gone leave the table; a statement that had found them no
\* longer has them, even if equal rows are inserted later.
DeleteRows(gone, added) ==
    /\ role_permission' = (role_permission \ gone) \cup added
    /\ view' = [x \in Requests |-> view[x] \ gone]

\* Mutant: the error path returns without a rollback.
AbortNoRollback(q) ==
    /\ Goto(q, "error")
    /\ excused' = IF pc[q] = "commit"
                  THEN excused \cup PoliciesFor(rq[q].code, rq[q].found)
                  ELSE excused
    /\ UNCHANGED <<dbVars, rq, view, ins, missed>>

\* The transaction of q is rolled back and q answers an error.  Rules it has
\* added to Casbin stay there, and rules it has removed stay away.
Abort(q) ==
    /\ Goto(q, "error")
    /\ view' = [view EXCEPT ![q] = {}]
    /\ ins' = [ins EXCEPT ![q] = {}]
    /\ excused' = IF pc[q] = "commit"
                  THEN excused \cup PoliciesFor(rq[q].code, rq[q].found)
                  ELSE excused
    /\ missed' = IF rq[q].cleared THEN missed \cup (PoliciesOf(view[q]) \ rules) ELSE missed
    /\ UNCHANGED <<dbVars, rq>>

-----------------------------------------------------------------------------
(* AssignPermissionsToRole: read the role, then one transaction that       *)
(* replaces the rows (roleStore.AssignPermissions) and the policies        *)
(* (syncRolePermissionsToCasbin).                                          *)

AssignPermissionsToRole(q, r, P, s) ==
    /\ Receive(q, "assign")
    /\ \/ /\ role[r] # NoRole
          /\ Goto(q, "scan")
          /\ rq' = [rq EXCEPT ![q] = [server |-> s, role |-> r,
                       code |-> role[r], perms |-> P, found |-> {}, cleared |-> FALSE]]
          /\ UNCHANGED faults
       \/ ReadFails(q, role[r] = NoRole)
    /\ UNCHANGED <<dbVars, enforcerVars, view, ins, excused, missed>>

\* DELETE FROM role_permission WHERE role_id = r finds the committed rows ...
ScanRows(q) ==
    /\ pc[q] = "scan"
    /\ view' = [view EXCEPT ![q] = RowsOf(rq[q].role)]
    /\ Goto(q, "lock")
    /\ UNCHANGED <<dbVars, enforcerVars, rq, ins, faults, excused, missed>>

\* ... and deletes them once no other transaction has them locked.
LockRows(q) ==
    /\ pc[q] = "lock"
    /\ \A x \in Requests \ {q} : pc[x] \in Holding => view[x] \cap view[q] = {}
    /\ Goto(q, "insert")
    /\ UNCHANGED <<dbVars, enforcerVars, rq, view, ins, faults, excused, missed>>

\* INSERT of the new rows.  It waits for transactions that have inserted or
\* deleted one of them, and fails on the unique index or a foreign key.
NewRows(q) == {rq[q].role} \X rq[q].perms

InsertWaits(q) ==
    \E x \in Requests \ {q} :
        \/ NewRows(q) \cap ins[x] # {}
        \/ pc[x] \in Holding /\ NewRows(q) \cap view[x] # {}

\* Mutant: only the role is a foreign key, as parent_id of permission is none.
ForeignKeysHoldRoleOnly(q) == role[rq[q].role] # NoRole

ForeignKeysHold(q) == role[rq[q].role] # NoRole /\ rq[q].perms \subseteq permission

InsertLegal(q) ==
    NewRows(q) # {} =>
        /\ ForeignKeysHold(q)
        /\ NewRows(q) \cap (role_permission \ view[q]) = {}   \* the unique index

\* One INSERT of all rows, unless there are none.  gorm may refuse the batch
\* whatever the database would say of its rows.
InsertRows(q) ==
    /\ pc[q] = "insert"
    /\ ~InsertWaits(q)
    /\ \/ /\ NewRows(q) = {} \/ BatchAccepted
          /\ InsertLegal(q)
          /\ ins' = [ins EXCEPT ![q] = NewRows(q)]
          /\ Goto(q, "collect")
          /\ UNCHANGED <<dbVars, rq, view, excused, missed>>
       \/ NewRows(q) # {} /\ Abort(q)
    /\ UNCHANGED <<enforcerVars, faults>>

\* The permissions are read back to build the policies: they are all there,
\* because the inserted rows lock them.  One whose read fails is skipped, and
\* its failure has broken the transaction.
CollectPolicies(q) ==
    /\ pc[q] = "collect"
    /\ \/ rq' = [rq EXCEPT ![q].found = rq[q].perms] /\ UNCHANGED faults
       \/ /\ Fault
          /\ \E found \in SUBSET rq[q].perms \ {rq[q].perms} :
                rq' = [rq EXCEPT ![q].found = found]
    /\ Goto(q, "remove")
    /\ UNCHANGED <<dbVars, enforcerVars, view, ins, excused, missed>>

\* Rows whose policies an open transaction has handed to AddPolicies.
Added == UNION {{rq[q].role} \X rq[q].found : q \in {x \in Requests : pc[x] = "commit"}}

\* RemoveFilteredPolicy(0, role::code); a failure is logged and ignored.  The
\* rules of rows that the DELETE of q has not found go with the others.
RemoveOldPolicies(q) ==
    /\ pc[q] = "remove"
    /\ \/ /\ RemoveMatching(Server(q), PoliciesOfCode(rq[q].code))
          /\ rq' = [rq EXCEPT ![q].cleared = TRUE]
          /\ excused' = excused \ PoliciesOfCode(rq[q].code)
          /\ missed' = missed \cup
               (PoliciesOfCode(rq[q].code) \cap PoliciesOf((role_permission \ view[q]) \cup Added))
          /\ UNCHANGED faults
       \/ Fault /\ UNCHANGED <<enforcerVars, rq, excused, missed>>
    /\ Goto(q, "add")
    /\ UNCHANGED <<dbVars, view, ins>>

\* Mutant: AddPoliciesEx, which adds the rules the memory does not have.
AddNewPoliciesEx(q) ==
    LET new == PoliciesFor(rq[q].code, rq[q].found) IN
    /\ pc[q] = "add"
    /\ AddStored(Server(q), new \ mem[Server(q)])
    /\ Goto(q, "commit")
    /\ UNCHANGED <<dbVars, rq, view, ins, faults, excused, missed>>

\* Mutant: an error of AddPolicies is logged and ignored, as the other one is.
AddNewPoliciesLogged(q) ==
    LET new == PoliciesFor(rq[q].code, rq[q].found) IN
    /\ pc[q] = "add"
    /\ \/ AddStored(Server(q), new) /\ missed' = missed \ new /\ UNCHANGED faults
       \/ AddRefused(Server(q), new) /\ missed' = missed \cup (new \ rules) /\ UNCHANGED faults
       \/ AddFails(Server(q), new) /\ Fault /\ UNCHANGED missed
    /\ Goto(q, "commit")
    /\ UNCHANGED <<dbVars, rq, view, ins, excused>>

\* AddPolicies(newPolicies), unless there are none.  Two permissions with the
\* same resource, or a rule this server's memory does not know of, may meet
\* the unique index of casbin_rule; its error rolls the transaction back.
AddNewPolicies(q) ==
    LET new == PoliciesFor(rq[q].code, rq[q].found)
        collides == \/ new \cap rules # {}
                    \/ \E p1, p2 \in rq[q].found :
                          p1 # p2 /\ ResourceOf[p1] = ResourceOf[p2]
                                  /\ ResourceOf[p1] # NoResource
    IN
    /\ pc[q] = "add"
    /\ \/ /\ \/ AddStored(Server(q), new) /\ missed' = missed \ new
             \/ AddRefused(Server(q), new) /\ missed' = missed \cup (new \ rules)
          /\ Goto(q, "commit")
          /\ UNCHANGED <<dbVars, rq, view, ins, faults, excused>>
       \/ /\ new # {}
          /\ AddFails(Server(q), new)
          /\ (collides /\ UNCHANGED faults) \/ Fault
          /\ Abort(q)

Commit(q) ==
    /\ pc[q] = "commit"
    /\ rq[q].found = rq[q].perms
    /\ DeleteRows(view[q], ins[q])
    /\ ins' = [ins EXCEPT ![q] = {}]
    /\ excused' = IF rq[q].cleared THEN excused ELSE excused \cup PoliciesOf(view[q])
    /\ Goto(q, "ok")
    /\ UNCHANGED <<enforcerVars, role, retired, permission, rq, faults, missed>>

-----------------------------------------------------------------------------
(* Create: look the code up, then insert in a transaction (syncRoleToCasbin *)
(* does nothing).  Delete: read the role, delete the row, and remove the    *)
(* grouping rules whose first field is the role.                            *)

FreshIDs == {r \in RoleIDs : role[r] = NoRole /\ r \notin retired}
CodeTaken(c) == \E r \in RoleIDs : role[r] = c

Create(q, c, s) ==
    /\ Receive(q, "create")
    \* Bound: only as many creations as there are UUIDs left.
    /\ Cardinality({x \in Requests : pc[x] = "insertRole"}) < Cardinality(FreshIDs)
    /\ \/ /\ ~CodeTaken(c)
          /\ Goto(q, "insertRole")
          /\ rq' = [rq EXCEPT ![q].code = c, ![q].server = s]
          /\ UNCHANGED faults
       \/ ReadFails(q, CodeTaken(c))
    /\ UNCHANGED <<dbVars, enforcerVars, view, ins, excused, missed>>

\* Mutant: the code is looked up, but not unique in the table.
InsertRoleUnchecked(q) ==
    /\ pc[q] = "insertRole"
    /\ \E r \in FreshIDs : role' = [role EXCEPT ![r] = rq[q].code]
    /\ Goto(q, "ok")
    /\ UNCHANGED <<enforcerVars, retired, permission, role_permission, rq, view,
                   ins, faults, excused, missed>>

InsertRole(q) ==
    /\ pc[q] = "insertRole"
    /\ \/ /\ ~CodeTaken(rq[q].code)
          /\ \E r \in FreshIDs : role' = [role EXCEPT ![r] = rq[q].code]
          /\ Goto(q, "ok")
       \/ /\ CodeTaken(rq[q].code)        \* unique index role_role_code_key
          /\ Goto(q, "error")
          /\ UNCHANGED role
    /\ UNCHANGED <<enforcerVars, retired, permission, role_permission, rq, view,
                   ins, faults, excused, missed>>

Delete(q, r, s) ==
    /\ Receive(q, "delete")
    /\ \/ /\ role[r] # NoRole
          /\ Goto(q, "deleteRole")
          /\ rq' = [rq EXCEPT ![q].role = r, ![q].code = role[r],
                              ![q].server = s]
          /\ UNCHANGED faults
       \/ ReadFails(q, role[r] = NoRole)
    /\ UNCHANGED <<dbVars, enforcerVars, view, ins, excused, missed>>

\* Rows an open transaction has locked, or has inserted, pin what they refer to.
Pinned(rows) ==
    \E x \in Requests :
        \/ ins[x] \cap rows # {}
        \/ pc[x] \in Holding /\ view[x] \cap rows # {}

\* The foreign keys cascade to role_permission.  Deleting no row is no error.
DeleteRole(q) ==
    LET r == rq[q].role IN
    /\ pc[q] = "deleteRole"
    /\ ~Pinned({r} \X PermissionIDs)
    /\ excused' = excused \cup PoliciesOf(RowsOf(r))
    /\ role' = [role EXCEPT ![r] = NoRole]
    /\ retired' = retired \cup {r}
    /\ DeleteRows(RowsOf(r), {})
    /\ Goto(q, "dropGroups")
    /\ UNCHANGED <<enforcerVars, permission, rq, ins, faults, missed>>

\* RemoveFilteredGroupingPolicy(0, role::code): the first field of a g rule is
\* a user, and p rules are not looked at, so no policy goes.
DropGroups(q) ==
    /\ pc[q] = "dropGroups"
    /\ Goto(q, "ok")
    /\ UNCHANGED <<dbVars, enforcerVars, rq, view, ins, faults, excused, missed>>

-----------------------------------------------------------------------------
(* What else happens to a request, to the permissions and to a server.      *)

\* A cascading delete locks the role or the permission before the rows that
\* go with it; an INSERT locks rows one by one, in the order of the request.
\* Two of them can wait for one another: PostgreSQL fails one.
CascadeCycle(q, rows) ==
    pc[q] = "insert" /\ view[q] \cap rows # {} /\ NewRows(q) \cap rows # {}

Deadlocked(q) ==
    \E x \in Requests \ {q} :
        \/ pc[x] = "deleteRole" /\ CascadeCycle(q, {rq[x].role} \X PermissionIDs)
        \/ pc[q] = "deleteRole" /\ CascadeCycle(x, {rq[q].role} \X PermissionIDs)
        \/ /\ pc[q] = "insert" /\ pc[x] = "insert"
           /\ Cardinality(NewRows(q) \cap NewRows(x)) > 1

DeadlockedByPermission(q) ==
    /\ "deletePermission" \in Operations
    /\ \E p \in permission : CascadeCycle(q, RoleIDs \X {p})

\* A statement or the commit fails.
Fails(q) ==
    /\ pc[q] \in {"scan", "lock", "insert", "commit", "insertRole", "deleteRole"}
    /\ \/ Fault
       \/ pc[q] = "commit" /\ rq[q].found # rq[q].perms /\ UNCHANGED faults
       \/ (Deadlocked(q) \/ DeadlockedByPermission(q)) /\ UNCHANGED faults
    /\ Abort(q)
    /\ UNCHANGED enforcerVars

\* permissionBiz.Delete: the row goes, and by cascade what grants it.
DeletePermission(p) ==
    LET rows == RoleIDs \X {p} IN
    /\ "deletePermission" \in Operations
    /\ p \in permission
    /\ ~Pinned(rows)
    /\ permission' = permission \ {p}
    /\ excused' = excused \cup PoliciesOf(rows \cap role_permission)
    /\ DeleteRows(rows, {})
    /\ UNCHANGED <<enforcerVars, role, retired, pc, rq, ins, faults, missed>>

\* A server dies and is started again: the database rolls back its open
\* transactions.
Crash(s) ==
    LET lost == {q \in Active : Server(q) = s}
        cleared == {q \in lost : rq[q].cleared}
    IN
    /\ Fault
    /\ StartEnforcer(s)
    /\ pc' = [q \in Requests |-> IF q \in lost THEN "crashed" ELSE pc[q]]
    /\ view' = [q \in Requests |-> IF q \in lost THEN {} ELSE view[q]]
    /\ ins' = [q \in Requests |-> IF q \in lost THEN {} ELSE ins[q]]
    /\ excused' = excused \cup
         UNION {PoliciesFor(rq[q].code, rq[q].found) : q \in {x \in lost : pc[x] = "commit"}}
    /\ missed' = missed \cup (PoliciesOf(UNION {view[q] : q \in cleared}) \ rules)
    /\ UNCHANGED <<dbVars, rq>>

Reload(s) ==
    /\ "reload" \in Operations
    /\ ReadPolicy(s) \/ ApplyPolicy(s)
    /\ UNCHANGED <<dbVars, pc, rq, view, ins, faults, excused, missed>>

-----------------------------------------------------------------------------
Start(q) ==
    \E s \in Servers :
        \/ \E r \in RoleIDs, P \in SUBSET PermissionIDs : AssignPermissionsToRole(q, r, P, s)
        \/ \E c \in RoleCodes : Create(q, c, s)
        \/ \E r \in RoleIDs : Delete(q, r, s)

Step(q) ==
    \/ ScanRows(q) \/ LockRows(q) \/ InsertRows(q) \/ CollectPolicies(q)
    \/ RemoveOldPolicies(q) \/ AddNewPolicies(q) \/ Commit(q)
    \/ InsertRole(q) \/ DeleteRole(q) \/ DropGroups(q)
    \/ Fails(q)

Next ==
    \/ \E q \in Requests : Start(q) \/ Step(q)
    \/ \E p \in PermissionIDs : DeletePermission(p)
    \/ \E s \in Servers : Crash(s) \/ Reload(s)

\* Goroutines are scheduled, lock waits end with the transaction waited for,
\* and the reload ticker keeps ticking.
Spec ==
    /\ Init /\ [][Next]_vars
    /\ \A q \in Requests : WF_vars(Step(q))
    /\ \A s \in Servers : WF_vars(Reload(s))

-----------------------------------------------------------------------------
(* Properties.                                                             *)

Pending == UNION {ins[q] : q \in Requests}

\* Rows of role_permission, committed or inserted by an open transaction, name
\* a role and a permission that exist: the waits of AssignPermissions and of
\* the two cascading deletes (template.sql, the foreign keys) leave no order
\* of their steps in which a row outlives what it refers to.
ReferencesResolve ==
    \A row \in role_permission \cup Pending :
        role[row[1]] # NoRole /\ row[2] \in permission

\* A policy in casbin_rule stands for a row of role_permission: one that is
\* committed, or one that a request past its AddPolicies is about to commit.
\* However requests of AssignPermissionsToRole overlap, the only exceptions are
\* what an incident left: a rollback or a crash after AddPolicies, a deleted
\* role or permission, a failed RemoveFilteredPolicy.
UnbackedRulesExplained == rules \subseteq PoliciesOf(role_permission \cup Added) \cup excused

\* Rows a transaction is about to replace, having removed their policies.
Rewriting == UNION {view[q] : q \in {x \in Requests : pc[x] \in {"add", "commit"} /\ rq[x].cleared}}

\* Every row of role_permission that no open transaction replaces has its policy
\* in casbin_rule, but where an incident left it out: a rollback or a crash after
\* RemoveFilteredPolicy, an AddPolicies that a stale memory or an old rule made
\* answer false, or a RemoveFilteredPolicy that met rules of rows which the DELETE
\* of its transaction had not found: those of an overlapping request, or of a role
\* that took the code of a deleted one.
MissingRulesExplained ==
    PoliciesOf((role_permission \ Rewriting) \cup Added) \subseteq rules \cup missed

\* When requests come one at a time and no call fails, a role that no request
\* is working on has in Casbin the policies of all its rows, or none at all
\* (syncRolePermissionsToCasbin adds them in one call).  "None" is possible: a
\* reload that runs into the call makes AddPolicies refuse.
AllOrNoPolicies ==
    Active = {} =>
        \A r \in RoleIDs : role[r] # NoRole =>
            rules \cap PoliciesOfCode(role[r]) \in {{}, PoliciesOf(RowsOf(r))}

\* Every request gets an answer, or dies with its server: assignments and
\* deletions wait for transactions, each of which ends with the function that
\* b.store.TX runs, on every path through it.
EveryRequestAnswered == \A q \in Requests : pc[q] # "new" ~> pc[q] \in Final

\* A role code names one role, though Create looks it up before, and outside,
\* the transaction that inserts: p rules are filed by code, and two roles of
\* one code would rewrite each other's policies.
RoleCodesUnique ==
    \A r1, r2 \in RoleIDs : role[r1] = role[r2] /\ role[r1] # NoRole => r1 = r2

-----------------------------------------------------------------------------
(* What a comment says, and the code does not do.                          *)

\* assignpermissions.go:16, "a transaction makes the database operations and the
\* synchronisation of Casbin atomic": when no request is in progress and each one
\* so far was answered without an error, Casbin has the policies of the rows.
SyncAtomic ==
    (\A q \in Requests : pc[q] \in {"new", "ok"}) => rules = PoliciesOf(role_permission)

-----------------------------------------------------------------------------
(* Why the two invariants hold.  Besides the bookkeeping of a request, they *)
(* rest on what the locks give: of two transactions on one role, the later  *)
(* DELETE has found every row the earlier one found and that is still there, *)
(* so at most one of them holds deleted rows; and on the policies of a role  *)
(* being rewritten standing for rows its transaction does not delete.       *)

RequestInv ==
    \A q \in Requests :
        /\ pc[q] \in InTx => role[rq[q].role] = rq[q].code \/ rq[q].role \in retired
        /\ view[q] \subseteq RowsOf(rq[q].role)
        /\ pc[q] \notin InTx \ {"scan"} => view[q] = {}
        /\ ins[q] = IF pc[q] \in Holding \ {"insert"} THEN NewRows(q) ELSE {}
        /\ rq[q].found \subseteq rq[q].perms
        /\ pc[q] \in InTx \ {"add", "commit"} => ~rq[q].cleared

RoleInv ==
    /\ \A r \in retired : role[r] = NoRole
    /\ RoleCodesUnique

LockInv ==
    \A q1, q2 \in Requests : q1 # q2 =>
        /\ rq[q1].role = rq[q2].role =>
              view[q1] \subseteq view[q2] \/ view[q2] \subseteq view[q1]
        /\ pc[q1] \in Holding /\ pc[q2] \in Holding => view[q1] \cap view[q2] = {}
        /\ ins[q1] \cap ins[q2] = {}

InsertedRowsAreNew == \A q \in Requests : ins[q] \cap role_permission \subseteq view[q]

RewrittenPoliciesBacked ==
    \A q \in Requests : pc[q] \in {"add", "commit"} /\ rq[q].cleared =>
        rules \cap PoliciesOfCode(rq[q].code)
            \subseteq PoliciesOf((role_permission \ view[q]) \cup Added) \cup excused

IInv ==
    /\ TypeOK
    /\ RequestInv
    /\ RoleInv
    /\ LockInv
    /\ InsertedRowsAreNew
    /\ ReferencesResolve
    /\ RewrittenPoliciesBacked
    /\ UnbackedRulesExplained

-----------------------------------------------------------------------------
(* Why requests that come one at a time, without failures and deletions,    *)
(* leave all policies of a role or none: what the one transaction in         *)
(* progress has found and done, and what nobody touches meanwhile.           *)

RulesOf(c) == rules \cap PoliciesOfCode(c)

\* Whose policies a request has begun to replace.
Rewritten(r) == \E q \in Requests : rq[q].role = r /\ pc[q] \in {"add", "commit"}

SerialRequest(q) ==
    /\ pc[q] \notin {"deleteRole", "dropGroups"}
    /\ pc[q] \in InTx \ {"scan"} => view[q] = RowsOf(rq[q].role)
    /\ pc[q] \in {"remove", "add", "commit"} => rq[q].found = rq[q].perms
    /\ pc[q] = "add" => RulesOf(rq[q].code) = {}
    /\ pc[q] = "commit" => RulesOf(rq[q].code) \in {{}, PoliciesFor(rq[q].code, rq[q].perms)}

SerialRole(r) ==
    role[r] # NoRole /\ ~Rewritten(r) => RulesOf(role[r]) \in {{}, PoliciesOf(RowsOf(r))}

SerialInv ==
    /\ retired = {} /\ faults = 0
    /\ \A q1, q2 \in Active : q1 = q2
    /\ \A rule \in rules : \E r \in RoleIDs : role[r] = rule[1]
    /\ \A q \in Requests : SerialRequest(q)
    /\ \A r \in RoleIDs : SerialRole(r)
=============================================================================
