------------------------ MODULE RolePermissionsProofs ------------------------
(***************************************************************************)
(* The inductive invariant of RolePermissions, for any number of requests, *)
(* servers, roles, permissions and faults.                                 *)
(***************************************************************************)
EXTENDS RolePermissions, FiniteSetTheorems, TLAPS

-----------------------------------------------------------------------------
(* What the operators on policies give.                                    *)

\* The row stands for the rule.
Backs(row, rule) ==
    /\ role[row[1]] # NoRole
    /\ ResourceOf[row[2]] # NoResource
    /\ rule = <<role[row[1]], ResourceOf[row[2]]>>

\* A policy of a set of rows comes from one of them.
LEMMA PolicyOfRow ==
  ASSUME NEW rows, NEW rule
  PROVE  rule \in PoliciesOf(rows) <=> \E row \in rows : Backs(row, rule)
BY DEF PoliciesOf, Backs

LEMMA PoliciesOfMonotone ==
  ASSUME NEW A, NEW B, A \subseteq B
  PROVE  PoliciesOf(A) \subseteq PoliciesOf(B)
BY DEF PoliciesOf

LEMMA PoliciesOfUnion ==
  ASSUME NEW A, NEW B
  PROVE  PoliciesOf(A \cup B) = PoliciesOf(A) \cup PoliciesOf(B)
BY DEF PoliciesOf

\* Policies are Casbin rules of the declared type.
LEMMA PoliciesTyped ==
  ASSUME TypeOK
  PROVE  /\ \A rows \in SUBSET Row : PoliciesOf(rows) \subseteq Policy
         /\ \A c \in RoleCodes, P \in SUBSET PermissionIDs : PoliciesFor(c, P) \subseteq Policy
<1> USE ResourceOfAssumption
<1>1. ASSUME NEW rows \in SUBSET Row PROVE PoliciesOf(rows) \subseteq Policy
  BY DEF PoliciesOf, Row, Policy, TypeOK
<1>2. ASSUME NEW c \in RoleCodes, NEW P \in SUBSET PermissionIDs
      PROVE  PoliciesFor(c, P) \subseteq Policy
  BY DEF PoliciesFor, Policy
<1> QED
  BY <1>1, <1>2

\* The rows handed to AddPolicies only change when a request reaches or leaves
\* its commit.
LEMMA AddedUnchanged ==
  ASSUME \A x \in Requests : pc'[x] = "commit" <=> pc[x] = "commit",
         \A x \in Requests : pc[x] = "commit" => rq'[x] = rq[x]
  PROVE  Added' = Added
BY DEF Added

-----------------------------------------------------------------------------
LEMMA InitInv == Init => IInv
<1> SUFFICES ASSUME Init PROVE IInv
  OBVIOUS
<1> USE DEF Init
<1>1. NoRequest \in Request
  BY NonEmptyAssumption DEF NoRequest, Request
<1>2. PoliciesOf(role_permission) \subseteq Policy
  <2>1. role_permission \in SUBSET Row
    OBVIOUS
  <2> QED
    BY <2>1, ResourceOfAssumption DEF PoliciesOf, Row, Policy
<1>3. TypeOK
  BY <1>1, <1>2 DEF EnforcerInit, TypeOK, EnforcerTypeOK, Final, InTx, Holding
<1>4. RequestInv
  BY <1>1 DEF RequestInv, InTx, Holding, NoRequest
<1>5. RoleInv /\ LockInv /\ InsertedRowsAreNew
  BY DEF RoleInv, RoleCodesUnique, LockInv, InsertedRowsAreNew, Holding
<1>6. ReferencesResolve
  BY DEF ReferencesResolve, Pending, Row
<1>7. RewrittenPoliciesBacked
  BY DEF RewrittenPoliciesBacked
<1>8. UnbackedRulesExplained
  BY DEF UnbackedRulesExplained, EnforcerInit, PoliciesOf
<1> QED
  BY <1>3, <1>4, <1>5, <1>6, <1>7, <1>8 DEF IInv

-----------------------------------------------------------------------------
(* One lemma for each step.                                                *)

LEMMA AssignKeepsInv ==
  ASSUME IInv, NEW q \in Requests, NEW r \in RoleIDs, NEW P \in SUBSET PermissionIDs,
         NEW s \in Servers, AssignPermissionsToRole(q, r, P, s)
  PROVE  IInv'
<1> USE DEF IInv, AssignPermissionsToRole, Receive, ReadFails, Fault, Goto, dbVars, enforcerVars
<1>1. TypeOK'
  <2>1. pc' \in [Requests -> Final \cup InTx \cup {"new", "insertRole", "deleteRole", "dropGroups"}]
    BY DEF TypeOK, Final, InTx
  <2>2. role[r] # NoRole =>
          [server |-> s, role |-> r, code |-> role[r], perms |-> P,
           found |-> {}, cleared |-> FALSE] \in Request
    BY DEF TypeOK, Request
  <2>3. rq' \in [Requests -> Request]
    BY <2>2 DEF TypeOK
  <2> QED
    BY <2>1, <2>3 DEF TypeOK, EnforcerTypeOK
<1>2. RequestInv'
  BY DEF TypeOK, RequestInv, InTx, Holding, NewRows, RowsOf, Request
<1>3. (RoleInv /\ InsertedRowsAreNew)'
  BY DEF RoleInv, RoleCodesUnique, InsertedRowsAreNew
<1>4. LockInv'
  BY DEF TypeOK, RequestInv, LockInv, Holding, InTx
<1>5. Added' = Added
  BY AddedUnchanged DEF TypeOK
<1>6. ReferencesResolve'
  BY DEF ReferencesResolve, Pending
<1>7. RewrittenPoliciesBacked'
  BY <1>5 DEF TypeOK, RewrittenPoliciesBacked, PoliciesOf, PoliciesOfCode
<1>8. UnbackedRulesExplained'
  BY <1>5 DEF UnbackedRulesExplained, PoliciesOf
<1> QED
  BY <1>1, <1>2, <1>3, <1>4, <1>6, <1>7, <1>8

LEMMA ScanKeepsInv ==
  ASSUME IInv, NEW q \in Requests, ScanRows(q)
  PROVE  IInv'
<1> USE DEF IInv, ScanRows, Goto, dbVars, enforcerVars
<1>1. TypeOK'
  BY DEF TypeOK, EnforcerTypeOK, InTx, RowsOf
<1>2. RequestInv'
  BY DEF TypeOK, RequestInv, InTx, Holding, NewRows, RowsOf
<1>3. (RoleInv /\ InsertedRowsAreNew)'
  BY DEF TypeOK, RoleInv, RoleCodesUnique, InsertedRowsAreNew, RequestInv, Holding
<1>4. LockInv'
  <2> SUFFICES ASSUME NEW x \in Requests, NEW y \in Requests, x # y
               PROVE  /\ rq[x].role = rq[y].role =>
                            view'[x] \subseteq view'[y] \/ view'[y] \subseteq view'[x]
                      /\ pc'[x] \in Holding /\ pc'[y] \in Holding => view'[x] \cap view'[y] = {}
                      /\ ins[x] \cap ins[y] = {}
    BY DEF LockInv, NewRows
  <2>1. view[x] \subseteq RowsOf(rq[x].role) /\ view[y] \subseteq RowsOf(rq[y].role)
    BY DEF RequestInv
  <2> QED
    BY <2>1 DEF TypeOK, LockInv, Holding
<1>5. Added' = Added
  BY AddedUnchanged DEF TypeOK
<1>6. ReferencesResolve'
  BY DEF ReferencesResolve, Pending
<1>7. RewrittenPoliciesBacked'
  BY <1>5 DEF TypeOK, RewrittenPoliciesBacked, PoliciesOf, PoliciesOfCode
<1>8. UnbackedRulesExplained'
  BY <1>5 DEF UnbackedRulesExplained, PoliciesOf
<1> QED
  BY <1>1, <1>2, <1>3, <1>4, <1>6, <1>7, <1>8

LEMMA LockKeepsInv ==
  ASSUME IInv, NEW q \in Requests, LockRows(q)
  PROVE  IInv'
<1> USE DEF IInv, LockRows, Goto, dbVars, enforcerVars
<1>1. TypeOK'
  BY DEF TypeOK, EnforcerTypeOK, InTx, Holding
<1>2. RequestInv'
  BY DEF TypeOK, RequestInv, InTx, Holding, NewRows, RowsOf
<1>3. (RoleInv /\ InsertedRowsAreNew)'
  BY DEF RoleInv, RoleCodesUnique, InsertedRowsAreNew
<1>4. LockInv'
  BY DEF TypeOK, LockInv, Holding
<1>5. Added' = Added
  BY AddedUnchanged DEF TypeOK
<1>6. ReferencesResolve'
  BY DEF ReferencesResolve, Pending
<1>7. RewrittenPoliciesBacked'
  BY <1>5 DEF TypeOK, RewrittenPoliciesBacked, PoliciesOf, PoliciesOfCode
<1>8. UnbackedRulesExplained'
  BY <1>5 DEF UnbackedRulesExplained, PoliciesOf
<1> QED
  BY <1>1, <1>2, <1>3, <1>4, <1>6, <1>7, <1>8

\* A rollback gives the locks back, and excuses the policies it leaves.
LEMMA AbortKeepsInv ==
  ASSUME IInv, NEW q \in Requests, Abort(q), UNCHANGED enforcerVars, faults' \in Nat,
         pc[q] \in InTx \cup {"insertRole", "deleteRole"}
  PROVE  IInv'
<1> USE DEF IInv, Abort, Goto, dbVars, enforcerVars
<1>1. TypeOK'
  <2>1. PoliciesFor(rq[q].code, rq[q].found) \subseteq Policy
    BY PoliciesTyped DEF TypeOK, Request
  <2>2. PoliciesOf(view[q]) \subseteq Policy
    BY PoliciesTyped DEF TypeOK
  <2> QED
    BY <2>1, <2>2 DEF TypeOK, EnforcerTypeOK, Final
<1>2. RequestInv'
  BY DEF TypeOK, RequestInv, InTx, Holding, NewRows, RowsOf
<1>3. (RoleInv /\ InsertedRowsAreNew)'
  BY DEF TypeOK, RoleInv, RoleCodesUnique, InsertedRowsAreNew
<1>4. LockInv'
  BY DEF TypeOK, LockInv, Holding
<1>5. ReferencesResolve'
  BY DEF TypeOK, ReferencesResolve, Pending
<1>6. ASSUME NEW row \in Added, row \notin Added',
             role[row[1]] # NoRole, ResourceOf[row[2]] # NoResource
      PROVE  <<role[row[1]], ResourceOf[row[2]]>> \in excused'
  <2>1. pc[q] = "commit" /\ row \in {rq[q].role} \X rq[q].found
    BY <1>6 DEF Added, TypeOK
  <2>2. role[rq[q].role] = rq[q].code
    BY <2>1, <1>6 DEF RequestInv, RoleInv, InTx, Holding
  <2> QED
    BY <2>1, <2>2, <1>6 DEF PoliciesFor
<1>7. excused \subseteq excused'
  OBVIOUS
<1>8. RewrittenPoliciesBacked'
  <2> SUFFICES ASSUME NEW x \in Requests, pc'[x] \in {"add", "commit"}, rq[x].cleared,
                      NEW rule \in rules, rule \in PoliciesOfCode(rq[x].code), rule \notin excused'
               PROVE  \E row \in (role_permission \ view'[x]) \cup Added' :
                         /\ role[row[1]] # NoRole /\ ResourceOf[row[2]] # NoResource
                         /\ rule = <<role[row[1]], ResourceOf[row[2]]>>
    BY DEF RewrittenPoliciesBacked, PoliciesOf, PoliciesOfCode
  <2>1. x # q /\ view'[x] = view[x] /\ pc[x] \in {"add", "commit"}
    BY DEF TypeOK
  <2>2. PICK row \in (role_permission \ view[x]) \cup Added :
            /\ role[row[1]] # NoRole /\ ResourceOf[row[2]] # NoResource
            /\ rule = <<role[row[1]], ResourceOf[row[2]]>>
    BY <1>7, <2>1 DEF RewrittenPoliciesBacked, PoliciesOf
  <2> QED
    BY <1>6, <2>1, <2>2
<1>9. UnbackedRulesExplained'
  <2> SUFFICES ASSUME NEW rule \in rules, rule \notin excused'
               PROVE  \E row \in role_permission \cup Added' :
                         /\ role[row[1]] # NoRole /\ ResourceOf[row[2]] # NoResource
                         /\ rule = <<role[row[1]], ResourceOf[row[2]]>>
    BY DEF UnbackedRulesExplained, PoliciesOf
  <2>1. PICK row \in role_permission \cup Added :
            /\ role[row[1]] # NoRole /\ ResourceOf[row[2]] # NoResource
            /\ rule = <<role[row[1]], ResourceOf[row[2]]>>
    BY <1>7 DEF UnbackedRulesExplained, PoliciesOf
  <2> QED
    BY <1>6, <2>1
<1> QED
  BY <1>1, <1>2, <1>3, <1>4, <1>5, <1>8, <1>9

LEMMA InsertKeepsInv ==
  ASSUME IInv, NEW q \in Requests, InsertRows(q)
  PROVE  IInv'
<1> USE DEF InsertRows, dbVars, enforcerVars
<1>1. CASE InsertLegal(q) /\ ins' = [ins EXCEPT ![q] = NewRows(q)] /\ Goto(q, "collect")
           /\ UNCHANGED <<dbVars, rq, view, excused, missed>>
  <2> USE <1>1 DEF IInv, Goto
  <2>1. NewRows(q) \in SUBSET Row
    BY DEF TypeOK, Request, NewRows, Row
  <2>2. TypeOK'
    BY <2>1 DEF TypeOK, EnforcerTypeOK, InTx, Holding
  <2>3. RequestInv'
    BY DEF TypeOK, RequestInv, InTx, Holding, NewRows, RowsOf
  <2>4. RoleInv'
    BY DEF RoleInv, RoleCodesUnique
  <2>5. InsertedRowsAreNew'
    BY DEF TypeOK, InsertedRowsAreNew, InsertLegal, ForeignKeysHold
  <2>6. LockInv'
    BY DEF TypeOK, LockInv, InsertWaits, Holding
  <2>7. Added' = Added
    BY AddedUnchanged DEF TypeOK
  <2>8. ReferencesResolve'
    BY DEF TypeOK, ReferencesResolve, Pending, InsertLegal, ForeignKeysHold, NewRows
  <2>9. RewrittenPoliciesBacked'
    BY <2>7 DEF TypeOK, RewrittenPoliciesBacked, PoliciesOf, PoliciesOfCode
  <2>10. UnbackedRulesExplained'
    BY <2>7 DEF UnbackedRulesExplained, PoliciesOf
  <2> QED
    BY <2>2, <2>3, <2>4, <2>5, <2>6, <2>8, <2>9, <2>10
<1>2. CASE NewRows(q) # {} /\ Abort(q)
  <2>1. faults' \in Nat
    BY DEF IInv, TypeOK
  <2> QED
    BY <1>2, <2>1, AbortKeepsInv DEF InTx, Holding
<1> QED
  BY <1>1, <1>2

LEMMA CollectKeepsInv ==
  ASSUME IInv, NEW q \in Requests, CollectPolicies(q)
  PROVE  IInv'
<1> USE DEF IInv, CollectPolicies, Goto, Fault, dbVars, enforcerVars
<1>1. PICK found \in SUBSET rq[q].perms : rq' = [rq EXCEPT ![q].found = found]
  OBVIOUS
<1>2. TypeOK'
  BY <1>1 DEF TypeOK, EnforcerTypeOK, InTx, Holding, Request
<1>3. RequestInv'
  BY <1>1 DEF TypeOK, Request, RequestInv, InTx, Holding, NewRows, RowsOf
<1>4. (RoleInv /\ InsertedRowsAreNew)'
  BY DEF RoleInv, RoleCodesUnique, InsertedRowsAreNew
<1>5. LockInv'
  BY <1>1 DEF TypeOK, Request, LockInv, Holding
<1>6. Added' = Added
  BY <1>1, AddedUnchanged DEF TypeOK
<1>7. ReferencesResolve'
  BY DEF ReferencesResolve, Pending
<1>8. RewrittenPoliciesBacked'
  BY <1>1, <1>6 DEF TypeOK, RewrittenPoliciesBacked, PoliciesOf, PoliciesOfCode
<1>9. UnbackedRulesExplained'
  BY <1>6 DEF UnbackedRulesExplained, PoliciesOf
<1> QED
  BY <1>2, <1>3, <1>4, <1>5, <1>7, <1>8, <1>9

LEMMA RemoveKeepsInv ==
  ASSUME IInv, NEW q \in Requests, RemoveOldPolicies(q)
  PROVE  IInv'
<1> USE DEF IInv, RemoveOldPolicies, RemoveMatching, Goto, Server, Fault, dbVars, enforcerVars
<1>1. TypeOK'
  <2>1. rq[q].server \in Servers
    BY DEF TypeOK, Request
  <2>2. EnforcerTypeOK'
    BY <2>1 DEF TypeOK, EnforcerTypeOK
  <2>3. rq' = [rq EXCEPT ![q].cleared = TRUE] \/ rq' = rq
    OBVIOUS
  <2>4. [rq EXCEPT ![q].cleared = TRUE] \in [Requests -> Request]
    BY DEF TypeOK, Request
  <2>5. rq' \in [Requests -> Request]
    BY <2>3, <2>4 DEF TypeOK
  <2>6. pc' \in [Requests -> Final \cup InTx \cup {"new", "insertRole", "deleteRole", "dropGroups"}]
    BY DEF TypeOK, InTx, Holding
  <2>7. excused' \in SUBSET Policy /\ missed' \in SUBSET Policy /\ faults' \in Nat
    BY DEF TypeOK, PoliciesOfCode
  <2> QED
    BY <2>2, <2>5, <2>6, <2>7 DEF TypeOK
<1>2. RequestInv'
  <2>1. \A x \in Requests :
            /\ rq'[x].role = rq[x].role /\ rq'[x].code = rq[x].code
            /\ rq'[x].perms = rq[x].perms /\ rq'[x].found = rq[x].found
            /\ x # q => rq'[x] = rq[x]
    BY DEF TypeOK, Request
  <2>2. \A x \in Requests : pc'[x] = IF x = q THEN "add" ELSE pc[x]
    BY DEF TypeOK
  <2>3. \A x \in Requests :
            NewRows(x)' = NewRows(x) /\ RowsOf(rq[x].role)' = RowsOf(rq[x].role)
    BY <2>1 DEF NewRows, RowsOf
  <2>4. ASSUME NEW x \in Requests
        PROVE  /\ pc'[x] \in InTx => role[rq[x].role] = rq[x].code \/ rq[x].role \in retired
               /\ view[x] \subseteq RowsOf(rq[x].role)
               /\ pc'[x] \notin InTx \ {"scan"} => view[x] = {}
               /\ ins[x] = IF pc'[x] \in Holding \ {"insert"} THEN NewRows(x) ELSE {}
               /\ rq[x].found \subseteq rq[x].perms
               /\ pc'[x] \in InTx \ {"add", "commit"} => ~rq'[x].cleared
    <3>1. pc[q] = "remove"
      OBVIOUS
    <3> QED
      BY <2>1, <2>2, <3>1 DEF RequestInv, InTx, Holding
  <2>5. role' = role /\ retired' = retired /\ view' = view /\ ins' = ins
    OBVIOUS
  <2> QED
    BY <2>1, <2>3, <2>4, <2>5 DEF RequestInv, RowsOf
<1>3. (RoleInv /\ InsertedRowsAreNew)'
  BY DEF RoleInv, RoleCodesUnique, InsertedRowsAreNew
<1>4. LockInv'
  BY DEF TypeOK, Request, LockInv, Holding
<1>5. Added' = Added
  BY AddedUnchanged DEF TypeOK
<1>6. ReferencesResolve'
  BY DEF ReferencesResolve, Pending
<1>7. \A x \in Requests : rq'[x].code = rq[x].code /\ (x # q => rq'[x] = rq[x] /\ pc'[x] = pc[x])
  BY DEF TypeOK, Request
<1>8. RewrittenPoliciesBacked'
  <2> SUFFICES ASSUME NEW x \in Requests, pc'[x] \in {"add", "commit"}, rq'[x].cleared,
                      NEW rule \in rules', rule \in PoliciesOfCode(rq[x].code), rule \notin excused'
               PROVE  \E row \in (role_permission \ view[x]) \cup Added :
                         /\ role[row[1]] # NoRole /\ ResourceOf[row[2]] # NoResource
                         /\ rule = <<role[row[1]], ResourceOf[row[2]]>>
    BY <1>5, <1>7 DEF RewrittenPoliciesBacked, PoliciesOf, PoliciesOfCode
  <2>1. rule \in rules /\ rule \notin excused
    OBVIOUS
  <2>2. x # q
    <3> SUFFICES ASSUME x = q PROVE FALSE
      OBVIOUS
    <3>1. CASE rules' = rules \ PoliciesOfCode(rq[q].code)
      BY <3>1
    <3>2. CASE UNCHANGED rq
      BY <3>2 DEF RequestInv, InTx, Holding, TypeOK
    <3> QED
      BY <3>1, <3>2
  <2> QED
    BY <1>7, <2>1, <2>2 DEF RewrittenPoliciesBacked, PoliciesOf
<1>9. UnbackedRulesExplained'
  BY <1>5 DEF UnbackedRulesExplained, PoliciesOf
<1> QED
  BY <1>1, <1>2, <1>3, <1>4, <1>6, <1>8, <1>9

\* The policies of an assignment stand for its inserted rows, which pin the role.
LEMMA NewPoliciesBacked ==
  ASSUME IInv, NEW q \in Requests, pc[q] \in {"add", "commit"}
  PROVE  PoliciesFor(rq[q].code, rq[q].found) \subseteq PoliciesOf({rq[q].role} \X rq[q].found)
<1> USE DEF IInv
<1> SUFFICES ASSUME NEW p \in rq[q].found, ResourceOf[p] # NoResource
             PROVE  <<rq[q].code, ResourceOf[p]>> \in PoliciesOf({rq[q].role} \X rq[q].found)
  BY DEF PoliciesFor
<1>1. <<rq[q].role, p>> \in ins[q]
  BY DEF RequestInv, Holding, NewRows
<1>2. role[rq[q].role] # NoRole
  BY <1>1 DEF ReferencesResolve, Pending
<1>3. role[rq[q].role] = rq[q].code
  BY <1>2 DEF RequestInv, RoleInv, InTx, Holding
<1>4. <<rq[q].role, p>> \in {rq[q].role} \X rq[q].found
  OBVIOUS
<1> QED
  BY <1>2, <1>3, <1>4, PolicyOfRow DEF Backs

LEMMA AddKeepsInv ==
  ASSUME IInv, NEW q \in Requests, AddNewPolicies(q)
  PROVE  IInv'
<1> DEFINE new == PoliciesFor(rq[q].code, rq[q].found)
<1>1. CASE /\ \/ AddStored(Server(q), new) /\ missed' = missed \ new
              \/ AddRefused(Server(q), new) /\ missed' = missed \cup (new \ rules)
           /\ pc[q] = "add" /\ Goto(q, "commit")
           /\ UNCHANGED <<dbVars, rq, view, ins, faults, excused>>
  <2> USE <1>1 DEF Goto, dbVars
  <2>1. new \subseteq Policy
    BY PoliciesTyped DEF IInv, TypeOK, Request
  <2>2. rules' \subseteq rules \cup new
    BY DEF AddStored, AddRefused
  <2>3. TypeOK'
    <3>1. rq[q].server \in Servers
      BY DEF IInv, TypeOK, Request
    <3>2. EnforcerTypeOK'
      <4> HIDE DEF new
      <4> QED
        BY <2>1, <3>1 DEF IInv, TypeOK, EnforcerTypeOK, AddStored, AddRefused, Server
    <3>3. missed' \in SUBSET Policy
      <4> HIDE DEF new
      <4> QED
        BY <2>1 DEF IInv, TypeOK
    <3> QED
      BY <3>2, <3>3 DEF IInv, TypeOK, InTx, Holding
  <2>4. RequestInv'
    BY DEF IInv, TypeOK, RequestInv, InTx, Holding, NewRows, RowsOf
  <2>5. (RoleInv /\ InsertedRowsAreNew /\ ReferencesResolve)'
    BY DEF IInv, RoleInv, RoleCodesUnique, InsertedRowsAreNew, ReferencesResolve, Pending
  <2>6. LockInv'
    BY DEF IInv, TypeOK, LockInv, Holding
  <2>7. Added' = Added \cup {rq[q].role} \X rq[q].found
    BY DEF IInv, TypeOK, Added
  <2>8. new \subseteq PoliciesOf({rq[q].role} \X rq[q].found)
    BY NewPoliciesBacked
  <2>9. new \subseteq PoliciesOf(Added')
    BY <2>7, <2>8, PoliciesOfMonotone
  <2> HIDE DEF new
  <2>11. RewrittenPoliciesBacked'
    <3> SUFFICES ASSUME NEW x \in Requests, pc'[x] \in {"add", "commit"}, rq[x].cleared,
                        NEW rule \in rules', rule \in PoliciesOfCode(rq[x].code), rule \notin excused
                 PROVE  rule \in PoliciesOf((role_permission \ view[x]) \cup Added')
      BY DEF RewrittenPoliciesBacked, PoliciesOf, PoliciesOfCode
    <3>1. CASE rule \in new
      BY <3>1, <2>9, PoliciesOfUnion
    <3>2. CASE rule \in rules
      <4>1. rule \in PoliciesOf((role_permission \ view[x]) \cup Added)
        BY <3>2 DEF IInv, TypeOK, RewrittenPoliciesBacked
      <4>2. PoliciesOf((role_permission \ view[x]) \cup Added)
              \subseteq PoliciesOf((role_permission \ view[x]) \cup Added')
        BY <2>7, PoliciesOfMonotone
      <4> QED
        BY <4>1, <4>2
    <3> QED
      BY <3>1, <3>2, <2>2
  <2>12. UnbackedRulesExplained'
    <3>1. rules \subseteq PoliciesOf(role_permission \cup Added) \cup excused
      BY DEF IInv, UnbackedRulesExplained
    <3>2. PoliciesOf(role_permission \cup Added) \subseteq PoliciesOf(role_permission \cup Added')
      BY <2>7, PoliciesOfMonotone
    <3>3. new \subseteq PoliciesOf(role_permission \cup Added')
      BY <2>9, PoliciesOfMonotone
    <3>4. rules' \subseteq PoliciesOf(role_permission \cup Added') \cup excused
      BY <2>2, <3>1, <3>2, <3>3
    <3> QED
      BY <3>4 DEF UnbackedRulesExplained, PoliciesOf
  <2> QED
    BY <2>3, <2>4, <2>5, <2>6, <2>11, <2>12 DEF IInv
<1>2. CASE AddFails(Server(q), new) /\ pc[q] = "add" /\ Abort(q) /\ (UNCHANGED faults \/ Fault)
  <2>1. faults' \in Nat
    BY <1>2 DEF IInv, TypeOK, Fault
  <2>2. UNCHANGED enforcerVars
    BY <1>2 DEF AddFails, enforcerVars
  <2> QED
    BY <1>2, <2>1, <2>2, AbortKeepsInv DEF InTx, Holding
<1> QED
  BY <1>1, <1>2 DEF AddNewPolicies

\* The row a policy stands for may be one the commit deletes: then another row
\* takes its place, or the commit excuses the policy.
LEMMA CommitKeepsInv ==
  ASSUME IInv, NEW q \in Requests, Commit(q)
  PROVE  IInv'
<1> USE DEF IInv, Commit, DeleteRows, Goto, dbVars, enforcerVars
<1>1. TypeOK'
  <2>1. PoliciesOf(view[q]) \subseteq Policy
    BY PoliciesTyped DEF TypeOK
  <2>2. excused' \in SUBSET Policy
    BY <2>1 DEF TypeOK
  <2>3. view' \in [Requests -> SUBSET Row] /\ ins' \in [Requests -> SUBSET Row]
    BY DEF TypeOK
  <2>4. role_permission' \in SUBSET Row
    BY DEF TypeOK
  <2> QED
    BY <2>2, <2>3, <2>4 DEF TypeOK, EnforcerTypeOK, Final
<1>2. RequestInv'
  BY DEF TypeOK, RequestInv, InTx, Holding, NewRows, RowsOf
<1>3. RoleInv'
  BY DEF RoleInv, RoleCodesUnique
<1>4. InsertedRowsAreNew'
  BY DEF TypeOK, InsertedRowsAreNew, LockInv
<1>5. LockInv'
  BY DEF TypeOK, LockInv, Holding
<1>6. ReferencesResolve'
  BY DEF TypeOK, ReferencesResolve, Pending
<1>7. \A row \in Added : row \in Added' \/ row \in ins[q]
  BY DEF TypeOK, Added, RequestInv, NewRows, Holding
<1>8. excused \subseteq excused'
  OBVIOUS
<1>9. ASSUME NEW row \in view[q], NEW rule \in rules, Backs(row, rule), rule \notin excused'
      PROVE  /\ rule \in PoliciesOfCode(rq[q].code)
             /\ \E other \in (role_permission \ view[q]) \cup Added : Backs(other, rule)
  <2>1. rq[q].cleared
    BY <1>9, PolicyOfRow
  <2>2. row[1] = rq[q].role
    BY DEF RequestInv, RowsOf
  <2>3. role[rq[q].role] = rq[q].code
    BY <1>9, <2>2 DEF RequestInv, RoleInv, InTx, Holding, Backs
  <2>4. rule \in PoliciesOfCode(rq[q].code)
    BY <1>9, <2>2, <2>3 DEF PoliciesOfCode, TypeOK, EnforcerTypeOK, Backs
  <2>5. rule \in PoliciesOf((role_permission \ view[q]) \cup Added)
    BY <1>8, <1>9, <2>1, <2>4 DEF RewrittenPoliciesBacked
  <2> QED
    BY <2>4, <2>5, PolicyOfRow
<1>10. RewrittenPoliciesBacked'
  <2> SUFFICES ASSUME NEW x \in Requests, x # q, pc[x] \in {"add", "commit"}, rq[x].cleared,
                      NEW rule \in rules, rule \in PoliciesOfCode(rq[x].code), rule \notin excused'
               PROVE  \E row \in (role_permission' \ view'[x]) \cup Added' : Backs(row, rule)
    BY DEF TypeOK, RewrittenPoliciesBacked, PoliciesOf, PoliciesOfCode, Backs
  <2>1. \A row \in Added : row \in (role_permission' \ view'[x]) \cup Added'
    <3>1. \A row \in ins[q] : row \in role_permission' /\ row \notin view'[x]
      BY DEF TypeOK, InsertedRowsAreNew, RequestInv, RowsOf
    <3> QED
      BY <1>7, <3>1
  <2>2. \A row \in role_permission \ (view[q] \cup view[x]) : row \in role_permission' \ view'[x]
    BY DEF TypeOK
  <2>3. PICK row \in (role_permission \ view[x]) \cup Added : Backs(row, rule)
    BY <1>8, PolicyOfRow DEF RewrittenPoliciesBacked
  <2>4. CASE row \in view[q]
    <3>1. PICK other \in (role_permission \ view[q]) \cup Added : Backs(other, rule)
      BY <1>9, <2>3, <2>4
    <3>2. other \notin role_permission \/ other \notin view[x]
      <4> SUFFICES ASSUME other \in view[x] PROVE FALSE
        OBVIOUS
      <4>1. row[1] = rq[q].role /\ other[1] = rq[x].role
        BY <2>4 DEF RequestInv, RowsOf
      <4>2. row[1] \in RoleIDs /\ other[1] \in RoleIDs
        BY <4>1 DEF TypeOK, Request
      <4>3. role[row[1]] = role[other[1]] /\ role[row[1]] # NoRole
        BY <2>3, <3>1 DEF Backs
      <4>4. rq[q].role = rq[x].role
        BY <4>1, <4>2, <4>3 DEF RoleInv, RoleCodesUnique
      <4>5. /\ view[q] \subseteq view[x] \/ view[x] \subseteq view[q]
            /\ view[q] \cap view[x] = {}
        BY <4>4 DEF LockInv, Holding
      <4> QED
        BY <2>4, <4>5
    <3> QED
      BY <2>1, <2>2, <3>1, <3>2
  <2>5. CASE row \notin view[q]
    BY <2>1, <2>2, <2>3, <2>5
  <2> QED
    BY <2>4, <2>5
<1>11. UnbackedRulesExplained'
  <2> SUFFICES ASSUME NEW rule \in rules, rule \notin excused'
               PROVE  \E row \in role_permission' \cup Added' : Backs(row, rule)
    BY DEF UnbackedRulesExplained, PoliciesOf, Backs
  <2>1. \A row \in (role_permission \ view[q]) \cup Added : row \in role_permission' \cup Added'
    BY <1>7
  <2>2. PICK row \in role_permission \cup Added : Backs(row, rule)
    BY <1>8, PolicyOfRow DEF UnbackedRulesExplained
  <2>3. CASE row \in view[q]
    BY <1>9, <2>1, <2>2, <2>3
  <2>4. CASE row \notin view[q]
    BY <2>1, <2>2, <2>4
  <2> QED
    BY <2>3, <2>4
<1> QED
  BY <1>1, <1>2, <1>3, <1>4, <1>5, <1>6, <1>10, <1>11

LEMMA CreateKeepsInv ==
  ASSUME IInv, NEW q \in Requests, NEW c \in RoleCodes, NEW s \in Servers, Create(q, c, s)
  PROVE  IInv'
<1> USE DEF IInv, Create, Receive, ReadFails, Fault, Goto, dbVars, enforcerVars
<1>1. pc'[q] \in {"error", "insertRole"} /\ pc' = [pc EXCEPT ![q] = pc'[q]]
  BY DEF TypeOK
<1>2. rq' \in [Requests -> Request] /\ \A x \in Requests \ {q} : rq'[x] = rq[x]
  <2> DEFINE new == [rq[q] EXCEPT !.code = c, !.server = s]
  <2>1. rq \in [Requests -> Request] /\ rq[q] \in Request
    BY DEF TypeOK
  <2>2. new \in Request
    BY <2>1 DEF Request
  <2>3. rq' = [rq EXCEPT ![q] = new] \/ rq' = rq
    OBVIOUS
  <2> HIDE DEF new
  <2> QED
    BY <2>1, <2>2, <2>3
<1>3. rq'[q].role = rq[q].role /\ rq'[q].perms = rq[q].perms /\ rq'[q].found = rq[q].found
  BY DEF TypeOK, Request
<1>4. TypeOK'
  <2>1. faults' \in Nat
    BY DEF TypeOK
  <2>2. pc' \in [Requests -> Final \cup InTx \cup {"new", "insertRole", "deleteRole", "dropGroups"}]
    BY <1>1 DEF TypeOK, Final
  <2> HIDE DEF Create, Delete
  <2>3. UNCHANGED <<dbVars, enforcerVars, view, ins, excused, missed>>
    BY DEF Create, Delete
  <2> QED
    BY <1>2, <2>1, <2>2, <2>3 DEF TypeOK, EnforcerTypeOK
<1>5. RequestInv'
  BY <1>1, <1>2, <1>3 DEF TypeOK, RequestInv, InTx, Holding, NewRows, RowsOf
<1>6. (RoleInv /\ InsertedRowsAreNew)'
  BY DEF RoleInv, RoleCodesUnique, InsertedRowsAreNew
<1>7. LockInv'
  BY <1>1, <1>2, <1>3 DEF TypeOK, LockInv, Holding
<1>8. Added' = Added
  BY <1>1, <1>2, AddedUnchanged DEF TypeOK
<1>9. ReferencesResolve'
  BY DEF ReferencesResolve, Pending
<1>10. RewrittenPoliciesBacked'
  BY <1>1, <1>2, <1>8 DEF TypeOK, RewrittenPoliciesBacked, PoliciesOf, PoliciesOfCode
<1>11. UnbackedRulesExplained'
  BY <1>8 DEF UnbackedRulesExplained, PoliciesOf
<1> QED
  BY <1>4, <1>5, <1>6, <1>7, <1>9, <1>10, <1>11

LEMMA DeleteKeepsInv ==
  ASSUME IInv, NEW q \in Requests, NEW r \in RoleIDs, NEW s \in Servers, Delete(q, r, s)
  PROVE  IInv'
<1> USE DEF IInv, Delete, Receive, ReadFails, Fault, Goto, dbVars, enforcerVars
<1>1. pc'[q] \in {"error", "deleteRole"} /\ pc' = [pc EXCEPT ![q] = pc'[q]]
  BY DEF TypeOK
<1>2. rq' \in [Requests -> Request] /\ \A x \in Requests \ {q} : rq'[x] = rq[x]
  <2> DEFINE new == [rq[q] EXCEPT !.role = r, !.code = role[r], !.server = s]
  <2>1. rq \in [Requests -> Request] /\ rq[q] \in Request
    BY DEF TypeOK
  <2>2. ASSUME role[r] # NoRole PROVE new \in Request
    <3>1. role[r] \in RoleCodes
      BY <2>2 DEF TypeOK
    <3> QED
      BY <2>1, <3>1 DEF Request
  <2>3. rq' = [rq EXCEPT ![q] = new] \/ rq' = rq
    OBVIOUS
  <2>4. rq' = [rq EXCEPT ![q] = new] => role[r] # NoRole \/ rq' = rq
    OBVIOUS
  <2> HIDE DEF new
  <2> QED
    BY <2>1, <2>2, <2>3, <2>4
<1>3. rq'[q].perms = rq[q].perms /\ rq'[q].found = rq[q].found
  BY DEF TypeOK, Request
<1>4. view[q] = {} /\ ins[q] = {}
  BY DEF TypeOK, RequestInv, InTx, Holding
<1>5. TypeOK'
  <2>1. faults' \in Nat
    BY DEF TypeOK
  <2>2. pc' \in [Requests -> Final \cup InTx \cup {"new", "insertRole", "deleteRole", "dropGroups"}]
    BY <1>1 DEF TypeOK, Final
  <2> HIDE DEF Create, Delete
  <2>3. UNCHANGED <<dbVars, enforcerVars, view, ins, excused, missed>>
    BY DEF Create, Delete
  <2> QED
    BY <1>2, <2>1, <2>2, <2>3 DEF TypeOK, EnforcerTypeOK
<1>6. RequestInv'
  BY <1>1, <1>2, <1>3, <1>4 DEF TypeOK, RequestInv, InTx, Holding, NewRows, RowsOf
<1>7. (RoleInv /\ InsertedRowsAreNew)'
  BY DEF RoleInv, RoleCodesUnique, InsertedRowsAreNew
<1>8. LockInv'
  BY <1>1, <1>2, <1>4 DEF TypeOK, LockInv, Holding
<1>9. Added' = Added
  BY <1>1, <1>2, AddedUnchanged DEF TypeOK
<1>10. ReferencesResolve'
  BY DEF ReferencesResolve, Pending
<1>11. RewrittenPoliciesBacked'
  BY <1>1, <1>2, <1>9 DEF TypeOK, RewrittenPoliciesBacked, PoliciesOf, PoliciesOfCode
<1>12. UnbackedRulesExplained'
  BY <1>9 DEF UnbackedRulesExplained, PoliciesOf
<1> QED
  BY <1>5, <1>6, <1>7, <1>8, <1>10, <1>11, <1>12

\* Rows handed to AddPolicies are inserted rows, so what they refer to exists.
LEMMA AddedPending ==
  ASSUME IInv
  PROVE  Added \subseteq Pending
<1> SUFFICES ASSUME NEW q \in Requests, pc[q] = "commit",
                    NEW row \in {rq[q].role} \X rq[q].found
             PROVE  row \in ins[q]
  BY DEF Added, Pending
<1> QED
  BY DEF IInv, RequestInv, NewRows, Holding

LEMMA InsertRoleKeepsInv ==
  ASSUME IInv, NEW q \in Requests, InsertRole(q)
  PROVE  IInv'
<1> USE DEF IInv, InsertRole, Goto, enforcerVars
<1>1. pc[q] = "insertRole" /\ pc'[q] \in {"ok", "error"} /\ pc' = [pc EXCEPT ![q] = pc'[q]]
  BY DEF TypeOK
<1>2. \/ UNCHANGED role
      \/ /\ ~CodeTaken(rq[q].code)
         /\ \E r \in FreshIDs : role' = [role EXCEPT ![r] = rq[q].code]
  OBVIOUS
<1>3. \A r \in RoleIDs : role[r] # NoRole => role'[r] = role[r]
  BY <1>2 DEF TypeOK, FreshIDs
<1>4. TypeOK'
  BY <1>1, <1>2 DEF TypeOK, EnforcerTypeOK, Final, Request, FreshIDs
<1>5. RequestInv'
  BY <1>1, <1>3, NoRoleAssumption
     DEF TypeOK, Request, RequestInv, InTx, Holding, NewRows, RowsOf
<1>6. RoleInv'
  BY <1>2 DEF TypeOK, RoleInv, RoleCodesUnique, FreshIDs, CodeTaken
<1>7. (LockInv /\ InsertedRowsAreNew)'
  BY <1>1 DEF TypeOK, LockInv, InsertedRowsAreNew, Holding
<1>8. Added' = Added
  BY <1>1, AddedUnchanged DEF TypeOK
<1>9. ReferencesResolve'
  BY <1>3 DEF TypeOK, ReferencesResolve, Pending, Row
<1>10. \A row \in role_permission \cup Added : \A rule : Backs(row, rule) => Backs(row, rule)'
  <2>1. role_permission \cup Added \subseteq Row
    BY AddedPending DEF TypeOK, Pending
  <2> QED
    BY <1>3, <2>1 DEF Backs, Row
<1>11. RewrittenPoliciesBacked'
  <2> SUFFICES ASSUME NEW x \in Requests, pc[x] \in {"add", "commit"}, rq[x].cleared,
                      NEW rule \in rules, rule \in PoliciesOfCode(rq[x].code), rule \notin excused
               PROVE  \E row \in (role_permission \ view[x]) \cup Added : Backs(row, rule)'
    BY <1>1, <1>8 DEF TypeOK, RewrittenPoliciesBacked, PoliciesOf, PoliciesOfCode, Backs
  <2>1. PICK row \in (role_permission \ view[x]) \cup Added : Backs(row, rule)
    BY PolicyOfRow DEF RewrittenPoliciesBacked
  <2> QED
    BY <1>10, <2>1
<1>12. UnbackedRulesExplained'
  <2> SUFFICES ASSUME NEW rule \in rules, rule \notin excused
               PROVE  \E row \in role_permission \cup Added : Backs(row, rule)'
    BY <1>8 DEF UnbackedRulesExplained, PoliciesOf, Backs
  <2>1. PICK row \in role_permission \cup Added : Backs(row, rule)
    BY PolicyOfRow DEF UnbackedRulesExplained
  <2> QED
    BY <1>10, <2>1
<1> QED
  BY <1>4, <1>5, <1>6, <1>7, <1>9, <1>11, <1>12

LEMMA DropGroupsKeepsInv ==
  ASSUME IInv, NEW q \in Requests, DropGroups(q)
  PROVE  IInv'
<1> USE DEF IInv, DropGroups, Goto, dbVars, enforcerVars
<1>1. TypeOK'
  BY DEF TypeOK, EnforcerTypeOK, Final
<1>2. RequestInv'
  BY DEF TypeOK, RequestInv, InTx, Holding, NewRows, RowsOf
<1>3. (RoleInv /\ LockInv /\ InsertedRowsAreNew)'
  BY DEF TypeOK, RoleInv, RoleCodesUnique, LockInv, InsertedRowsAreNew, Holding
<1>4. Added' = Added
  BY AddedUnchanged DEF TypeOK
<1>5. ReferencesResolve'
  BY DEF ReferencesResolve, Pending
<1>6. RewrittenPoliciesBacked'
  BY <1>4 DEF TypeOK, RewrittenPoliciesBacked, PoliciesOf, PoliciesOfCode
<1>7. UnbackedRulesExplained'
  BY <1>4 DEF UnbackedRulesExplained, PoliciesOf
<1> QED
  BY <1>1, <1>2, <1>3, <1>5, <1>6, <1>7

\* What a cascading delete does: the rows in gone leave the table, their
\* policies are excused, and no open transaction has one of them pinned.
Cascade(gone) ==
    /\ ~Pinned(gone)
    /\ DeleteRows(gone, {})
    /\ excused' = excused \cup PoliciesOf(gone \cap role_permission)
    /\ \A row \in Row \ gone : role'[row[1]] = role[row[1]]
    /\ UNCHANGED <<enforcerVars, rq, ins>>

LEMMA CascadeKeepsInv ==
  ASSUME IInv, NEW gone \in SUBSET Row, Cascade(gone),
         \A x \in Requests : pc'[x] = pc[x] \/ (pc[x] \notin InTx /\ pc'[x] \notin InTx)
  PROVE  /\ LockInv' /\ InsertedRowsAreNew'
         /\ RewrittenPoliciesBacked' /\ UnbackedRulesExplained'
<1> USE DEF Cascade, DeleteRows, enforcerVars
<1>1. \A x \in Requests : view'[x] = view[x] \ gone
  BY DEF IInv, TypeOK
<1>2. \A x \in Requests : ins[x] \cap gone = {}
  BY DEF IInv, TypeOK, Pinned
<1>3. LockInv'
  BY <1>1 DEF IInv, LockInv, Holding, InTx
<1>4. InsertedRowsAreNew'
  BY <1>1 DEF IInv, InsertedRowsAreNew
<1>5. Added' = Added
  BY AddedUnchanged DEF InTx, Holding
<1>6. Added \cap gone = {} /\ Added \subseteq Row /\ role_permission \subseteq Row
  BY <1>2, AddedPending DEF IInv, TypeOK, Pending
<1>7. \A row \in Row \ gone : \A rule : Backs(row, rule) => Backs(row, rule)'
  BY DEF Backs
<1>8. ASSUME NEW rule \in rules, rule \notin excused', NEW row \in role_permission,
             Backs(row, rule)
      PROVE  row \notin gone
  BY <1>8, PolicyOfRow
<1>9. RewrittenPoliciesBacked'
  <2> SUFFICES ASSUME NEW x \in Requests, pc[x] \in {"add", "commit"}, rq[x].cleared,
                      NEW rule \in rules, rule \in PoliciesOfCode(rq[x].code), rule \notin excused'
               PROVE  \E row \in (role_permission' \ view'[x]) \cup Added : Backs(row, rule)'
    BY <1>5 DEF RewrittenPoliciesBacked, PoliciesOf, PoliciesOfCode, Backs, InTx, Holding
  <2>1. PICK row \in (role_permission \ view[x]) \cup Added : Backs(row, rule)
    BY PolicyOfRow DEF IInv, RewrittenPoliciesBacked
  <2>2. row \in Row \ gone
    BY <1>6, <1>8, <2>1
  <2>3. row \in (role_permission' \ view'[x]) \cup Added
    BY <1>1, <2>1, <2>2
  <2> QED
    BY <1>7, <2>1, <2>2, <2>3
<1>10. UnbackedRulesExplained'
  <2> SUFFICES ASSUME NEW rule \in rules, rule \notin excused'
               PROVE  \E row \in role_permission' \cup Added : Backs(row, rule)'
    BY <1>5 DEF UnbackedRulesExplained, PoliciesOf, Backs
  <2>1. PICK row \in role_permission \cup Added : Backs(row, rule)
    BY PolicyOfRow DEF IInv, UnbackedRulesExplained
  <2>2. row \in Row \ gone
    BY <1>6, <1>8, <2>1
  <2> QED
    BY <1>7, <2>1, <2>2
<1> QED
  BY <1>3, <1>4, <1>9, <1>10

LEMMA DeleteRoleKeepsInv ==
  ASSUME IInv, NEW q \in Requests, DeleteRole(q)
  PROVE  IInv'
<1> DEFINE r == rq[q].role
           gone == {r} \X PermissionIDs
<1>1. r \in RoleIDs /\ gone \in SUBSET Row
  BY DEF IInv, TypeOK, Request, Row
<1>2. RowsOf(r) = gone \cap role_permission
  BY DEF IInv, TypeOK, RowsOf, Row
<1>3. \A x \in Requests : view[x] \subseteq role_permission
  BY DEF IInv, RequestInv, RowsOf
<1>4. Cascade(gone)
  <2>1. \A x \in Requests : view[x] \ RowsOf(r) = view[x] \ gone
    BY <1>2, <1>3
  <2>2. DeleteRows(gone, {})
    BY <1>2, <2>1 DEF DeleteRole, DeleteRows
  <2>3. \A row \in Row \ gone : role'[row[1]] = role[row[1]]
    BY <1>1 DEF DeleteRole, IInv, TypeOK, Row
  <2> QED
    BY <1>2, <2>2, <2>3 DEF DeleteRole, Cascade, enforcerVars
<1> HIDE DEF gone
<1>5. LockInv' /\ InsertedRowsAreNew' /\ RewrittenPoliciesBacked' /\ UnbackedRulesExplained'
  BY <1>1, <1>4, CascadeKeepsInv DEF DeleteRole, Goto, IInv, TypeOK, InTx, Holding
<1>6. TypeOK'
  <2>1. PoliciesOf(RowsOf(r)) \subseteq Policy
    BY <1>1, <1>2, PoliciesTyped DEF IInv, TypeOK
  <2>2. role' \in [RoleIDs -> RoleCodes \cup {NoRole}]
    BY DEF DeleteRole, IInv, TypeOK
  <2>3. view' \in [Requests -> SUBSET Row] /\ role_permission' \in SUBSET Row
    BY DEF DeleteRole, DeleteRows, IInv, TypeOK
  <2> QED
    BY <1>1, <2>1, <2>2, <2>3 DEF DeleteRole, Goto, enforcerVars, IInv, TypeOK, EnforcerTypeOK
<1>7. RequestInv'
  BY DEF DeleteRole, DeleteRows, Goto, IInv, TypeOK, Request, RequestInv, InTx, Holding, NewRows, RowsOf
<1>8. RoleInv'
  <2>1. \A x \in RoleIDs : role'[x] = IF x = r THEN NoRole ELSE role[x]
    BY DEF DeleteRole, IInv, TypeOK
  <2>2. retired' = retired \cup {r} /\ retired \subseteq RoleIDs
    BY DEF DeleteRole, IInv, TypeOK
  <2> QED
    BY <1>1, <2>1, <2>2 DEF IInv, RoleInv, RoleCodesUnique
<1>9. ReferencesResolve'
  <2>1. \A x \in Requests : ins[x] \cap gone = {}
    BY <1>4 DEF Cascade, Pinned
  <2>2. \A row \in role_permission' \cup Pending : row \in role_permission \cup Pending /\ row \notin gone
    BY <1>4, <2>1 DEF Cascade, DeleteRows, Pending
  <2>3. role_permission' \cup Pending \subseteq Row
    BY <2>2 DEF IInv, TypeOK, Pending
  <2>4. \A row \in role_permission' \cup Pending : role'[row[1]] = role[row[1]]
    BY <1>4, <2>2, <2>3 DEF Cascade
  <2> QED
    BY <2>2, <2>4 DEF DeleteRole, IInv, ReferencesResolve, Pending
<1> QED
  BY <1>5, <1>6, <1>7, <1>8, <1>9 DEF IInv

LEMMA DeletePermissionKeepsInv ==
  ASSUME IInv, NEW p \in PermissionIDs, DeletePermission(p)
  PROVE  IInv'
<1> DEFINE gone == RoleIDs \X {p}
<1>1. gone \in SUBSET Row
  BY DEF Row
<1>2. Cascade(gone)
  BY DEF DeletePermission, Cascade
<1> HIDE DEF gone
<1>3. LockInv' /\ InsertedRowsAreNew' /\ RewrittenPoliciesBacked' /\ UnbackedRulesExplained'
  BY <1>1, <1>2, CascadeKeepsInv DEF DeletePermission
<1>4. TypeOK'
  <2>1. PoliciesOf(gone \cap role_permission) \subseteq Policy
    BY PoliciesTyped DEF IInv, TypeOK
  <2>2. view' \in [Requests -> SUBSET Row] /\ role_permission' \in SUBSET Row
    BY DEF DeletePermission, DeleteRows, IInv, TypeOK
  <2> QED
    BY <1>2, <2>1, <2>2 DEF Cascade, DeletePermission, enforcerVars, IInv, TypeOK, EnforcerTypeOK
<1>5. RequestInv'
  BY DEF DeletePermission, DeleteRows, IInv, TypeOK, RequestInv, InTx, Holding, NewRows, RowsOf
<1>6. RoleInv'
  BY DEF DeletePermission, IInv, RoleInv, RoleCodesUnique
<1>7. ReferencesResolve'
  <2>1. \A row \in role_permission' \cup Pending : row \in role_permission \cup Pending /\ row \notin gone
    BY <1>2 DEF Cascade, DeleteRows, Pinned, Pending
  <2>2. role_permission' \cup Pending \subseteq Row
    BY <2>1 DEF IInv, TypeOK, Pending
  <2> QED
    BY <2>1, <2>2 DEF gone, Row, DeletePermission, IInv, ReferencesResolve, Pending
<1> QED
  BY <1>3, <1>4, <1>5, <1>6, <1>7 DEF IInv

LEMMA CrashKeepsInv ==
  ASSUME IInv, NEW s \in Servers, Crash(s)
  PROVE  IInv'
<1> DEFINE lost == {q \in Active : Server(q) = s}
<1> USE DEF IInv, Crash, StartEnforcer, Fault, dbVars
<1>1. lost \subseteq Requests /\ \A q \in lost : pc[q] \notin Final \cup {"new"}
  BY DEF Active
<1>2. pc' = [q \in Requests |-> IF q \in lost THEN "crashed" ELSE pc[q]]
  OBVIOUS
<1>3. view' = [q \in Requests |-> IF q \in lost THEN {} ELSE view[q]]
  OBVIOUS
<1>4. ins' = [q \in Requests |-> IF q \in lost THEN {} ELSE ins[q]]
  OBVIOUS
<1>5. \A q \in lost : pc[q] = "commit" => PoliciesFor(rq[q].code, rq[q].found) \subseteq excused'
  OBVIOUS
<1>6. excused \subseteq excused' /\ excused' \subseteq Policy
  <2>1. \A q \in Requests : PoliciesFor(rq[q].code, rq[q].found) \subseteq Policy
    BY PoliciesTyped DEF TypeOK, Request
  <2> QED
    BY <1>1, <2>1 DEF TypeOK
<1>m. missed' \subseteq Policy
  <2> DEFINE dropped == UNION {view[q] : q \in {x \in lost : rq[x].cleared}}
  <2>1. dropped \in SUBSET Row
    <3>1. \A q \in lost : view[q] \subseteq Row
      BY <1>1 DEF TypeOK
    <3> HIDE DEF lost
    <3> QED
      BY <3>1
  <2>2. missed' = missed \cup (PoliciesOf(dropped) \ rules)
    OBVIOUS
  <2> HIDE DEF dropped
  <2>3. PoliciesOf(dropped) \subseteq Policy
    BY <2>1, PoliciesTyped DEF TypeOK
  <2> QED
    BY <2>2, <2>3 DEF TypeOK
<1> HIDE DEF lost
<1>7. TypeOK'
  <2>1. EnforcerTypeOK'
    BY DEF TypeOK, EnforcerTypeOK
  <2> QED
    BY <1>m, <1>2, <1>3, <1>4, <1>6, <2>1 DEF TypeOK, Final
<1>8. RequestInv'
  <2> SUFFICES ASSUME NEW x \in Requests
               PROVE  /\ pc'[x] \in InTx => role[rq[x].role] = rq[x].code \/ rq[x].role \in retired
                      /\ view'[x] \subseteq RowsOf(rq[x].role)
                      /\ pc'[x] \notin InTx \ {"scan"} => view'[x] = {}
                      /\ ins'[x] = IF pc'[x] \in Holding \ {"insert"} THEN NewRows(x) ELSE {}
                      /\ rq[x].found \subseteq rq[x].perms
                      /\ pc'[x] \in InTx \ {"add", "commit"} => ~rq[x].cleared
    BY DEF RequestInv, InTx, Holding, NewRows, RowsOf
  <2>1. CASE x \in lost
    BY <1>2, <1>3, <1>4, <2>1 DEF RequestInv, InTx, Holding
  <2>2. CASE x \notin lost
    BY <1>2, <1>3, <1>4, <2>2 DEF RequestInv
  <2> QED
    BY <2>1, <2>2
<1>9. (RoleInv /\ InsertedRowsAreNew)'
  BY <1>3, <1>4 DEF RoleInv, RoleCodesUnique, InsertedRowsAreNew
<1>10. LockInv'
  BY <1>2, <1>3, <1>4 DEF LockInv, Holding
<1>11. ReferencesResolve'
  BY <1>4 DEF ReferencesResolve, Pending
<1>12. ASSUME NEW row \in Added, row \notin Added', NEW rule, Backs(row, rule)
       PROVE  rule \in excused'
  <2>1. PICK q \in Requests : pc[q] = "commit" /\ row \in {rq[q].role} \X rq[q].found
    BY DEF Added
  <2>2. q \in lost
    BY <1>2, <1>12, <2>1 DEF Added
  <2>3. role[rq[q].role] = rq[q].code
    BY <1>12, <2>1 DEF Backs, RequestInv, RoleInv, InTx, Holding
  <2>4. rule \in PoliciesFor(rq[q].code, rq[q].found)
    BY <1>12, <2>1, <2>3 DEF Backs, PoliciesFor
  <2> QED
    BY <1>5, <2>1, <2>2, <2>4
<1>13. RewrittenPoliciesBacked'
  <2> SUFFICES ASSUME NEW x \in Requests, pc'[x] \in {"add", "commit"}, rq[x].cleared,
                      NEW rule \in rules, rule \in PoliciesOfCode(rq[x].code), rule \notin excused'
               PROVE  \E row \in (role_permission \ view'[x]) \cup Added' : Backs(row, rule)
    BY DEF RewrittenPoliciesBacked, PoliciesOf, PoliciesOfCode, Backs
  <2>1. view'[x] = view[x] /\ pc[x] \in {"add", "commit"}
    BY <1>2, <1>3
  <2>2. PICK row \in (role_permission \ view[x]) \cup Added : Backs(row, rule)
    BY <1>6, <2>1, PolicyOfRow DEF RewrittenPoliciesBacked
  <2> QED
    BY <1>12, <2>1, <2>2
<1>14. UnbackedRulesExplained'
  <2> SUFFICES ASSUME NEW rule \in rules, rule \notin excused'
               PROVE  \E row \in role_permission \cup Added' : Backs(row, rule)
    BY DEF UnbackedRulesExplained, PoliciesOf, Backs
  <2>1. PICK row \in role_permission \cup Added : Backs(row, rule)
    BY <1>6, PolicyOfRow DEF UnbackedRulesExplained
  <2> QED
    BY <1>12, <2>1
<1> QED
  BY <1>7, <1>8, <1>9, <1>10, <1>11, <1>13, <1>14

LEMMA ReloadKeepsInv ==
  ASSUME IInv, NEW s \in Servers, Reload(s)
  PROVE  IInv'
<1> USE DEF IInv, Reload, ReadPolicy, ApplyPolicy, dbVars
<1>1. UNCHANGED <<rules, dbVars, pc, rq, view, ins, faults, excused>>
  OBVIOUS
<1>2. TypeOK'
  BY DEF TypeOK, EnforcerTypeOK
<1> HIDE DEF Reload, ReadPolicy, ApplyPolicy
<1>3. RequestInv' /\ LockInv'
  BY <1>1 DEF RequestInv, LockInv, NewRows, RowsOf
<1>5. RoleInv' /\ InsertedRowsAreNew' /\ ReferencesResolve'
  BY <1>1 DEF RoleInv, RoleCodesUnique, InsertedRowsAreNew, ReferencesResolve, Pending
<1>4. (RewrittenPoliciesBacked /\ UnbackedRulesExplained)'
  BY <1>1 DEF RewrittenPoliciesBacked, UnbackedRulesExplained, PoliciesOf, PoliciesOfCode, Added
<1> QED
  BY <1>2, <1>3, <1>4, <1>5

LEMMA StutterKeepsInv ==
  ASSUME IInv, UNCHANGED vars
  PROVE  IInv'
<1> USE DEF IInv, vars
<1>1. TypeOK'
  BY DEF TypeOK, EnforcerTypeOK
<1>2. RequestInv' /\ LockInv'
  BY DEF RequestInv, LockInv, NewRows, RowsOf
<1>4. RoleInv' /\ InsertedRowsAreNew' /\ ReferencesResolve'
  BY DEF RoleInv, RoleCodesUnique, InsertedRowsAreNew, ReferencesResolve, Pending
<1>3. (RewrittenPoliciesBacked /\ UnbackedRulesExplained)'
  BY DEF RewrittenPoliciesBacked, UnbackedRulesExplained, PoliciesOf, PoliciesOfCode, Added
<1> QED
  BY <1>1, <1>2, <1>3, <1>4

LEMMA FailsKeepsInv ==
  ASSUME IInv, NEW q \in Requests, Fails(q)
  PROVE  IInv'
<1>1. faults' \in Nat
  BY DEF Fails, Fault, IInv, TypeOK
<1> QED
  BY <1>1, AbortKeepsInv DEF Fails, InTx, Holding

-----------------------------------------------------------------------------
\* Every step keeps the inductive invariant.
LEMMA NextKeepsInv == IInv /\ [Next]_vars => IInv'
<1> SUFFICES ASSUME IInv, [Next]_vars PROVE IInv'
  OBVIOUS
<1>1. ASSUME NEW q \in Requests, Start(q) PROVE IInv'
  BY <1>1, AssignKeepsInv, CreateKeepsInv, DeleteKeepsInv DEF Start
<1>2. ASSUME NEW q \in Requests, Step(q) PROVE IInv'
  BY <1>2, ScanKeepsInv, LockKeepsInv, InsertKeepsInv, CollectKeepsInv, RemoveKeepsInv,
     AddKeepsInv, CommitKeepsInv, InsertRoleKeepsInv, DeleteRoleKeepsInv,
     DropGroupsKeepsInv, FailsKeepsInv DEF Step
<1>3. ASSUME NEW p \in PermissionIDs, DeletePermission(p) PROVE IInv'
  BY <1>3, DeletePermissionKeepsInv
<1>4. ASSUME NEW s \in Servers, Crash(s) \/ Reload(s) PROVE IInv'
  BY <1>4, CrashKeepsInv, ReloadKeepsInv
<1>5. CASE UNCHANGED vars
  BY <1>5, StutterKeepsInv
<1> QED
  BY <1>1, <1>2, <1>3, <1>4, <1>5 DEF Next

\* The inductive invariant holds in every reachable state of RolePermissions.
THEOREM InvariantHolds == Spec => []IInv
<1> QED
  BY InitInv, NextKeepsInv, PTL DEF Spec

\* The types of the tables, of the enforcer and of the requests' variables
\* (biz/v1/role) hold for any number of servers, requests and roles.
THEOREM RolePermissionsTyped == Spec => []TypeOK
<1>1. IInv => TypeOK
  BY DEF IInv
<1> QED
  BY <1>1, InvariantHolds, PTL

\* Rows of role_permission, committed or inserted, always name a role and a
\* permission that exist, however assignments and cascading deletes overlap.
THEOREM RowsResolve == Spec => []ReferencesResolve
<1>1. IInv => ReferencesResolve
  BY DEF IInv
<1> QED
  BY <1>1, InvariantHolds, PTL

\* Two roles never share a code, whatever creations and deletions overlap.
THEOREM CodesUnique == Spec => []RoleCodesUnique
<1>1. IInv => RoleCodesUnique
  BY DEF IInv, RoleInv
<1> QED
  BY <1>1, InvariantHolds, PTL

\* A policy in casbin_rule stands for a row of role_permission, unless one of
\* the named incidents (a rollback or a crash after AddPolicies, a deletion, a
\* failed RemoveFilteredPolicy) has left it behind.
THEOREM PoliciesExplained == Spec => []UnbackedRulesExplained
<1>1. IInv => UnbackedRulesExplained
  BY DEF IInv
<1> QED
  BY <1>1, InvariantHolds, PTL

-----------------------------------------------------------------------------
(* The other direction: which rows may be without their policy.            *)

\* What a row needs to have kept its policy.
LEMMA MissingKept ==
  ASSUME MissingRulesExplained,
         rules \cup missed \subseteq rules' \cup missed',
         \A row \in ((role_permission \ Rewriting) \cup Added)' :
            /\ row \in (role_permission \ Rewriting) \cup Added
            /\ role'[row[1]] \in {role[row[1]], NoRole}
  PROVE  MissingRulesExplained'
<1> SUFFICES ASSUME NEW row \in ((role_permission \ Rewriting) \cup Added)', NEW rule,
                    Backs(row, rule)'
             PROVE  rule \in rules' \cup missed'
  BY PolicyOfRow DEF MissingRulesExplained, PoliciesOf, Backs
<1>1. Backs(row, rule)
  BY DEF Backs
<1>2. rule \in rules \cup missed
  BY <1>1, PolicyOfRow DEF MissingRulesExplained
<1> QED
  BY <1>2

\* A step of a request that is not past its RemoveFilteredPolicy, and that takes
\* it nowhere else, changes neither which rows are being replaced nor which have
\* been handed to AddPolicies.
LEMMA RewritingUnchanged ==
  ASSUME \A x \in Requests : pc'[x] \in {"add", "commit"} <=> pc[x] \in {"add", "commit"},
         \A x \in Requests : pc[x] \in {"add", "commit"} => rq'[x] = rq[x] /\ view'[x] = view[x]
  PROVE  Rewriting' = Rewriting
BY DEF Rewriting

\* Steps before RemoveFilteredPolicy, and steps of other operations that only
\* read.
LEMMA EarlyStepKeepsMissing ==
  ASSUME IInv, MissingRulesExplained, NEW q \in Requests,
         pc[q] \notin {"add", "commit"},
         UNCHANGED <<rules, missed, role, role_permission>>,
         \/ /\ pc' = [pc EXCEPT ![q] = pc'[q]] /\ pc'[q] \notin {"add", "commit"}
            /\ \A x \in Requests \ {q} : rq'[x] = rq[x] /\ view'[x] = view[x]
         \/ UNCHANGED <<pc, rq, view>>
  PROVE  MissingRulesExplained'
<1>1. \A x \in Requests : pc'[x] \in {"add", "commit"} <=> pc[x] \in {"add", "commit"}
  BY DEF IInv, TypeOK
<1>2. \A x \in Requests : pc[x] \in {"add", "commit"} => rq'[x] = rq[x] /\ view'[x] = view[x]
  OBVIOUS
<1>3. Rewriting' = Rewriting
  BY <1>1, <1>2, RewritingUnchanged
<1>4. Added' = Added
  <2>1. \A x \in Requests : pc'[x] = "commit" <=> pc[x] = "commit"
    BY DEF IInv, TypeOK
  <2> QED
    BY <1>2, <2>1, AddedUnchanged
<1> QED
  BY <1>3, <1>4, MissingKept

\* A rollback: the rows stay, and what has become of their policies is recorded.
LEMMA AbortKeepsMissing ==
  ASSUME IInv, MissingRulesExplained, NEW q \in Requests, Abort(q), UNCHANGED rules,
         pc[q] \in InTx \cup {"insertRole", "deleteRole"}
  PROVE  MissingRulesExplained'
<1> USE DEF Abort, Goto, dbVars
<1>1. Added' \subseteq Added
  BY DEF IInv, TypeOK, Added
<1>2. SUFFICES ASSUME NEW row \in ((role_permission \ Rewriting) \cup Added)', NEW rule,
                      Backs(row, rule)'
               PROVE  rule \in rules' \cup missed'
  BY PolicyOfRow DEF MissingRulesExplained, PoliciesOf, Backs
<1>3. Backs(row, rule)
  BY <1>2 DEF Backs
<1>4. CASE row \in (role_permission \ Rewriting) \cup Added
  <2>1. rule \in rules \cup missed
    BY <1>3, <1>4, PolicyOfRow DEF MissingRulesExplained
  <2> QED
    BY <2>1
<1>5. CASE row \notin (role_permission \ Rewriting) \cup Added
  <2>1. row \in Rewriting /\ row \notin Rewriting'
    BY <1>1, <1>2, <1>5
  <2>2. PICK x \in Requests : pc[x] \in {"add", "commit"} /\ rq[x].cleared /\ row \in view[x]
    BY <2>1 DEF Rewriting
  <2>3. x = q
    BY <2>1, <2>2 DEF IInv, TypeOK, Rewriting
  <2>4. rule \in PoliciesOf(view[q])
    BY <1>3, <2>2, <2>3, PolicyOfRow
  <2> QED
    BY <2>2, <2>3, <2>4
<1> QED
  BY <1>4, <1>5

\* RemoveFilteredPolicy: what it takes from rows the transaction does not
\* replace is recorded.
LEMMA RemoveKeepsMissing ==
  ASSUME IInv, MissingRulesExplained, NEW q \in Requests, RemoveOldPolicies(q)
  PROVE  MissingRulesExplained'
<1> USE DEF RemoveOldPolicies, Goto, dbVars, enforcerVars
<1>1. Added' = Added
  <2>1. \A x \in Requests : pc'[x] = "commit" <=> pc[x] = "commit"
    BY DEF IInv, TypeOK
  <2>2. \A x \in Requests : pc[x] = "commit" => rq'[x] = rq[x]
    BY DEF IInv, TypeOK
  <2> QED
    BY <2>1, <2>2, AddedUnchanged
<1>2. Rewriting \subseteq Rewriting'
  <2> SUFFICES ASSUME NEW x \in Requests, pc[x] \in {"add", "commit"}, rq[x].cleared
               PROVE  /\ pc'[x] \in {"add", "commit"} /\ rq'[x].cleared
                      /\ view'[x] = view[x]
    BY DEF Rewriting
  <2> QED
    BY DEF IInv, TypeOK
<1>3. CASE UNCHANGED <<rules, missed>>
  BY <1>1, <1>2, <1>3, MissingKept
<1>4. CASE /\ RemoveMatching(Server(q), PoliciesOfCode(rq[q].code))
           /\ rq' = [rq EXCEPT ![q].cleared = TRUE]
           /\ missed' = missed \cup
                (PoliciesOfCode(rq[q].code) \cap PoliciesOf((role_permission \ view[q]) \cup Added))
  <2>1. rules' = rules \ PoliciesOfCode(rq[q].code)
    BY <1>4 DEF RemoveMatching
  <2>2. view[q] \subseteq Rewriting'
    <3>1. pc'[q] = "add" /\ rq'[q].cleared /\ view'[q] = view[q]
      BY <1>4 DEF IInv, TypeOK, Request
    <3> QED
      BY <3>1 DEF Rewriting
  <2> SUFFICES ASSUME NEW row \in ((role_permission \ Rewriting) \cup Added)', NEW rule,
                      Backs(row, rule)'
               PROVE  rule \in rules' \cup missed'
    BY PolicyOfRow DEF MissingRulesExplained, PoliciesOf, Backs
  <2>3. Backs(row, rule)
    BY DEF Backs
  <2>4. rule \in rules \cup missed
    BY <1>1, <1>2, <2>3, PolicyOfRow DEF MissingRulesExplained
  <2>5. rule \in PoliciesOf((role_permission \ view[q]) \cup Added)
    BY <1>1, <2>2, <2>3, PolicyOfRow
  <2> QED
    BY <1>4, <2>1, <2>4, <2>5
<1> QED
  BY <1>3, <1>4

\* AddPolicies: the policies of the rows it was called for are there, or are
\* recorded as left out.
LEMMA AddKeepsMissing ==
  ASSUME IInv, MissingRulesExplained, NEW q \in Requests, AddNewPolicies(q)
  PROVE  MissingRulesExplained'
<1> DEFINE new == PoliciesFor(rq[q].code, rq[q].found)
<1>1. CASE /\ \/ AddStored(Server(q), new) /\ missed' = missed \ new
              \/ AddRefused(Server(q), new) /\ missed' = missed \cup (new \ rules)
           /\ pc[q] = "add" /\ Goto(q, "commit")
           /\ UNCHANGED <<dbVars, rq, view, ins, faults, excused>>
  <2> USE <1>1 DEF Goto, dbVars
  <2>1. rules \cup missed \cup new \subseteq rules' \cup missed'
    <3> HIDE DEF new
    <3> QED
      BY DEF AddStored, AddRefused
  <2>2. Added' = Added \cup ({rq[q].role} \X rq[q].found)
    BY DEF IInv, TypeOK, Added
  <2>3. Rewriting' = Rewriting
    <3>1. \A x \in Requests : pc'[x] \in {"add", "commit"} <=> pc[x] \in {"add", "commit"}
      BY DEF IInv, TypeOK
    <3> QED
      BY <3>1, RewritingUnchanged
  <2> SUFFICES ASSUME NEW row \in ((role_permission \ Rewriting) \cup Added)', NEW rule,
                      Backs(row, rule)'
               PROVE  rule \in rules' \cup missed'
    BY PolicyOfRow DEF MissingRulesExplained, PoliciesOf, Backs
  <2>4. Backs(row, rule)
    BY DEF Backs
  <2>5. CASE row \in (role_permission \ Rewriting) \cup Added
    <3>1. rule \in rules \cup missed
      BY <2>4, <2>5, PolicyOfRow DEF MissingRulesExplained
    <3> QED
      BY <2>1, <3>1
  <2>6. CASE row \in {rq[q].role} \X rq[q].found
    <3>1. row[1] = rq[q].role /\ row[2] \in rq[q].found
      BY <2>6
    <3>2. role[rq[q].role] = rq[q].code
      BY <2>4, <3>1 DEF Backs, IInv, RequestInv, RoleInv, InTx, Holding
    <3>3. rule = <<rq[q].code, ResourceOf[row[2]]>> /\ ResourceOf[row[2]] # NoResource
      BY <2>4, <3>1, <3>2 DEF Backs
    <3>4. rule \in new
      BY <3>1, <3>3 DEF PoliciesFor
    <3> QED
      BY <2>1, <3>4
  <2> QED
    BY <2>2, <2>3, <2>5, <2>6
<1>2. CASE AddFails(Server(q), new) /\ pc[q] = "add" /\ Abort(q)
  <2>1. UNCHANGED rules
    BY <1>2 DEF AddFails
  <2> QED
    BY <1>2, <2>1, AbortKeepsMissing DEF InTx, Holding
<1> QED
  BY <1>1, <1>2 DEF AddNewPolicies

\* A commit: the rows that go are the ones without policies, and the rows that
\* come have had theirs handed to AddPolicies.
LEMMA CommitKeepsMissing ==
  ASSUME IInv, MissingRulesExplained, NEW q \in Requests, Commit(q)
  PROVE  MissingRulesExplained'
<1> USE DEF Commit, DeleteRows, Goto, enforcerVars
<1>1. ins[q] \subseteq Added
  BY DEF IInv, RequestInv, NewRows, Holding, Added
<1>2. Added' \subseteq Added
  BY DEF IInv, TypeOK, Added
<1>3. Rewriting \subseteq Rewriting' \cup view[q]
  <2> SUFFICES ASSUME NEW x \in Requests, pc[x] \in {"add", "commit"}, rq[x].cleared, x # q
               PROVE  /\ pc'[x] \in {"add", "commit"} /\ rq'[x].cleared
                      /\ view'[x] = view[x] \ view[q]
    BY DEF Rewriting
  <2> QED
    BY DEF IInv, TypeOK
<1> QED
  BY <1>1, <1>2, <1>3, MissingKept

\* Where rows only go and codes are only taken away, nothing is missed.
LEMMA CascadeKeepsMissing ==
  ASSUME IInv, MissingRulesExplained, NEW gone \in SUBSET Row, DeleteRows(gone, {}),
         UNCHANGED <<rules, missed, rq>>,
         \A r \in RoleIDs : role'[r] \in {role[r], NoRole},
         \A x \in Requests : pc'[x] = pc[x] \/ (pc[x] \notin InTx /\ pc'[x] \notin InTx)
  PROVE  MissingRulesExplained'
<1> USE DEF DeleteRows
<1>1. Added' = Added
  BY AddedUnchanged DEF InTx, Holding
<1>2. Rewriting \subseteq Rewriting' \cup gone
  <2> SUFFICES ASSUME NEW x \in Requests, pc[x] \in {"add", "commit"}, rq[x].cleared
               PROVE  pc'[x] = pc[x] /\ rq'[x] = rq[x] /\ view'[x] = view[x] \ gone
    BY DEF Rewriting
  <2> QED
    BY DEF InTx, Holding
<1>3. \A row \in role_permission \cup Added : row[1] \in RoleIDs
  <2>1. Added \subseteq Row
    BY DEF IInv, TypeOK, Request, Added, Row
  <2> QED
    BY <2>1 DEF IInv, TypeOK, Row
<1> QED
  BY <1>1, <1>2, <1>3, MissingKept

\* A new role has no rows.
LEMMA InsertRoleKeepsMissing ==
  ASSUME IInv, MissingRulesExplained, NEW q \in Requests, InsertRole(q)
  PROVE  MissingRulesExplained'
<1> USE DEF InsertRole, Goto, enforcerVars
<1>1. Added' = Added
  <2>1. \A x \in Requests : pc'[x] = "commit" <=> pc[x] = "commit"
    BY DEF IInv, TypeOK
  <2> QED
    BY <2>1, AddedUnchanged
<1>2. Rewriting' = Rewriting
  <2>1. \A x \in Requests : pc'[x] \in {"add", "commit"} <=> pc[x] \in {"add", "commit"}
    BY DEF IInv, TypeOK
  <2> QED
    BY <2>1, RewritingUnchanged
<1>3. \A row \in role_permission \cup Added : role[row[1]] # NoRole
  BY AddedPending DEF IInv, ReferencesResolve
<1>4. \A row \in role_permission \cup Added : row[1] \in RoleIDs
  <2>1. Added \subseteq Row
    BY DEF IInv, TypeOK, Request, Added, Row
  <2> QED
    BY <2>1 DEF IInv, TypeOK, Row
<1>5. \A row \in role_permission \cup Added : role'[row[1]] = role[row[1]]
  BY <1>3, <1>4 DEF IInv, TypeOK, FreshIDs
<1> QED
  BY <1>1, <1>2, <1>5, MissingKept

\* A crash rolls back all transactions of a server.
LEMMA CrashKeepsMissing ==
  ASSUME IInv, MissingRulesExplained, NEW s \in Servers, Crash(s)
  PROVE  MissingRulesExplained'
<1> DEFINE lost == {q \in Active : Server(q) = s}
<1> USE DEF Crash, StartEnforcer, dbVars
<1>1. pc' = [q \in Requests |-> IF q \in lost THEN "crashed" ELSE pc[q]]
  OBVIOUS
<1>2. view' = [q \in Requests |-> IF q \in lost THEN {} ELSE view[q]]
  OBVIOUS
<1>3. \A q \in lost : rq[q].cleared => PoliciesOf(view[q]) \subseteq rules' \cup missed'
  <2> DEFINE dropped == UNION {view[q] : q \in {x \in lost : rq[x].cleared}}
  <2>1. missed' = missed \cup (PoliciesOf(dropped) \ rules) /\ rules' = rules
    OBVIOUS
  <2>2. \A q \in lost : rq[q].cleared => view[q] \subseteq dropped
    OBVIOUS
  <2> HIDE DEF dropped, lost
  <2> QED
    BY <2>1, <2>2, PoliciesOfMonotone
<1>4. rules \cup missed \subseteq rules' \cup missed'
  OBVIOUS
<1> HIDE DEF lost
<1>5. Added' \subseteq Added
  BY <1>1 DEF Added
<1> SUFFICES ASSUME NEW row \in ((role_permission \ Rewriting) \cup Added)', NEW rule,
                    Backs(row, rule)'
             PROVE  rule \in rules' \cup missed'
  BY PolicyOfRow DEF MissingRulesExplained, PoliciesOf, Backs
<1>6. Backs(row, rule)
  BY DEF Backs
<1>7. CASE row \in (role_permission \ Rewriting) \cup Added
  <2>1. rule \in rules \cup missed
    BY <1>6, <1>7, PolicyOfRow DEF MissingRulesExplained
  <2> QED
    BY <1>4, <2>1
<1>8. CASE row \notin (role_permission \ Rewriting) \cup Added
  <2>1. row \in Rewriting /\ row \notin Rewriting'
    BY <1>5, <1>8
  <2>2. PICK x \in Requests : pc[x] \in {"add", "commit"} /\ rq[x].cleared /\ row \in view[x]
    BY <2>1 DEF Rewriting
  <2>3. x \in lost
    BY <1>1, <1>2, <2>1, <2>2 DEF Rewriting
  <2>4. rule \in PoliciesOf(view[x])
    BY <1>6, <2>2, PolicyOfRow
  <2> QED
    BY <1>3, <2>2, <2>3, <2>4
<1> QED
  BY <1>7, <1>8

LEMMA NextKeepsMissing == IInv /\ MissingRulesExplained /\ [Next]_vars => MissingRulesExplained'
<1> SUFFICES ASSUME IInv, MissingRulesExplained, [Next]_vars PROVE MissingRulesExplained'
  OBVIOUS
<1> USE DEF dbVars, enforcerVars, Goto
<1>1. ASSUME NEW q \in Requests, Start(q) PROVE MissingRulesExplained'
  <2>1. ASSUME NEW r \in RoleIDs, NEW P \in SUBSET PermissionIDs, NEW s \in Servers,
               AssignPermissionsToRole(q, r, P, s)
        PROVE  MissingRulesExplained'
    BY <2>1, EarlyStepKeepsMissing
    DEF AssignPermissionsToRole, Receive, ReadFails, IInv, TypeOK
  <2>2. ASSUME NEW c \in RoleCodes, NEW s \in Servers, Create(q, c, s)
        PROVE  MissingRulesExplained'
    BY <2>2, EarlyStepKeepsMissing DEF Create, Receive, ReadFails, IInv, TypeOK
  <2>3. ASSUME NEW r \in RoleIDs, NEW s \in Servers, Delete(q, r, s)
        PROVE  MissingRulesExplained'
    BY <2>3, EarlyStepKeepsMissing DEF Delete, Receive, ReadFails, IInv, TypeOK
  <2> QED
    BY <1>1, <2>1, <2>2, <2>3 DEF Start
<1>2. ASSUME NEW q \in Requests, ScanRows(q) \/ LockRows(q) \/ CollectPolicies(q) \/ DropGroups(q)
      PROVE  MissingRulesExplained'
  BY <1>2, EarlyStepKeepsMissing
  DEF ScanRows, LockRows, CollectPolicies, DropGroups, IInv, TypeOK
<1>3. ASSUME NEW q \in Requests, InsertRows(q) PROVE MissingRulesExplained'
  <2>1. CASE ins' = [ins EXCEPT ![q] = NewRows(q)] /\ Goto(q, "collect")
             /\ UNCHANGED <<dbVars, rq, view, excused, missed, enforcerVars>> /\ pc[q] = "insert"
    BY <2>1, EarlyStepKeepsMissing DEF IInv, TypeOK
  <2>2. CASE Abort(q) /\ UNCHANGED enforcerVars /\ pc[q] = "insert"
    BY <2>2, AbortKeepsMissing DEF InTx, Holding
  <2> QED
    BY <1>3, <2>1, <2>2 DEF InsertRows
<1>4. ASSUME NEW q \in Requests, Fails(q) PROVE MissingRulesExplained'
  BY <1>4, AbortKeepsMissing DEF Fails, InTx, Holding
<1>5. ASSUME NEW q \in Requests, DeleteRole(q) PROVE MissingRulesExplained'
  <2>1. RowsOf(rq[q].role) \in SUBSET Row
    BY DEF IInv, TypeOK, RowsOf
  <2>2. \A r \in RoleIDs : role'[r] \in {role[r], NoRole}
    BY <1>5 DEF DeleteRole, IInv, TypeOK
  <2>3. \A x \in Requests : pc'[x] = pc[x] \/ (pc[x] \notin InTx /\ pc'[x] \notin InTx)
    BY <1>5 DEF DeleteRole, IInv, TypeOK, InTx, Holding
  <2> QED
    BY <1>5, <2>1, <2>2, <2>3, CascadeKeepsMissing DEF DeleteRole
<1>6. ASSUME NEW p \in PermissionIDs, DeletePermission(p) PROVE MissingRulesExplained'
  <2>1. RoleIDs \X {p} \in SUBSET Row
    BY DEF Row
  <2> QED
    BY <1>6, <2>1, CascadeKeepsMissing DEF DeletePermission
<1>7. ASSUME NEW s \in Servers, Reload(s) PROVE MissingRulesExplained'
  <2>1. UNCHANGED <<rules, dbVars, pc, rq, view, missed>>
    BY <1>7 DEF Reload, ReadPolicy, ApplyPolicy
  <2> QED
    BY <2>1, MissingKept DEF Added, Rewriting
<1>8. CASE UNCHANGED vars
  BY <1>8, MissingKept DEF vars, Added, Rewriting
<1> QED
  BY <1>1, <1>2, <1>3, <1>4, <1>5, <1>6, <1>7, <1>8, RemoveKeepsMissing, AddKeepsMissing,
     CommitKeepsMissing, InsertRoleKeepsMissing, CrashKeepsMissing DEF Next, Step

LEMMA InitMissing == Init => MissingRulesExplained
BY DEF Init, MissingRulesExplained, EnforcerInit, Added, PoliciesOf

\* Every row of role_permission that no transaction is replacing has its policy in
\* casbin_rule, unless one of the named incidents (a rollback or a crash after
\* RemoveFilteredPolicy, an AddPolicies that answered false, an assignment or a
\* role of the same code that overlapped) has left it out.
THEOREM MissingExplained == Spec => []MissingRulesExplained
<1> QED
  BY InitMissing, NextKeepsMissing, InvariantHolds, PTL DEF Spec

-----------------------------------------------------------------------------
(* Requests one at a time, without failures and deletions.                 *)

\* What the policy of a role then is, is an invariant of the instance.
OneAtATime ==
    /\ MaxActive = 1 /\ MaxFaults = 0
    /\ IsFiniteSet(Requests)
    /\ "delete" \notin Operations /\ "deletePermission" \notin Operations

LEMMA NoFaults ==
  ASSUME OneAtATime, SerialInv
  PROVE  ~Fault
BY DEF OneAtATime, SerialInv, Fault

LEMMA NobodyActive ==
  ASSUME OneAtATime, NEW q \in Requests, NEW op, Receive(q, op)
  PROVE  /\ op \notin {"delete"} /\ pc[q] = "new"
         /\ \A x \in Requests : pc[x] \in Final \cup {"new"}
<1>1. Active \subseteq Requests /\ IsFiniteSet(Requests)
  BY DEF Active, OneAtATime
<1>2. IsFiniteSet(Active) /\ Cardinality(Active) \in Nat
  BY <1>1, FS_Subset, FS_CardinalityType
<1>3. Cardinality(Active) = 0
  BY <1>2 DEF Receive, OneAtATime
<1>4. Active = {}
  BY <1>2, <1>3, FS_EmptySet
<1> QED
  BY <1>4 DEF Active, Receive, OneAtATime

LEMMA OnlyOneActive ==
  ASSUME SerialInv, NEW q \in Requests, pc[q] \notin Final \cup {"new"},
         NEW x \in Requests, x # q
  PROVE  pc[x] \in Final \cup {"new"}
BY DEF SerialInv, Active

\* The role a request works on still has the code it read.
LEMMA RoleOfRequest ==
  ASSUME IInv, SerialInv, NEW q \in Requests, pc[q] \in InTx
  PROVE  /\ rq[q].role \in RoleIDs /\ rq[q].code \in RoleCodes
         /\ role[rq[q].role] = rq[q].code
         /\ \A r \in RoleIDs : role[r] = rq[q].code => r = rq[q].role
<1>1. rq[q] \in Request
  BY DEF IInv, TypeOK
<1>2. role[rq[q].role] = rq[q].code
  BY DEF IInv, RequestInv, SerialInv
<1> QED
  BY <1>1, <1>2, NoRoleAssumption DEF Request, IInv, RoleInv, RoleCodesUnique

\* A request arrives: it has not touched a policy.
LEMMA ArrivalKeepsSerial ==
  ASSUME IInv, SerialInv, NEW q \in Requests, NEW l \in {"scan", "insertRole", "error"}, Goto(q, l),
         \A x \in Requests : pc[x] \in Final \cup {"new"},
         UNCHANGED <<rules, role, retired, role_permission, view, faults>>
  PROVE  SerialInv'
<1>1. \A x \in Requests : pc'[x] = IF x = q THEN l ELSE pc[x]
  BY DEF Goto, IInv, TypeOK
<1>2. \A x \in Requests : pc'[x] \in {"scan", "insertRole"} \cup Final \cup {"new"}
  BY <1>1 DEF Final
<1>3. \A r \in RoleIDs : ~Rewritten(r) /\ ~Rewritten(r)'
  BY <1>2 DEF Rewritten, Final
<1>4. \A q1, q2 \in Active' : q1 = q2
  BY <1>1 DEF Active
<1>5. \A c : RulesOf(c)' = RulesOf(c)
  BY DEF RulesOf, PoliciesOfCode
<1>6. \A r : PoliciesOf(RowsOf(r))' = PoliciesOf(RowsOf(r))
  BY DEF PoliciesOf, RowsOf
<1> QED
  BY <1>2, <1>3, <1>4, <1>5, <1>6 DEF SerialInv, SerialRequest, SerialRole, Final, InTx, Holding

\* A request goes on that has not removed a policy yet.
LEMMA EarlyStepKeepsSerial ==
  ASSUME IInv, SerialInv, NEW q \in Requests, NEW l, Goto(q, l),
         pc[q] \in (InTx \ {"add", "commit"}) \cup {"insertRole"},
         l \in (InTx \ {"scan", "add", "commit"}) \cup Final,
         UNCHANGED <<rules, role, retired, role_permission, faults>>,
         \A x \in Requests : rq'[x].role = rq[x].role /\ (x # q => rq'[x] = rq[x] /\ view'[x] = view[x]),
         l \notin Final => view'[q] = RowsOf(rq[q].role),
         l = "remove" => rq'[q].found = rq'[q].perms
  PROVE  SerialInv'
<1>1. \A x \in Requests : pc'[x] = IF x = q THEN l ELSE pc[x]
  BY DEF Goto, IInv, TypeOK
<1>2. Active' \subseteq Active
  BY <1>1 DEF Active, Final, InTx, Holding
<1>3. \A r \in RoleIDs : Rewritten(r)' <=> Rewritten(r)
  BY <1>1 DEF Rewritten, Final, InTx, Holding
<1>4. \A c : RulesOf(c)' = RulesOf(c)
  BY DEF RulesOf, PoliciesOfCode
<1>5. \A r : RowsOf(r)' = RowsOf(r) /\ PoliciesOf(RowsOf(r))' = PoliciesOf(RowsOf(r))
  BY DEF PoliciesOf, RowsOf
<1>6. ASSUME NEW x \in Requests
      PROVE  SerialRequest(x)'
  <2>1. CASE x = q
    <3>1. view'[q] = RowsOf(rq[q].role) => view'[q] = RowsOf(rq[q].role)'
      BY DEF RowsOf
    <3> QED
      BY <1>1, <2>1, <3>1 DEF SerialRequest, Final, InTx, Holding
  <2>2. CASE x # q
    <3>1. pc'[x] = pc[x] /\ rq'[x] = rq[x] /\ view'[x] = view[x]
      BY <1>1, <2>2
    <3>2. SerialRequest(x)
      BY DEF SerialInv
    <3> QED
      BY <3>1, <3>2 DEF SerialRequest, RulesOf, PoliciesOfCode, PoliciesFor, RowsOf
  <2> QED
    BY <2>1, <2>2
<1>7. \A r \in RoleIDs : SerialRole(r)'
  BY <1>3, <1>4, <1>5 DEF SerialInv, SerialRole
<1> QED
  BY <1>2, <1>6, <1>7 DEF SerialInv

LEMMA RemoveKeepsSerial ==
  ASSUME OneAtATime, IInv, SerialInv, NEW q \in Requests, RemoveOldPolicies(q)
  PROVE  SerialInv'
<1> DEFINE c == rq[q].code
<1>1. pc[q] = "remove" /\ Goto(q, "add") /\ rules' = rules \ PoliciesOfCode(c)
      /\ rq' = [rq EXCEPT ![q].cleared = TRUE]
      /\ UNCHANGED <<role, retired, role_permission, view, faults>>
  BY NoFaults DEF RemoveOldPolicies, RemoveMatching, dbVars
<1>2. \A x \in Requests :
        /\ pc'[x] = IF x = q THEN "add" ELSE pc[x]
        /\ rq'[x].role = rq[x].role /\ rq'[x].code = rq[x].code
        /\ rq'[x].perms = rq[x].perms /\ rq'[x].found = rq[x].found
  BY <1>1 DEF Goto, IInv, TypeOK, Request
<1>3. \A x \in Requests : x # q => pc[x] \in Final \cup {"new"}
  BY <1>1, OnlyOneActive DEF Final
<1>4. role[rq[q].role] = c /\ \A r \in RoleIDs : role[r] = c => r = rq[q].role
  BY <1>1, RoleOfRequest DEF InTx, Holding
<1>5. Active' \subseteq Active
  BY <1>1, <1>2 DEF Active, Final
<1>6. \A r : RowsOf(r)' = RowsOf(r) /\ PoliciesOf(RowsOf(r))' = PoliciesOf(RowsOf(r))
  BY <1>1 DEF PoliciesOf, RowsOf
<1>7. ASSUME NEW x \in Requests PROVE SerialRequest(x)'
  <2>1. CASE x = q
    <3>1. view[q] = RowsOf(rq[q].role) /\ rq[q].found = rq[q].perms
      BY <1>1 DEF SerialInv, SerialRequest, InTx, Holding
    <3>2. view'[q] = RowsOf(rq[q].role)' /\ rq'[q].found = rq'[q].perms /\ RulesOf(rq[q].code)' = {}
      BY <1>1, <1>2, <3>1 DEF RulesOf, PoliciesOfCode, RowsOf
    <3> QED
      BY <1>2, <2>1, <3>2 DEF SerialRequest
  <2>2. CASE x # q
    BY <1>2, <1>3, <2>2 DEF SerialRequest, Final, InTx, Holding
  <2> QED
    BY <2>1, <2>2
<1>8. ASSUME NEW r \in RoleIDs, role[r] # NoRole, ~Rewritten(r)'
      PROVE  RulesOf(role[r])' \in {{}, PoliciesOf(RowsOf(r))'}
  <2>1. r # rq[q].role /\ role[r] # c
    BY <1>2, <1>4, <1>8 DEF Rewritten
  <2>2. ~Rewritten(r)
    BY <1>1, <1>2, <1>8 DEF Rewritten
  <2>3. RulesOf(role[r])' = RulesOf(role[r])
    BY <1>1, <2>1 DEF RulesOf, PoliciesOfCode
  <2> QED
    BY <1>6, <1>8, <2>2, <2>3 DEF SerialInv, SerialRole
<1>9. \A r \in RoleIDs : SerialRole(r)'
  BY <1>1, <1>8 DEF SerialRole
<1> QED
  BY <1>1, <1>5, <1>7, <1>9 DEF SerialInv

\* The policies of a set of permissions are filed under the role's code.
LEMMA PoliciesForCode ==
  ASSUME NEW c, NEW P
  PROVE  \A rule \in PoliciesFor(c, P) : rule[1] = c
BY DEF PoliciesFor

LEMMA AddKeepsSerial ==
  ASSUME OneAtATime, IInv, SerialInv, NEW q \in Requests, AddNewPolicies(q)
  PROVE  SerialInv'
<1> DEFINE c == rq[q].code
           new == PoliciesFor(c, rq[q].perms)
<1>1. pc[q] = "add" /\ rq[q].found = rq[q].perms /\ RulesOf(c) = {} /\ view[q] = RowsOf(rq[q].role)
  BY DEF AddNewPolicies, SerialInv, SerialRequest, InTx, Holding
<1>2. /\ UNCHANGED <<role, retired, role_permission, rq, faults>>
      /\ \/ Goto(q, "commit") /\ (rules' = rules \/ rules' = rules \cup new) /\ view' = view
         \/ Goto(q, "error") /\ rules' = rules /\ view' = [view EXCEPT ![q] = {}]
  BY <1>1, NoFaults DEF AddNewPolicies, AddStored, AddRefused, AddFails, Abort, dbVars
<1>3. PICK l \in {"commit", "error"} : Goto(q, l) /\ (l = "commit" => view' = view)
  BY <1>2
<1>4. \A x \in Requests : pc'[x] = IF x = q THEN l ELSE pc[x]
  BY <1>3 DEF Goto, IInv, TypeOK
<1>5. \A x \in Requests : x # q => pc[x] \in Final \cup {"new"}
  BY <1>1, OnlyOneActive DEF Final
<1>6. rq[q].role \in RoleIDs /\ c \in RoleCodes /\ role[rq[q].role] = c
      /\ \A r \in RoleIDs : role[r] = c => r = rq[q].role
  BY <1>1, RoleOfRequest DEF InTx, Holding
<1>7. \A rule \in new : rule[1] = c
  BY PoliciesForCode
<1>8. new \subseteq PoliciesOfCode(c)
  BY <1>6, <1>7, PoliciesTyped DEF PoliciesOfCode, IInv, TypeOK, Request
<1> HIDE DEF new
<1>9. Active' \subseteq Active
  BY <1>1, <1>4 DEF Active, Final
<1>10. \A r : RowsOf(r)' = RowsOf(r) /\ PoliciesOf(RowsOf(r))' = PoliciesOf(RowsOf(r))
  BY <1>2 DEF PoliciesOf, RowsOf
<1>11. RulesOf(c)' \in {{}, new} /\ (l = "error" => RulesOf(c)' = {})
  <2>1. RulesOf(c)' = rules' \cap PoliciesOfCode(c)
    BY <1>2 DEF RulesOf, PoliciesOfCode
  <2>2. rules' = rules \/ (l = "commit" /\ rules' = rules \cup new)
    BY <1>1, <1>2, <1>3, <1>4 DEF Goto, IInv, TypeOK
  <2> QED
    BY <1>1, <1>8, <2>1, <2>2 DEF RulesOf
<1>12. \A rule \in rules' : \E r \in RoleIDs : role'[r] = rule[1]
  BY <1>2, <1>6, <1>7 DEF SerialInv
<1>13. ASSUME NEW x \in Requests PROVE SerialRequest(x)'
  <2>1. CASE x = q /\ l = "commit"
    <3>1. view'[q] = RowsOf(rq[q].role)' /\ rq'[q].found = rq'[q].perms
      BY <1>1, <1>2, <1>3, <2>1 DEF RowsOf
    <3>2. new = PoliciesFor(rq[q].code, rq[q].perms)'
      BY <1>2 DEF new, PoliciesFor
    <3>3. RulesOf(rq[q].code)' \in {{}, PoliciesFor(rq[q].code, rq[q].perms)'}
      BY <1>2, <1>11, <3>2 DEF RulesOf, PoliciesOfCode
    <3> QED
      BY <1>4, <2>1, <3>1, <3>3 DEF SerialRequest
  <2>2. CASE x # q \/ l = "error"
    BY <1>3, <1>4, <1>5, <2>2 DEF SerialRequest, Final, InTx, Holding
  <2> QED
    BY <1>3, <2>1, <2>2
<1>14. ASSUME NEW r \in RoleIDs, role[r] # NoRole, ~Rewritten(r)'
       PROVE  RulesOf(role[r])' \in {{}, PoliciesOf(RowsOf(r))'}
  <2>1. CASE r = rq[q].role
    <3>1. l = "error"
      BY <1>2, <1>3, <1>4, <1>14, <2>1 DEF Rewritten
    <3>2. RulesOf(role[r])' = RulesOf(c)'
      BY <1>2, <1>6, <2>1 DEF RulesOf, PoliciesOfCode
    <3> QED
      BY <1>11, <3>1, <3>2
  <2>2. CASE r # rq[q].role
    <3>1. ~Rewritten(r)
      BY <1>2, <1>4, <1>5, <1>14, <2>2 DEF Rewritten, Final
    <3>2. RulesOf(role[r])' = RulesOf(role[r])
      BY <1>2, <1>6, <1>7, <2>2 DEF RulesOf, PoliciesOfCode
    <3> QED
      BY <1>10, <1>14, <3>1, <3>2 DEF SerialInv, SerialRole
  <2> QED
    BY <2>1, <2>2
<1>15. \A r \in RoleIDs : SerialRole(r)'
  BY <1>2, <1>14 DEF SerialRole
<1> QED
  BY <1>2, <1>9, <1>12, <1>13, <1>15 DEF SerialInv

\* The rows of the role become the inserted ones, whose policies are those that
\* were handed to AddPolicies.
LEMMA CommitKeepsSerial ==
  ASSUME OneAtATime, IInv, SerialInv, NEW q \in Requests, Commit(q)
  PROVE  SerialInv'
<1> DEFINE c == rq[q].code
           own == rq[q].role
           new == PoliciesFor(c, rq[q].perms)
<1>1. pc[q] = "commit" /\ RulesOf(c) \in {{}, new} /\ view[q] = RowsOf(own) /\ ins[q] = NewRows(q)
  BY DEF Commit, IInv, RequestInv, SerialInv, SerialRequest, InTx, Holding
<1>2. /\ UNCHANGED <<rules, role, retired, rq, faults>> /\ Goto(q, "ok")
      /\ role_permission' = (role_permission \ RowsOf(own)) \cup NewRows(q)
  BY <1>1 DEF Commit, DeleteRows, enforcerVars
<1>3. \A x \in Requests : pc'[x] = IF x = q THEN "ok" ELSE pc[x]
  BY <1>2 DEF Goto, IInv, TypeOK
<1>4. \A x \in Requests : x # q => pc[x] \in Final \cup {"new"}
  BY <1>1, OnlyOneActive DEF Final
<1>5. own \in RoleIDs /\ role[own] = c /\ \A r \in RoleIDs : role[r] = c => r = own
  BY <1>1, RoleOfRequest DEF InTx, Holding
<1>6. RowsOf(own)' = NewRows(q)
  BY <1>2 DEF RowsOf, NewRows
<1>7. \A r : r # own => RowsOf(r)' = RowsOf(r)
  BY <1>2 DEF RowsOf, NewRows
<1>8. PoliciesOf(RowsOf(own))' = new
  <2>1. c # NoRole
    BY <1>1, RoleOfRequest, NoRoleAssumption DEF InTx, Holding
  <2>2. PoliciesOf(RowsOf(own))' = PoliciesOf(NewRows(q))
    BY <1>2, <1>6 DEF PoliciesOf
  <2>3. ASSUME NEW rule PROVE rule \in PoliciesOf(NewRows(q)) <=> rule \in new
    <3>1. rule \in new <=> \E p \in rq[q].perms :
                              ResourceOf[p] # NoResource /\ rule = <<c, ResourceOf[p]>>
      BY DEF PoliciesFor
    <3>2. \A row : row \in NewRows(q) <=> \E p \in rq[q].perms : row = <<own, p>>
      BY DEF NewRows
    <3>3. \A p : Backs(<<own, p>>, rule) <=> ResourceOf[p] # NoResource /\ rule = <<c, ResourceOf[p]>>
      BY <1>5, <2>1 DEF Backs
    <3>4. (\E row \in NewRows(q) : Backs(row, rule)) <=> \E p \in rq[q].perms : Backs(<<own, p>>, rule)
      BY ONLY <3>2, Zenon
    <3>5. rule \in PoliciesOf(NewRows(q)) <=> \E row \in NewRows(q) : Backs(row, rule)
      BY PolicyOfRow
    <3> HIDE DEF new
    <3> QED
      BY <3>1, <3>3, <3>4, <3>5
  <2> HIDE DEF new
  <2>4. PoliciesOf(NewRows(q)) = new
    BY <2>3
  <2> QED
    BY <2>2, <2>4
<1>9. \A r : r # own => PoliciesOf(RowsOf(r))' = PoliciesOf(RowsOf(r))
  BY <1>2, <1>7 DEF PoliciesOf
<1>10. Active' \subseteq Active
  BY <1>1, <1>3 DEF Active, Final
<1>11. \A x \in Requests : SerialRequest(x)'
  BY <1>3, <1>4 DEF SerialRequest, Final, InTx, Holding
<1>12. \A r : RulesOf(role[r])' = RulesOf(role[r])
  BY <1>2 DEF RulesOf, PoliciesOfCode
<1> HIDE DEF new
<1>13. ASSUME NEW r \in RoleIDs, role[r] # NoRole, ~Rewritten(r)'
       PROVE  RulesOf(role[r])' \in {{}, PoliciesOf(RowsOf(r))'}
  <2>1. CASE r = own
    <3>1. RulesOf(role[r])' = RulesOf(c)
      BY <1>5, <1>12, <2>1
    <3>2. PoliciesOf(RowsOf(r))' = new
      BY <1>2, <1>8, <2>1
    <3> QED
      BY <1>1, <3>1, <3>2
  <2>2. CASE r # own
    <3>1. ~Rewritten(r)
      BY <1>4, <2>2 DEF Rewritten, Final
    <3> QED
      BY <1>9, <1>12, <1>13, <2>2, <3>1 DEF SerialInv, SerialRole
  <2> QED
    BY <2>1, <2>2
<1>14. \A r \in RoleIDs : SerialRole(r)'
  BY <1>2, <1>13 DEF SerialRole
<1> QED
  BY <1>2, <1>10, <1>11, <1>14 DEF SerialInv

\* A new role has no rows, and no policy is filed under its code.
LEMMA InsertRoleKeepsSerial ==
  ASSUME OneAtATime, IInv, SerialInv, NEW q \in Requests, InsertRole(q)
  PROVE  SerialInv'
<1> DEFINE c == rq[q].code
<1>1. pc[q] = "insertRole" /\ UNCHANGED <<rules, retired, role_permission, rq, view, faults>>
  BY DEF InsertRole, enforcerVars
<1>2. CASE CodeTaken(c)
  <2>1. Goto(q, "error") /\ UNCHANGED role
    BY <1>2 DEF InsertRole
  <2> QED
    BY <1>1, <2>1, EarlyStepKeepsSerial DEF Final
<1>3. CASE ~CodeTaken(c)
  <2>1. PICK own \in FreshIDs : role' = [role EXCEPT ![own] = c] /\ Goto(q, "ok")
    BY <1>3 DEF InsertRole
  <2>2. own \in RoleIDs /\ role[own] = NoRole /\ c \in RoleCodes
        /\ \A r \in RoleIDs : role'[r] = (IF r = own THEN c ELSE role[r]) /\ role[r] # c
    BY <1>3, <2>1 DEF FreshIDs, CodeTaken, IInv, TypeOK, Request
  <2>3. \A x \in Requests : pc'[x] = IF x = q THEN "ok" ELSE pc[x]
    BY <2>1 DEF Goto, IInv, TypeOK
  <2>4. \A x \in Requests : x # q => pc[x] \in Final \cup {"new"}
    BY <1>1, OnlyOneActive DEF Final
  <2>5. \A r : ~Rewritten(r)
    BY <1>1, <2>4 DEF Rewritten, Final
  <2>6. Active' \subseteq Active
    BY <1>1, <2>3 DEF Active, Final
  <2>7. \A x \in Requests : SerialRequest(x)'
    BY <2>3, <2>4 DEF SerialRequest, Final, InTx, Holding
  <2>8. ASSUME NEW rule \in rules PROVE rule[1] # c /\ \E r \in RoleIDs : role'[r] = rule[1]
    <3>1. PICK r \in RoleIDs : role[r] = rule[1]
      BY DEF SerialInv
    <3>2. rule[1] \in RoleCodes
      BY DEF IInv, TypeOK, EnforcerTypeOK, Policy
    <3> QED
      BY <2>2, <3>1, <3>2, NoRoleAssumption
  <2>9. ASSUME NEW r \in RoleIDs, role'[r] # NoRole
        PROVE  RulesOf(role[r])' \in {{}, PoliciesOf(RowsOf(r))'}
    <3>1. CASE r = own
      BY <1>1, <2>2, <2>8, <3>1 DEF RulesOf, PoliciesOfCode
    <3>2. CASE r # own
      <4>1. RulesOf(role[r])' = RulesOf(role[r])
        BY <1>1, <2>2, <3>2 DEF RulesOf, PoliciesOfCode
      <4>2. PoliciesOf(RowsOf(r))' = PoliciesOf(RowsOf(r))
        <5>1. RowsOf(r)' = RowsOf(r)
          BY <1>1 DEF RowsOf
        <5>2. \A row \in RowsOf(r) : role'[row[1]] = role[row[1]]
          BY <2>2, <3>2 DEF RowsOf
        <5> QED
          BY <5>1, <5>2 DEF PoliciesOf
      <4>3. role[r] # NoRole
        BY <2>2, <2>9, <3>2
      <4> QED
        BY <2>5, <4>1, <4>2, <4>3 DEF SerialInv, SerialRole
    <3> QED
      BY <3>1, <3>2
  <2>10. \A r \in RoleIDs : SerialRole(r)'
    BY <2>9 DEF SerialRole
  <2> QED
    BY <1>1, <2>6, <2>7, <2>8, <2>10 DEF SerialInv
<1> QED
  BY <1>2, <1>3

\* Nothing fails: nobody is there to deadlock with, and a commit has all that
\* its transaction read.
LEMMA NothingFails ==
  ASSUME OneAtATime, IInv, SerialInv, NEW q \in Requests
  PROVE  ~Fails(q)
<1> SUFFICES ASSUME Fails(q) PROVE FALSE
  OBVIOUS
<1>1. pc[q] \notin Final \cup {"new", "deleteRole"}
  BY DEF Fails, SerialInv, SerialRequest, Final
<1>2. ~Deadlocked(q)
  BY <1>1, OnlyOneActive DEF Deadlocked, Final
<1>3. ~DeadlockedByPermission(q)
  BY DEF DeadlockedByPermission, OneAtATime
<1>4. pc[q] = "commit" => rq[q].found = rq[q].perms
  BY DEF SerialInv, SerialRequest
<1> QED
  BY <1>2, <1>3, <1>4, NoFaults DEF Fails

LEMMA StartKeepsSerial ==
  ASSUME OneAtATime, IInv, SerialInv, NEW q \in Requests, Start(q)
  PROVE  SerialInv'
<1> USE DEF dbVars, enforcerVars
<1>1. PICK s \in Servers :
        \/ \E r \in RoleIDs, P \in SUBSET PermissionIDs : AssignPermissionsToRole(q, r, P, s)
        \/ \E c \in RoleCodes : Create(q, c, s)
        \/ \E r \in RoleIDs : Delete(q, r, s)
  BY DEF Start
<1>2. ASSUME NEW r \in RoleIDs, NEW P \in SUBSET PermissionIDs, AssignPermissionsToRole(q, r, P, s)
      PROVE  SerialInv'
  <2>1. \A x \in Requests : pc[x] \in Final \cup {"new"}
    BY <1>2, NobodyActive DEF AssignPermissionsToRole
  <2>2. PICK l \in {"scan", "error"} : Goto(q, l)
    BY <1>2 DEF AssignPermissionsToRole, ReadFails
  <2>3. UNCHANGED <<rules, role, retired, role_permission, view, faults>>
    BY <1>2, NoFaults DEF AssignPermissionsToRole, ReadFails
  <2> QED
    BY <2>1, <2>2, <2>3, ArrivalKeepsSerial
<1>3. ASSUME NEW c \in RoleCodes, Create(q, c, s)
      PROVE  SerialInv'
  <2>1. \A x \in Requests : pc[x] \in Final \cup {"new"}
    BY <1>3, NobodyActive DEF Create
  <2>2. PICK l \in {"insertRole", "error"} : Goto(q, l)
    BY <1>3 DEF Create, ReadFails
  <2>3. UNCHANGED <<rules, role, retired, role_permission, view, faults>>
    BY <1>3, NoFaults DEF Create, ReadFails
  <2> QED
    BY <2>1, <2>2, <2>3, ArrivalKeepsSerial
<1>4. \A r \in RoleIDs : ~Delete(q, r, s)
  BY DEF Delete, Receive, OneAtATime
<1> QED
  BY <1>1, <1>2, <1>3, <1>4

LEMMA StepKeepsSerial ==
  ASSUME OneAtATime, IInv, SerialInv, NEW q \in Requests, Step(q)
  PROVE  SerialInv'
<1> USE DEF dbVars, enforcerVars
<1>1. CASE ScanRows(q)
  <2>1. view'[q] = RowsOf(rq[q].role) /\ \A x \in Requests \ {q} : view'[x] = view[x]
    BY <1>1 DEF ScanRows, IInv, TypeOK
  <2> QED
    BY <1>1, <2>1, EarlyStepKeepsSerial DEF ScanRows, InTx, Holding, Final
<1>2. CASE LockRows(q)
  <2>1. view[q] = RowsOf(rq[q].role)
    BY <1>2 DEF LockRows, SerialInv, SerialRequest, InTx
  <2> QED
    BY <1>2, <2>1, EarlyStepKeepsSerial DEF LockRows, InTx, Holding, Final
<1>3. CASE InsertRows(q)
  <2>1. pc[q] = "insert" /\ view[q] = RowsOf(rq[q].role)
    BY <1>3 DEF InsertRows, SerialInv, SerialRequest, InTx, Holding
  <2>2. CASE Goto(q, "collect") /\ UNCHANGED <<rq, view>>
    BY <1>3, <2>1, <2>2, EarlyStepKeepsSerial DEF InsertRows, Abort, InTx, Holding, Final
  <2>3. CASE Abort(q)
    <3>1. \A x \in Requests \ {q} : view'[x] = view[x]
      BY <2>3 DEF Abort, IInv, TypeOK
    <3> QED
      BY <1>3, <2>1, <2>3, <3>1, EarlyStepKeepsSerial DEF InsertRows, Abort, InTx, Holding, Final
  <2> QED
    BY <1>3, <2>2, <2>3 DEF InsertRows
<1>4. CASE CollectPolicies(q)
  <2>1. pc[q] = "collect" /\ view[q] = RowsOf(rq[q].role)
    BY <1>4 DEF CollectPolicies, SerialInv, SerialRequest, InTx, Holding
  <2>2. rq' = [rq EXCEPT ![q].found = rq[q].perms] /\ Goto(q, "remove")
        /\ UNCHANGED <<rules, role, retired, role_permission, view, faults>>
    BY <1>4, NoFaults DEF CollectPolicies
  <2>3. /\ \A x \in Requests : rq'[x].role = rq[x].role /\ (x # q => rq'[x] = rq[x])
        /\ rq'[q].found = rq'[q].perms
    BY <2>2 DEF IInv, TypeOK, Request
  <2> QED
    BY <2>1, <2>2, <2>3, EarlyStepKeepsSerial DEF InTx, Holding, Final
<1>5. ~DeleteRole(q) /\ ~DropGroups(q)
  BY DEF DeleteRole, DropGroups, SerialInv, SerialRequest
<1> QED
  BY <1>1, <1>2, <1>3, <1>4, <1>5, RemoveKeepsSerial, AddKeepsSerial, CommitKeepsSerial,
     InsertRoleKeepsSerial, NothingFails DEF Step

LEMMA NextKeepsSerial ==
  ASSUME OneAtATime, IInv, SerialInv, [Next]_vars
  PROVE  SerialInv'
<1>1. ASSUME NEW q \in Requests, Start(q) \/ Step(q) PROVE SerialInv'
  BY <1>1, StartKeepsSerial, StepKeepsSerial
<1>2. \A p \in PermissionIDs : ~DeletePermission(p)
  BY DEF DeletePermission, OneAtATime
<1>3. \A s \in Servers : ~Crash(s)
  BY NoFaults DEF Crash
<1>4. ASSUME UNCHANGED <<rules, role, retired, role_permission, pc, rq, view, faults>>
      PROVE  SerialInv'
  BY <1>4 DEF SerialInv, SerialRequest, SerialRole, Rewritten, RulesOf, PoliciesOfCode,
              PoliciesFor, PoliciesOf, RowsOf, Active
<1>5. \A s \in Servers : Reload(s) =>
        UNCHANGED <<rules, role, retired, role_permission, pc, rq, view, faults>>
  BY DEF Reload, ReadPolicy, ApplyPolicy, dbVars
<1>6. UNCHANGED vars => UNCHANGED <<rules, role, retired, role_permission, pc, rq, view, faults>>
  BY DEF vars
<1> QED
  BY <1>1, <1>2, <1>3, <1>4, <1>5, <1>6 DEF Next

LEMMA InitSerial == Init => SerialInv
<1> SUFFICES ASSUME Init PROVE SerialInv
  OBVIOUS
<1>1. rules = PoliciesOf(role_permission)
  BY DEF Init, EnforcerInit
<1>2. \A q \in Requests : pc[q] = "new"
  BY DEF Init
<1>3. \A rule \in rules : \E r \in RoleIDs : role[r] = rule[1]
  BY <1>1 DEF Init, PoliciesOf, Row
<1>4. ASSUME NEW r \in RoleIDs, role[r] # NoRole
      PROVE  RulesOf(role[r]) = PoliciesOf(RowsOf(r))
  <2>1. \A row \in role_permission : row[1] \in RoleIDs /\ role[row[1]] # NoRole
    BY DEF Init, Row
  <2>2. \A row \in role_permission : role[row[1]] = role[r] => row \in RowsOf(r)
    BY <1>4, <2>1 DEF Init, RowsOf
  <2>3. PoliciesOf(RowsOf(r)) \subseteq Policy
    BY InitInv, PoliciesTyped DEF IInv, TypeOK, RowsOf
  <2> QED
    BY <1>1, <2>2, <2>3 DEF RulesOf, PoliciesOfCode, PoliciesOf, RowsOf
<1> QED
  BY <1>2, <1>3, <1>4 DEF Init, SerialInv, SerialRequest, SerialRole, Active, InTx, Holding

\* When requests of AssignPermissionsToRole and Create come one at a time and no
\* call fails, a role that no request works on has the policies of all its rows
\* or none, for any number of servers, roles and requests and whatever reloads
\* run into the calls (syncRolePermissionsToCasbin).
THEOREM OneAtATimeAllOrNone ==
  ASSUME OneAtATime
  PROVE  Spec => []AllOrNoPolicies
<1>1. IInv /\ SerialInv /\ [Next]_vars => SerialInv'
  BY NextKeepsSerial
<1>2. SerialInv => AllOrNoPolicies
  <2> SUFFICES ASSUME SerialInv, Active = {}, NEW r \in RoleIDs, role[r] # NoRole
               PROVE  RulesOf(role[r]) \in {{}, PoliciesOf(RowsOf(r))}
    BY DEF AllOrNoPolicies, RulesOf
  <2>1. ~Rewritten(r)
    BY DEF Rewritten, Active, Final
  <2> QED
    BY <2>1 DEF SerialInv, SerialRole
<1> QED
  BY <1>1, <1>2, InitSerial, InvariantHolds, PTL DEF Spec
=============================================================================
