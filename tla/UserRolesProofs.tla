-------------------------- MODULE UserRolesProofs --------------------------
(***************************************************************************)
(* Proofs about UserRoles, for any number of users, roles, servers,         *)
(* requests and faults.                                                    *)
(*                                                                         *)
(* The argument.  Of the rules of a user each is excused, or owed by a        *)
(* request that is in progress, or as the rows have it (RulesInv).  To keep   *)
(* that, a request must know what its earlier steps have left (RequestAt),    *)
(* which only holds of the one request about a user: a second one excuses     *)
(* whatever is left of that user (Overlap).                                *)
(***************************************************************************)
EXTENDS UserRoles, TLAPS

Labels == Final \cup {"new", "readOld", "deleteRows", "insertRows", "dropOld", "addNew",
              "removeRow", "dropRule", "insertUser", "addDefault", "deleteUser", "dropDefault"}

\* Rows and rules, one at a time.
Has(u, r) == r \in roles /\ <<u, r>> \in user_role
HasCode(u, c) == \E r \in RoleIDs : Has(u, r) /\ CodeOf[r] = c
Fits(u, c) ==
    /\ <<u, c>> \in rules => HasCode(u, c) \/ (u \in users /\ c = RoleUser)
    /\ HasCode(u, c) => <<u, c>> \in rules

\* q has still to see to the rule for c.
Owed(q, c) ==
    \/ pc[q] \in {"insertRows", "dropRule"} /\ c \in rq[q].old
    \/ pc[q] \in {"dropOld", "addNew"} /\ c \in rq[q].old
    \/ pc[q] \in {"dropOld", "addNew"} /\ \E r \in rq[q].todo : CodeOf[r] = c
    \/ pc[q] = "dropDefault" /\ c = RoleUser

InProgress(q) == pc[q] \in Labels \ (Final \cup {"new"})

RulesAt(u) ==
    \A c \in RoleCodes :
        \/ <<u, c>> \in excused
        \/ \E q \in Requests : InProgress(q) /\ rq[q].user = u /\ Owed(q, c)
        \/ Fits(u, c)

RulesInv == \A u \in UserIDs : RulesAt(u)

\* What the earlier steps of q have left of rows, rules and arguments.
RequestAt(q) ==
    LET u == rq[q].user
        Free(r) == <<u, CodeOf[r]>> \in excused
    IN  InProgress(q) =>
            /\ u \in users \cup retired
            /\ pc[q] \in {"readOld", "deleteRows", "insertRows"} => rq[q].todo = rq[q].asked
            /\ pc[q] = "deleteRows" =>
                  \A r \in RoleIDs : Has(u, r) => CodeOf[r] \in rq[q].old \/ Free(r)
            /\ pc[q] = "insertRows" => \A r \in RoleIDs : Has(u, r) => Free(r)
            /\ pc[q] = "dropOld" => \A r \in RoleIDs : Has(u, r) => r \in rq[q].todo \/ Free(r)
            /\ pc[q] \in {"dropOld", "addNew"} => \A r \in rq[q].todo : Has(u, r) \/ Free(r)
            /\ pc[q] = "addNew" => rq[q].old = {}
            /\ pc[q] \in {"removeRow", "dropRule"} =>
                  \E r \in RoleIDs : rq[q].asked = {r} /\ rq[q].old = {CodeOf[r]}
            /\ pc[q] = "dropRule" => \A r \in rq[q].asked : Has(u, r) => Free(r)
            /\ pc[q] = "addDefault" => u \in users \/ <<u, RoleUser>> \in excused
            /\ pc[q] = "dropDefault" => u \in retired

RequestInv == \A q \in Requests : RequestAt(q)

Overlap ==
    \A x, y \in Requests :
        x # y /\ InProgress(x) /\ InProgress(y) /\ rq[x].user = rq[y].user =>
            \A c \in RoleCodes : <<rq[x].user, c>> \in excused

RetiredInv == users \cap retired = {}

IInv ==
    TypeOK /\ ReferencesResolve /\ RetiredInv /\ Overlap /\ RequestInv /\ RulesInv

-----------------------------------------------------------------------------
(* Facts about the definitions of the model.                               *)

LEMMA ActiveFacts ==
    ASSUME TypeOK, NEW q \in Requests
    PROVE  q \in Active <=> InProgress(q)
    BY DEF TypeOK, Active, InProgress, Labels

LEMMA HasCodeFacts ==
    ASSUME TypeOK, NEW u, NEW c
    PROVE  c \in Codes(RolesOf(u)) <=> HasCode(u, c)
    BY DEF TypeOK, Codes, RolesOf, HasCode, Has

LEMMA GroupsFacts ==
    ASSUME TypeOK, NEW u, NEW c
    PROVE  <<u, c>> \in GroupsOf(u) <=> HasCode(u, c) \/ (u \in users /\ c = RoleUser)
    BY HasCodeFacts DEF GroupsOf

LEMMA UnfinishedFacts ==
    ASSUME NEW q, NEW u, NEW c
    PROVE  <<u, c>> \in Unfinished(q) <=> u = rq[q].user /\ Owed(q, c)
    BY DEF Unfinished, User, Owed, Codes

LEMMA CodesTyped ==
    ASSUME NEW R \in SUBSET RoleIDs
    PROVE  Codes(R) \in SUBSET RoleCodes
    BY CodeOfAssumption DEF Codes

LEMMA UnfinishedTyped ==
    ASSUME TypeOK, NEW q \in Requests
    PROVE  Unfinished(q) \in SUBSET Grouping
    <1>1. rq[q] \in Request
        BY DEF TypeOK
    <1>2. Codes(rq[q].todo) \in SUBSET RoleCodes
        BY <1>1, CodesTyped DEF Request
    <1> QED BY <1>1, <1>2, RoleUserAssumption DEF Unfinished, User, Grouping, Request

\* What a call of the enforcer does to the table, and that it keeps the types.
LEMMA AddStoredFacts ==
    ASSUME EnforcerTypeOK, NEW s \in Servers, NEW G \in SUBSET Grouping, AddStored(s, G)
    PROVE  EnforcerTypeOK' /\ rules' = rules \cup G
    BY DEF EnforcerTypeOK, AddStored

LEMMA RemoveFacts ==
    ASSUME EnforcerTypeOK, NEW s \in Servers, NEW G \in SUBSET Grouping, RemoveMatching(s, G)
    PROVE  EnforcerTypeOK' /\ rules' = rules \ G
    BY DEF EnforcerTypeOK, RemoveMatching

LEMMA UnchangedFacts ==
    ASSUME EnforcerTypeOK, UNCHANGED <<rules, mem, loading, snap>>
    PROVE  EnforcerTypeOK' /\ rules' = rules
    BY DEF EnforcerTypeOK

LEMMA FaultFacts ==
    ASSUME TypeOK, Fault \/ UNCHANGED faults
    PROVE  faults' \in Nat
    BY DEF TypeOK, Fault

-----------------------------------------------------------------------------
(* What a step leaves of the others.                                       *)

\* A request that does not move, when what it rests on stays or is excused.
LEMMA RequestStays ==
    ASSUME IInv, NEW x \in Requests, pc'[x] = pc[x], rq'[x] = rq[x],
           excused \subseteq excused', users \cup retired \subseteq users' \cup retired',
           retired \subseteq retired',
           \A r \in RoleIDs : (Has(rq[x].user, r)' <=> Has(rq[x].user, r))
                              \/ <<rq[x].user, CodeOf[r]>> \in excused',
           rq[x].user \in users => rq[x].user \in users' \/ <<rq[x].user, RoleUser>> \in excused'
    PROVE  RequestAt(x)'
    <1>1. RequestAt(x)
        BY DEF IInv, RequestInv
    <1>2. rq[x].todo \subseteq RoleIDs /\ rq[x].asked \subseteq RoleIDs
        BY DEF IInv, TypeOK, Request
    <1> DEFINE u == rq[x].user
    <1>3. InProgress(x)' <=> InProgress(x)
        BY DEF InProgress
    <1> SUFFICES ASSUME InProgress(x) PROVE RequestAt(x)'
        BY <1>3 DEF RequestAt
    <1>4. /\ u \in users' \cup retired'
          /\ pc[x] \in {"readOld", "deleteRows", "insertRows"} => rq[x].todo = rq[x].asked
          /\ pc[x] = "addNew" => rq[x].old = {}
          /\ pc[x] \in {"removeRow", "dropRule"} =>
                \E r \in RoleIDs : rq[x].asked = {r} /\ rq[x].old = {CodeOf[r]}
          /\ pc[x] = "addDefault" => u \in users' \/ <<u, RoleUser>> \in excused'
          /\ pc[x] = "dropDefault" => u \in retired'
        BY <1>1 DEF RequestAt
    <1>5. pc[x] = "deleteRows" =>
              \A r \in RoleIDs : Has(u, r)' => CodeOf[r] \in rq[x].old \/ <<u, CodeOf[r]>> \in excused'
        BY <1>1 DEF RequestAt
    <1>6. pc[x] = "insertRows" => \A r \in RoleIDs : Has(u, r)' => <<u, CodeOf[r]>> \in excused'
        BY <1>1 DEF RequestAt
    <1>7. pc[x] = "dropOld" =>
              \A r \in RoleIDs : Has(u, r)' => r \in rq[x].todo \/ <<u, CodeOf[r]>> \in excused'
        BY <1>1 DEF RequestAt
    <1>8. pc[x] \in {"dropOld", "addNew"} =>
              \A r \in rq[x].todo : Has(u, r)' \/ <<u, CodeOf[r]>> \in excused'
        BY <1>1, <1>2 DEF RequestAt
    <1>9. pc[x] = "dropRule" =>
              \A r \in rq[x].asked : Has(u, r)' => <<u, CodeOf[r]>> \in excused'
        BY <1>1, <1>2 DEF RequestAt
    <1>10. \A r : Has(rq[x].user, r)' <=> Has(u, r)'
        OBVIOUS
    <1> QED BY <1>4, <1>5, <1>6, <1>7, <1>8, <1>9 DEF RequestAt, Has

\* A user whose rows and rules stay, or are excused.
LEMMA RulesStay ==
    ASSUME IInv, NEW v \in UserIDs, excused \subseteq excused',
           \A x \in Requests, c \in RoleCodes :
               InProgress(x) /\ rq[x].user = v /\ Owed(x, c) =>
                   \/ <<v, c>> \in excused'
                   \/ pc'[x] = pc[x] /\ rq'[x] = rq[x],
           \A c \in RoleCodes :
               \/ <<v, c>> \in excused'
               \/ /\ <<v, c>> \in rules' <=> <<v, c>> \in rules
                  /\ HasCode(v, c)' <=> HasCode(v, c)
                  /\ v \in users /\ c = RoleUser => v \in users'
    PROVE  RulesAt(v)'
    <1> SUFFICES ASSUME NEW c \in RoleCodes, <<v, c>> \notin excused'
                 PROVE  \/ \E q \in Requests : (InProgress(q) /\ rq[q].user = v /\ Owed(q, c))'
                        \/ Fits(v, c)'
        BY DEF RulesAt
    <1>1. CASE \E q \in Requests : InProgress(q) /\ rq[q].user = v /\ Owed(q, c)
        <2>1. PICK q \in Requests : InProgress(q) /\ rq[q].user = v /\ Owed(q, c)
            BY <1>1
        <2>2. pc'[q] = pc[q] /\ rq'[q] = rq[q]
            BY <2>1
        <2> QED BY <2>1, <2>2 DEF InProgress, Owed
    <1>2. CASE Fits(v, c)
        BY <1>2 DEF Fits
    <1> QED BY <1>1, <1>2 DEF IInv, RulesInv, RulesAt

LEMMA RowsOfOthers ==
    ASSUME NEW v, NEW c, \A r \in RoleIDs : Has(v, r)' <=> Has(v, r)
    PROVE  HasCode(v, c)' <=> HasCode(v, c)
    BY DEF HasCode

\* A rule of the user of a request is excused, owed by that request, or right.
LEMMA OwnRules ==
    ASSUME IInv, NEW q \in Requests, InProgress(q), NEW c \in RoleCodes
    PROVE  <<rq[q].user, c>> \in excused \/ Owed(q, c) \/ Fits(rq[q].user, c)
    <1>1. rq[q].user \in UserIDs
        BY DEF IInv, TypeOK, Request
    <1>2. CASE \E x \in Requests : InProgress(x) /\ rq[x].user = rq[q].user /\ Owed(x, c)
        BY <1>2 DEF IInv, Overlap
    <1> QED BY <1>1, <1>2 DEF IInv, RulesInv, RulesAt

\* A step of a request to l: what it has to show of its own user, the rest stays.
LEMMA StepKeeps ==
    ASSUME IInv, NEW q \in Requests, InProgress(q), NEW l \in Labels \ {"new"}, Goto(q, l),
           rq' \in [Requests -> Request], rq'[q].user = rq[q].user,
           \A x \in Requests : x # q => rq'[x] = rq[x],
           excused \subseteq excused', excused' \in SUBSET Grouping,
           EnforcerTypeOK', faults' \in Nat, UNCHANGED <<users, retired, roles>>,
           user_role' \subseteq users \X roles,
           \A v \in UserIDs, r \in RoleIDs :
               v # rq[q].user => (<<v, r>> \in user_role' <=> <<v, r>> \in user_role),
           \A v \in UserIDs, c \in RoleCodes :
               v # rq[q].user => (<<v, c>> \in rules' <=> <<v, c>> \in rules),
           RequestAt(q)',
           \A c \in RoleCodes : \/ <<rq[q].user, c>> \in excused'
                                \/ l \notin Final /\ Owed(q, c)'
                                \/ Fits(rq[q].user, c)'
    PROVE  IInv'
    <1> DEFINE u == rq[q].user
    <1>1. pc'[q] = l /\ \A x \in Requests : x # q => pc'[x] = pc[x]
        BY DEF IInv, TypeOK, Goto
    <1>2. TypeOK' /\ ReferencesResolve' /\ RetiredInv'
        <2>1. pc' \in [Requests -> Labels]
            BY DEF IInv, TypeOK, Goto, Labels
        <2>2. users \X roles \subseteq UserRole
            BY DEF IInv, TypeOK, UserRole
        <2> QED BY <2>1, <2>2 DEF IInv, TypeOK, Labels, ReferencesResolve, RetiredInv
    <1>3. \A x \in Requests : InProgress(x)' => InProgress(x) /\ rq'[x].user = rq[x].user
        BY <1>1 DEF InProgress
    <1>4. Overlap'
        BY <1>3 DEF IInv, Overlap
    <1>5. \A x \in Requests : rq[x].user \in UserIDs
        BY DEF IInv, TypeOK, Request
    <1>6. \A v \in UserIDs, r \in RoleIDs : v # u => (Has(v, r)' <=> Has(v, r))
        BY DEF Has
    <1>7. RequestInv'
        <2> SUFFICES ASSUME NEW x \in Requests, x # q PROVE RequestAt(x)'
            BY DEF RequestInv
        <2> SUFFICES ASSUME InProgress(x) PROVE RequestAt(x)'
            BY <1>3 DEF RequestAt
        <2>1. pc'[x] = pc[x] /\ rq'[x] = rq[x]
            BY <1>1
        <2>2. \A r \in RoleIDs : CodeOf[r] \in RoleCodes
            BY CodeOfAssumption
        <2>3. CASE rq[x].user = u
            <3>1. \A c \in RoleCodes : <<u, c>> \in excused'
                BY <2>3 DEF IInv, Overlap
            <3>2. \A r \in RoleIDs : <<u, CodeOf[r]>> \in excused'
                BY <2>2, <3>1
            <3>3. <<u, RoleUser>> \in excused'
                BY <3>1, RoleUserAssumption
            <3> QED BY <2>1, <2>3, <3>2, <3>3, RequestStays
        <2>4. CASE rq[x].user # u
            <3>1. \A r \in RoleIDs : Has(rq[x].user, r)' <=> Has(rq[x].user, r)
                BY <1>5, <1>6, <2>1, <2>4 DEF Has
            <3> QED BY <2>1, <3>1, RequestStays
        <2> QED BY <2>3, <2>4
    <1>8. RulesInv'
        <2> SUFFICES ASSUME NEW v \in UserIDs PROVE RulesAt(v)'
            BY DEF RulesInv
        <2>1. CASE v = u
            <3> SUFFICES ASSUME NEW c \in RoleCodes
                         PROVE  \/ <<v, c>> \in excused'
                                \/ \E x \in Requests : (InProgress(x) /\ rq[x].user = v /\ Owed(x, c))'
                                \/ Fits(v, c)'
                BY DEF RulesAt
            <3>1. CASE l \notin Final /\ Owed(q, c)'
                BY <1>1, <2>1, <3>1 DEF InProgress
            <3>2. CASE Fits(u, c)'
                BY <2>1, <3>2 DEF Fits, HasCode, Has
            <3> QED BY <2>1, <3>1, <3>2
        <2>2. CASE v # u
            <3>1. \A c \in RoleCodes : HasCode(v, c)' <=> HasCode(v, c)
                BY <1>6, <2>2, RowsOfOthers
            <3>2. \A x \in Requests : rq[x].user = v => pc'[x] = pc[x] /\ rq'[x] = rq[x]
                BY <1>1, <2>2
            <3> QED BY <2>2, <3>1, <3>2, RulesStay
        <2> QED BY <2>1, <2>2
    <1> QED BY <1>2, <1>4, <1>7, <1>8 DEF IInv

\* The same for a step that leaves rows, rules and arguments alone.
LEMMA GiveUpKeeps ==
    ASSUME IInv, NEW q \in Requests, InProgress(q), GiveUp(q), Fault \/ UNCHANGED faults,
           UNCHANGED <<enforcerVars, dbVars>>
    PROVE  IInv'
    <1>1. EnforcerTypeOK' /\ rules' = rules /\ faults' \in Nat
        BY UnchangedFacts, FaultFacts DEF IInv, TypeOK, enforcerVars
    <1>2. Goto(q, "error") /\ rq' = rq /\ excused' = excused \cup Unfinished(q)
        BY DEF GiveUp, Excuse
    <1>3. excused' \in SUBSET Grouping
        BY <1>2, UnfinishedTyped DEF IInv, TypeOK
    <1>4. pc'[q] = "error"
        BY <1>2 DEF IInv, TypeOK, Goto
    <1>5. RequestAt(q)'
        BY <1>4 DEF RequestAt, InProgress, Final
    <1>6. ASSUME NEW c \in RoleCodes
          PROVE  <<rq[q].user, c>> \in excused' \/ Fits(rq[q].user, c)'
        <2>1. CASE <<rq[q].user, c>> \in excused \/ Owed(q, c)
            BY <1>2, <2>1, UnfinishedFacts
        <2>2. CASE Fits(rq[q].user, c)
            BY <1>1, <1>2, <2>2 DEF Fits, HasCode, Has, dbVars
        <2> QED BY <2>1, <2>2, OwnRules
    <1>7. user_role' \subseteq users \X roles /\ rq' \in [Requests -> Request]
        BY <1>2 DEF IInv, ReferencesResolve, dbVars, TypeOK
    <1>8. "error" \in Labels \ {"new"}
        BY DEF Labels, Final
    <1> HIDE DEF IInv
    <1> QED BY <1>1, <1>2, <1>3, <1>5, <1>6, <1>7, <1>8, StepKeeps DEF dbVars

-----------------------------------------------------------------------------
(* The steps of an assignment.                                             *)

LEMMA RequestTyped ==
    ASSUME IInv, NEW q \in Requests
    PROVE  /\ rq[q] \in Request /\ rq[q].user \in UserIDs /\ rq[q].server \in Servers
           /\ rq[q].asked \in SUBSET RoleIDs /\ rq[q].old \in SUBSET RoleCodes
           /\ rq[q].todo \in SUBSET RoleIDs
    BY DEF IInv, TypeOK, Request

LEMMA Moved ==
    ASSUME IInv, NEW q \in Requests, NEW l, Goto(q, l)
    PROVE  pc'[q] = l
    BY DEF IInv, TypeOK, Goto

LEMMA GetUserRolesKeeps ==
    ASSUME IInv, NEW q \in Requests, GetUserRoles(q)
    PROVE  IInv'
    <1> DEFINE u == rq[q].user
    <1>1. pc[q] = "readOld" /\ Goto(q, "deleteRows") /\ UNCHANGED <<enforcerVars, dbVars>>
          /\ InProgress(q) /\ "deleteRows" \in Labels \ {"new"}
        BY DEF GetUserRoles, InProgress, Labels, Final
    <1>2. EnforcerTypeOK' /\ rules' = rules /\ faults' \in Nat
        BY <1>1, UnchangedFacts, FaultFacts DEF IInv, TypeOK, enforcerVars, GetUserRoles
    <1>3. Codes(RolesOf(u)) \in SUBSET RoleCodes
        BY CodesTyped DEF IInv, TypeOK, RolesOf
    <1>4. /\ rq' \in [Requests -> Request] /\ rq'[q].user = u /\ rq'[q].todo = rq[q].todo
          /\ rq'[q].asked = rq[q].asked
          /\ \A x \in Requests : x # q => rq'[x] = rq[x]
        BY <1>3, RequestTyped DEF GetUserRoles, User, IInv, TypeOK, Request
    <1>5. excused \subseteq excused' /\ excused' \in SUBSET Grouping
        BY <1>3, RequestTyped DEF GetUserRoles, Excuse, User, IInv, TypeOK, Grouping
    <1>6. pc'[q] = "deleteRows"
        BY <1>1, Moved
    <1>7. RequestAt(q)'
        <2>1. ASSUME NEW r \in RoleIDs, Has(u, r)
              PROVE  CodeOf[r] \in rq'[q].old \/ <<u, CodeOf[r]>> \in excused'
            <3>1. CodeOf[r] \in Codes(RolesOf(u))
                BY <2>1 DEF Codes, RolesOf, Has
            <3>2. \/ rq'[q].old = Codes(RolesOf(u))
                  \/ excused' = excused \cup ({u} \X Codes(RolesOf(u)))
                <4> DEFINE C == Codes(RolesOf(u))
                <4>1. rq' = [rq EXCEPT ![q].old = C] \/ excused' = excused \cup ({u} \X C)
                    BY DEF GetUserRoles, Excuse, User
                <4>2. rq \in [Requests -> Request] /\ rq[q] \in Request
                    BY DEF IInv, TypeOK
                <4> HIDE DEF C
                <4>3. rq' = [rq EXCEPT ![q].old = C] => rq'[q].old = C
                    BY <4>2 DEF Request
                <4> QED BY <4>1, <4>3 DEF C
            <3> QED BY <3>1, <3>2
        <2>2. u \in users \cup retired /\ rq[q].todo = rq[q].asked
            BY <1>1 DEF IInv, RequestInv, RequestAt
        <2> QED BY <1>1, <1>4, <1>6, <2>1, <2>2 DEF RequestAt, Has, dbVars
    <1>8. ASSUME NEW c \in RoleCodes
          PROVE  <<u, c>> \in excused' \/ Fits(u, c)'
        <2>1. ~Owed(q, c)
            BY <1>1 DEF Owed
        <2> QED BY <1>1, <1>2, <1>4, <1>5, <2>1, OwnRules DEF Fits, HasCode, Has, dbVars
    <1>9. user_role' \subseteq users \X roles
        BY <1>1 DEF IInv, ReferencesResolve, dbVars
    <1> HIDE DEF IInv
    <1> QED BY <1>1, <1>2, <1>4, <1>5, <1>7, <1>8, <1>9, StepKeeps DEF dbVars

LEMMA RemoveAllRolesKeeps ==
    ASSUME IInv, NEW q \in Requests, RemoveAllRoles(q)
    PROVE  IInv'
    <1> DEFINE u == rq[q].user
    <1>1. pc[q] = "deleteRows" /\ InProgress(q) /\ "insertRows" \in Labels \ {"new"}
          /\ UNCHANGED <<enforcerVars, users, retired, roles>>
        BY DEF RemoveAllRoles, InProgress, Labels, Final
    <1>2. CASE Fault /\ GiveUp(q) /\ UNCHANGED user_role
        BY <1>1, <1>2, GiveUpKeeps DEF dbVars
    <1>3. CASE /\ user_role' = {row \in user_role : row[1] # u}
               /\ Goto(q, "insertRows") /\ UNCHANGED <<rq, faults, excused>>
        <2>1. EnforcerTypeOK' /\ rules' = rules /\ faults' \in Nat
            BY <1>1, <1>3, UnchangedFacts DEF IInv, TypeOK, enforcerVars
        <2>2. /\ rq' \in [Requests -> Request] /\ excused' \in SUBSET Grouping
              /\ user_role' \subseteq users \X roles
            BY <1>3 DEF IInv, TypeOK, ReferencesResolve
        <2>3. /\ \A r \in RoleIDs : <<u, r>> \notin user_role'
              /\ \A v \in UserIDs, r \in RoleIDs :
                    v # u => (<<v, r>> \in user_role' <=> <<v, r>> \in user_role)
            BY <1>3
        <2>4. pc'[q] = "insertRows"
            BY <1>3, Moved
        <2>5. RequestAt(q) /\ RequestAt(q)'
            BY <1>1, <1>3, <2>3, <2>4 DEF IInv, RequestInv, RequestAt, Has
        <2>6. ASSUME NEW c \in RoleCodes
              PROVE  <<u, c>> \in excused' \/ Owed(q, c)' \/ Fits(u, c)'
            <3>1. CASE <<u, c>> \in excused
                BY <1>3, <3>1
            <3>2. CASE <<u, c>> \notin excused
                <4>1. Fits(u, c)
                    BY <1>1, <3>2, OwnRules DEF Owed
                <4>2. CASE HasCode(u, c)
                    <5>1. c \in rq[q].old
                        BY <1>1, <2>5, <3>2, <4>2 DEF HasCode, RequestAt
                    <5> QED BY <1>3, <2>4, <5>1 DEF Owed
                <4>3. CASE ~HasCode(u, c)
                    <5>1. ~HasCode(u, c)'
                        BY <1>3, <2>3 DEF HasCode, Has
                    <5> QED BY <1>1, <1>3, <2>1, <4>1, <4>3, <5>1 DEF Fits
                <4> QED BY <4>2, <4>3
            <3> QED BY <3>1, <3>2
        <2>7. "insertRows" \notin Final
            BY DEF Final
        <2> HIDE DEF IInv
        <2> QED BY <1>1, <1>3, <2>1, <2>2, <2>3, <2>5, <2>6, <2>7, StepKeeps
    <1> QED BY <1>2, <1>3 DEF RemoveAllRoles, User

LEMMA InsertUserRolesKeeps ==
    ASSUME IInv, NEW q \in Requests, InsertUserRoles(q)
    PROVE  IInv'
    <1> DEFINE u == rq[q].user
               new == {u} \X rq[q].asked
    <1>1. pc[q] = "insertRows" /\ InProgress(q) /\ "dropOld" \in Labels \ {"new"}
          /\ UNCHANGED <<enforcerVars, users, retired, roles>>
        BY DEF InsertUserRoles, InProgress, Labels, Final
    <1>2. CASE GiveUp(q) /\ UNCHANGED <<user_role, faults>>
        BY <1>1, <1>2, GiveUpKeeps DEF dbVars
    <1>3. CASE /\ u \in users /\ rq[q].asked \subseteq roles
               /\ user_role' = user_role \cup new
               /\ Goto(q, "dropOld") /\ UNCHANGED <<rq, faults, excused>>
        <2>1. EnforcerTypeOK' /\ rules' = rules /\ faults' \in Nat
            BY <1>1, <1>3, UnchangedFacts DEF IInv, TypeOK, enforcerVars
        <2>2. /\ rq' \in [Requests -> Request] /\ excused' \in SUBSET Grouping
              /\ user_role' \subseteq users \X roles
            BY <1>3 DEF IInv, TypeOK, ReferencesResolve
        <2>3. /\ \A r \in RoleIDs : Has(u, r)' <=> Has(u, r) \/ r \in rq[q].asked
              /\ \A v \in UserIDs, r \in RoleIDs :
                    v # u => (<<v, r>> \in user_role' <=> <<v, r>> \in user_role)
            BY <1>1, <1>3 DEF Has
        <2>4. pc'[q] = "dropOld" /\ rq[q].todo = rq[q].asked /\ RequestAt(q)
            BY <1>1, <1>3, Moved DEF IInv, RequestInv, RequestAt
        <2>5. RequestAt(q)'
            <3>1. \A r \in RoleIDs : Has(u, r)' => r \in rq[q].todo \/ <<u, CodeOf[r]>> \in excused
                BY <1>1, <2>3, <2>4 DEF RequestAt
            <3>2. \A r \in rq[q].todo : Has(u, r)'
                BY <2>3, <2>4, RequestTyped
            <3>3. u \in users \cup retired
                BY <1>3
            <3> QED BY <1>1, <1>3, <2>4, <3>1, <3>2, <3>3 DEF RequestAt, Has
        <2>6. ASSUME NEW c \in RoleCodes
              PROVE  <<u, c>> \in excused' \/ Owed(q, c)' \/ Fits(u, c)'
            <3>1. CASE <<u, c>> \in excused
                BY <1>3, <3>1
            <3>2. CASE Owed(q, c)
                BY <1>1, <1>3, <2>4, <3>2 DEF Owed
            <3>3. CASE Fits(u, c)
                <4>1. HasCode(u, c) => HasCode(u, c)'
                    BY <2>3 DEF HasCode
                <4>2. HasCode(u, c)' => HasCode(u, c) \/ Owed(q, c)'
                    BY <1>3, <2>3, <2>4 DEF HasCode, Owed
                <4> QED BY <1>1, <1>3, <2>1, <3>3, <4>1, <4>2 DEF Fits
            <3> QED BY <1>1, <3>1, <3>2, <3>3, OwnRules
        <2>7. "dropOld" \notin Final
            BY DEF Final
        <2> HIDE DEF IInv
        <2> QED BY <1>1, <1>3, <2>1, <2>2, <2>3, <2>5, <2>6, <2>7, StepKeeps
    <1> QED BY <1>2, <1>3 DEF InsertUserRoles, User

-----------------------------------------------------------------------------
(* Calls of the enforcer within a request.                                 *)

\* Adding the rule for c, or being refused, leaves it stored or excused.
LEMMA AddGroupFacts ==
    ASSUME IInv, NEW q \in Requests, NEW c \in RoleCodes, AddGroup(q, c)
    PROVE  /\ EnforcerTypeOK' /\ faults' \in Nat
           /\ excused \subseteq excused' /\ excused' \in SUBSET Grouping
           /\ <<rq[q].user, c>> \in rules' \/ <<rq[q].user, c>> \in excused'
           /\ \A v, d : v # rq[q].user \/ d # c => (<<v, d>> \in rules' <=> <<v, d>> \in rules)
    <1> DEFINE g == <<rq[q].user, c>>
    <1>1. {g} \in SUBSET Grouping /\ rq[q].server \in Servers
        BY RequestTyped DEF Grouping
    <1>2. EnforcerTypeOK /\ excused \in SUBSET Grouping /\ faults' \in Nat
        BY FaultFacts DEF IInv, TypeOK, AddGroup
    <1>3. CASE AddStored(rq[q].server, {g}) /\ UNCHANGED excused
        <2>1. EnforcerTypeOK' /\ rules' = rules \cup {g}
            BY <1>1, <1>2, <1>3, AddStoredFacts
        <2> QED BY <1>2, <1>3, <2>1
    <1>4. CASE AddRefused(rq[q].server, {g}) /\ excused' = excused \cup ({g} \ rules)
        <2>1. EnforcerTypeOK' /\ rules' = rules
            BY <1>2, <1>4, UnchangedFacts DEF AddRefused
        <2> QED BY <1>1, <1>2, <1>4, <2>1
    <1> QED BY <1>3, <1>4 DEF AddGroup, Server, User, Excuse

\* Removing it, or failing to where that is ignored, leaves it gone or excused.
LEMMA RemoveGroupFacts ==
    ASSUME IInv, NEW q \in Requests, NEW c \in RoleCodes,
           RemoveGroup(q, c) \/ RemoveGroupIgnored(q, c)
    PROVE  /\ EnforcerTypeOK' /\ faults' \in Nat
           /\ excused \subseteq excused' /\ excused' \in SUBSET Grouping
           /\ <<rq[q].user, c>> \notin rules' \/ <<rq[q].user, c>> \in excused'
           /\ \A v, d : v # rq[q].user \/ d # c => (<<v, d>> \in rules' <=> <<v, d>> \in rules)
    <1> DEFINE g == <<rq[q].user, c>>
    <1>1. {g} \in SUBSET Grouping /\ rq[q].server \in Servers
        BY RequestTyped DEF Grouping
    <1>2. EnforcerTypeOK /\ excused \in SUBSET Grouping /\ faults' \in Nat
        BY FaultFacts DEF IInv, TypeOK, RemoveGroup, RemoveGroupIgnored
    <1>3. CASE RemoveGroup(q, c)
        <2>1. EnforcerTypeOK' /\ rules' = rules \ {g}
            BY <1>1, <1>2, <1>3, RemoveFacts DEF RemoveGroup, Server, User
        <2> QED BY <1>2, <1>3, <2>1 DEF RemoveGroup
    <1>4. CASE RemoveGroupIgnored(q, c)
        <2>1. EnforcerTypeOK' /\ rules' = rules
            BY <1>2, <1>4, UnchangedFacts DEF RemoveGroupIgnored, enforcerVars
        <2> QED BY <1>1, <1>2, <1>4, <2>1 DEF RemoveGroupIgnored, Excuse, User
    <1> QED BY <1>3, <1>4

LEMMA DropOldGroupKeeps ==
    ASSUME IInv, NEW q \in Requests, DropOldGroup(q)
    PROVE  IInv'
    <1> DEFINE u == rq[q].user
    <1>1. pc[q] = "dropOld" /\ InProgress(q) /\ {"dropOld", "addNew"} \subseteq Labels \ {"new"}
          /\ {"dropOld", "addNew"} \cap Final = {} /\ UNCHANGED dbVars
        BY DEF DropOldGroup, InProgress, Labels, Final
    <1>2. RequestAt(q) /\ user_role' \subseteq users \X roles
        BY <1>1 DEF IInv, RequestInv, ReferencesResolve, dbVars
    <1>3. /\ u \in users \cup retired
          /\ \A r \in RoleIDs : Has(u, r) => r \in rq[q].todo \/ <<u, CodeOf[r]>> \in excused
          /\ \A r \in rq[q].todo : Has(u, r) \/ <<u, CodeOf[r]>> \in excused
        BY <1>1, <1>2 DEF RequestAt
    <1>4. CASE rq[q].old = {}
        <2>1. Goto(q, "addNew") /\ UNCHANGED <<enforcerVars, rq, faults, excused>>
            BY <1>4 DEF DropOldGroup
        <2>2. EnforcerTypeOK' /\ rules' = rules /\ faults' \in Nat
            BY <2>1, UnchangedFacts DEF IInv, TypeOK, enforcerVars
        <2>3. pc'[q] = "addNew" /\ rq' = rq /\ excused' = excused
            BY <2>1, Moved
        <2>4. RequestAt(q)'
            BY <1>1, <1>3, <1>4, <2>3 DEF RequestAt, Has, dbVars
        <2>5. ASSUME NEW c \in RoleCodes
              PROVE  <<u, c>> \in excused' \/ Owed(q, c)' \/ Fits(u, c)'
            <3>1. Owed(q, c) => Owed(q, c)'
                BY <1>1, <2>3 DEF Owed
            <3>2. Fits(u, c) => Fits(u, c)'
                BY <1>1, <2>2, <2>3 DEF Fits, HasCode, Has, dbVars
            <3> QED BY <1>1, <2>3, <3>1, <3>2, OwnRules
        <2>6. rq' \in [Requests -> Request] /\ excused' \in SUBSET Grouping
            BY <2>3 DEF IInv, TypeOK
        <2> HIDE DEF IInv
        <2> QED BY <1>1, <1>2, <2>1, <2>2, <2>3, <2>4, <2>5, <2>6, StepKeeps DEF dbVars
    <1>5. CASE rq[q].old # {}
        <2>1. PICK d \in rq[q].old : /\ RemoveGroup(q, d) \/ RemoveGroupIgnored(q, d)
                                     /\ rq' = [rq EXCEPT ![q].old = @ \ {d}]
                                     /\ UNCHANGED pc
            BY <1>5 DEF DropOldGroup
        <2>2. d \in RoleCodes
            BY RequestTyped
        <2>3. /\ rq' \in [Requests -> Request] /\ rq'[q].user = u /\ rq'[q].old = rq[q].old \ {d}
              /\ rq'[q].todo = rq[q].todo
              /\ \A x \in Requests : x # q => rq'[x] = rq[x]
            BY <2>1, RequestTyped DEF IInv, TypeOK, Request
        <2>4. /\ EnforcerTypeOK' /\ faults' \in Nat
              /\ excused \subseteq excused' /\ excused' \in SUBSET Grouping
              /\ <<u, d>> \notin rules' \/ <<u, d>> \in excused'
              /\ \A v, c : v # u \/ c # d => (<<v, c>> \in rules' <=> <<v, c>> \in rules)
            BY <2>1, <2>2, RemoveGroupFacts
        <2>5. pc'[q] = "dropOld" /\ Goto(q, "dropOld")
            BY <1>1, <2>1 DEF Goto, IInv, TypeOK
        <2>6. RequestAt(q)'
            BY <1>1, <1>3, <2>3, <2>4, <2>5 DEF RequestAt, Has, dbVars
        <2>7. ASSUME NEW c \in RoleCodes
              PROVE  <<u, c>> \in excused' \/ Owed(q, c)' \/ Fits(u, c)'
            <3>1. HasCode(u, c)' <=> HasCode(u, c)
                BY <1>1, <2>3 DEF HasCode, Has, dbVars
            <3>2. CASE c # d
                <4>1. Owed(q, c) => Owed(q, c)'
                    BY <1>1, <2>3, <2>5, <3>2 DEF Owed
                <4>2. Fits(u, c) => Fits(u, c)'
                    BY <1>1, <2>3, <2>4, <3>1, <3>2 DEF Fits, dbVars
                <4> QED BY <1>1, <2>4, <4>1, <4>2, OwnRules
            <3>3. CASE c = d
                <4>1. HasCode(u, c) => Owed(q, c)' \/ <<u, c>> \in excused'
                    BY <1>3, <2>3, <2>4, <2>5 DEF HasCode, Owed
                <4> QED BY <2>3, <2>4, <3>1, <3>3, <4>1 DEF Fits
            <3> QED BY <3>2, <3>3
        <2> HIDE DEF IInv
        <2> QED BY <1>1, <1>2, <2>3, <2>4, <2>5, <2>6, <2>7, StepKeeps DEF dbVars
    <1> QED BY <1>4, <1>5

LEMMA AddNewGroupKeeps ==
    ASSUME IInv, NEW q \in Requests, AddNewGroup(q)
    PROVE  IInv'
    <1> DEFINE u == rq[q].user
    <1>1. pc[q] = "addNew" /\ InProgress(q) /\ {"ok", "addNew"} \subseteq Labels \ {"new"}
          /\ "addNew" \notin Final /\ "ok" \in Final /\ UNCHANGED dbVars
        BY DEF AddNewGroup, InProgress, Labels, Final
    <1>2. RequestAt(q) /\ user_role' \subseteq users \X roles
        BY <1>1 DEF IInv, RequestInv, ReferencesResolve, dbVars
    <1>3. /\ u \in users \cup retired /\ rq[q].old = {}
          /\ \A r \in rq[q].todo : Has(u, r) \/ <<u, CodeOf[r]>> \in excused
        BY <1>1, <1>2 DEF RequestAt
    <1>4. CASE rq[q].todo = {}
        <2>1. Goto(q, "ok") /\ UNCHANGED <<enforcerVars, rq, faults, excused>>
            BY <1>4 DEF AddNewGroup
        <2>2. EnforcerTypeOK' /\ rules' = rules /\ faults' \in Nat
            BY <2>1, UnchangedFacts DEF IInv, TypeOK, enforcerVars
        <2>3. pc'[q] = "ok" /\ rq' = rq /\ excused' = excused
            BY <2>1, Moved
        <2>4. RequestAt(q)'
            BY <1>1, <2>3 DEF RequestAt, InProgress
        <2>5. ASSUME NEW c \in RoleCodes
              PROVE  <<u, c>> \in excused' \/ Fits(u, c)'
            <3>1. ~Owed(q, c)
                BY <1>1, <1>3, <1>4 DEF Owed
            <3>2. Fits(u, c) => Fits(u, c)'
                BY <1>1, <2>2, <2>3 DEF Fits, HasCode, Has, dbVars
            <3> QED BY <1>1, <2>3, <3>1, <3>2, OwnRules
        <2>6. rq' \in [Requests -> Request] /\ excused' \in SUBSET Grouping
            BY <2>3 DEF IInv, TypeOK
        <2> HIDE DEF IInv
        <2> QED BY <1>1, <1>2, <2>1, <2>2, <2>3, <2>4, <2>5, <2>6, StepKeeps DEF dbVars
    <1>5. ASSUME NEW r \in rq[q].todo, r \in roles, AddGroupFails(q, CodeOf[r])
          PROVE  IInv'
        BY <1>1, <1>5, GiveUpKeeps DEF AddGroupFails, AddFails, enforcerVars
    <1>6. ASSUME NEW r \in rq[q].todo, rq' = [rq EXCEPT ![q].todo = @ \ {r}], UNCHANGED pc,
                 \/ r \in roles /\ AddGroup(q, CodeOf[r])
                 \/ r \notin roles /\ UNCHANGED <<enforcerVars, faults, excused>>
                 \/ Fault /\ Excuse({<<u, CodeOf[r]>>}) /\ UNCHANGED enforcerVars
          PROVE  IInv'
        <2> DEFINE d == CodeOf[r]
        <2>1. r \in RoleIDs /\ d \in RoleCodes
            BY RequestTyped, CodeOfAssumption
        <2>2. /\ rq' \in [Requests -> Request] /\ rq'[q].user = u /\ rq'[q].old = rq[q].old
              /\ rq'[q].todo = rq[q].todo \ {r}
              /\ \A x \in Requests : x # q => rq'[x] = rq[x]
            BY <1>6, RequestTyped DEF IInv, TypeOK, Request
        <2>3. /\ EnforcerTypeOK' /\ faults' \in Nat
              /\ excused \subseteq excused' /\ excused' \in SUBSET Grouping
              /\ <<u, d>> \in excused' \/ (<<u, d>> \in rules' /\ Has(u, r))
              /\ \A v, c : v # u \/ c # d => (<<v, c>> \in rules' <=> <<v, c>> \in rules)
            <3>1. CASE r \in roles /\ AddGroup(q, d)
                BY <1>3, <2>1, <3>1, AddGroupFacts
            <3>2. CASE r \notin roles /\ UNCHANGED <<enforcerVars, faults, excused>>
                <4>1. EnforcerTypeOK' /\ rules' = rules
                    BY <3>2, UnchangedFacts DEF IInv, TypeOK, enforcerVars
                <4> QED BY <1>3, <3>2, <4>1 DEF Has, IInv, TypeOK
            <3>3. CASE Fault /\ Excuse({<<u, d>>}) /\ UNCHANGED enforcerVars
                <4>1. EnforcerTypeOK' /\ rules' = rules /\ faults' \in Nat
                    BY <3>3, UnchangedFacts, FaultFacts DEF IInv, TypeOK, enforcerVars
                <4>2. <<u, d>> \in Grouping
                    BY <2>1, RequestTyped DEF Grouping
                <4> QED BY <3>3, <4>1, <4>2 DEF Excuse, IInv, TypeOK
            <3> QED BY <1>6, <3>1, <3>2, <3>3
        <2>4. pc'[q] = "addNew" /\ Goto(q, "addNew")
            BY <1>1, <1>6 DEF Goto, IInv, TypeOK
        <2>5. RequestAt(q)'
            BY <1>1, <1>3, <2>2, <2>3, <2>4 DEF RequestAt, Has, dbVars
        <2>6. ASSUME NEW c \in RoleCodes
              PROVE  <<u, c>> \in excused' \/ Owed(q, c)' \/ Fits(u, c)'
            <3>1. HasCode(u, c)' <=> HasCode(u, c)
                BY <1>1, <2>2 DEF HasCode, Has, dbVars
            <3>2. CASE c # d
                <4>1. Owed(q, c) => Owed(q, c)'
                    BY <1>1, <2>2, <2>4, <3>2 DEF Owed
                <4>2. Fits(u, c) => Fits(u, c)'
                    BY <1>1, <2>2, <2>3, <3>1, <3>2 DEF Fits, dbVars
                <4> QED BY <1>1, <2>3, <4>1, <4>2, OwnRules
            <3>3. CASE c = d
                <4>1. Has(u, r) => HasCode(u, c)
                    BY <2>1, <3>3 DEF HasCode
                <4> QED BY <2>2, <2>3, <3>1, <3>3, <4>1 DEF Fits
            <3> QED BY <3>2, <3>3
        <2> HIDE DEF IInv
        <2> QED BY <1>1, <1>2, <2>2, <2>3, <2>4, <2>5, <2>6, StepKeeps DEF dbVars
    <1> QED BY <1>4, <1>5, <1>6 DEF AddNewGroup, User

-----------------------------------------------------------------------------
(* The removal of a role, and the rule every user is created with.          *)

LEMMA RemoveRoleKeeps ==
    ASSUME IInv, NEW q \in Requests, RemoveRole(q)
    PROVE  IInv'
    <1> DEFINE u == rq[q].user
    <1>1. pc[q] = "removeRow" /\ InProgress(q) /\ "dropRule" \in Labels \ {"new"}
          /\ "dropRule" \notin Final /\ UNCHANGED <<enforcerVars, users, retired, roles>>
        BY DEF RemoveRole, InProgress, Labels, Final
    <1>2. CASE Fault /\ GiveUp(q) /\ UNCHANGED user_role
        BY <1>1, <1>2, GiveUpKeeps DEF dbVars
    <1>3. CASE /\ user_role' = user_role \ ({u} \X rq[q].asked)
               /\ Goto(q, "dropRule") /\ UNCHANGED <<rq, faults, excused>>
        <2>1. EnforcerTypeOK' /\ rules' = rules /\ faults' \in Nat
            BY <1>1, <1>3, UnchangedFacts DEF IInv, TypeOK, enforcerVars
        <2>2. /\ rq' \in [Requests -> Request] /\ excused' \in SUBSET Grouping
              /\ user_role' \subseteq users \X roles
            BY <1>3 DEF IInv, TypeOK, ReferencesResolve
        <2>3. /\ \A r \in RoleIDs : Has(u, r)' <=> Has(u, r) /\ r \notin rq[q].asked
              /\ \A v \in UserIDs, r \in RoleIDs :
                    v # u => (<<v, r>> \in user_role' <=> <<v, r>> \in user_role)
            BY <1>1, <1>3 DEF Has
        <2>4. pc'[q] = "dropRule" /\ RequestAt(q)
            BY <1>3, Moved DEF IInv, RequestInv
        <2>5. u \in users \cup retired
            BY <1>1, <2>4 DEF RequestAt
        <2>6. PICK r0 \in RoleIDs : rq[q].asked = {r0} /\ rq[q].old = {CodeOf[r0]}
            BY <1>1, <2>4 DEF RequestAt
        <2>7. RequestAt(q)'
            BY <1>1, <1>3, <2>3, <2>4, <2>5, <2>6 DEF RequestAt, Has
        <2>8. ASSUME NEW c \in RoleCodes
              PROVE  <<u, c>> \in excused' \/ Owed(q, c)' \/ Fits(u, c)'
            <3>1. CASE c = CodeOf[r0]
                BY <1>3, <2>4, <2>6, <3>1 DEF Owed
            <3>2. CASE c # CodeOf[r0]
                <4>1. HasCode(u, c)' <=> HasCode(u, c)
                    BY <1>3, <2>3, <2>6, <3>2 DEF HasCode
                <4>2. ~Owed(q, c)
                    BY <1>1 DEF Owed
                <4> QED BY <1>1, <1>3, <2>1, <4>1, <4>2, OwnRules DEF Fits
            <3> QED BY <3>1, <3>2
        <2> HIDE DEF IInv
        <2> QED BY <1>1, <1>3, <2>1, <2>2, <2>3, <2>7, <2>8, StepKeeps
    <1> QED BY <1>2, <1>3 DEF RemoveRole, User

LEMMA DropRuleKeeps ==
    ASSUME IInv, NEW q \in Requests, DropRule(q)
    PROVE  IInv'
    <1> DEFINE u == rq[q].user
    <1>1. pc[q] = "dropRule" /\ InProgress(q) /\ "ok" \in Labels \ {"new"} /\ "ok" \in Final
          /\ Goto(q, "ok") /\ UNCHANGED <<dbVars, rq>>
        BY DEF DropRule, InProgress, Labels, Final
    <1>2. RequestAt(q) /\ user_role' \subseteq users \X roles /\ rq' \in [Requests -> Request]
        BY <1>1 DEF IInv, RequestInv, ReferencesResolve, dbVars, TypeOK
    <1>3. PICK r0 \in RoleIDs : rq[q].asked = {r0} /\ rq[q].old = {CodeOf[r0]}
        BY <1>1, <1>2 DEF RequestAt
    <1>4. Has(u, r0) => <<u, CodeOf[r0]>> \in excused
        BY <1>1, <1>2, <1>3 DEF RequestAt
    <1>5. CodeOf[r0] \in RoleCodes /\ (RemoveGroup(q, CodeOf[r0]) \/ RemoveGroupIgnored(q, CodeOf[r0]))
        BY <1>3, CodeOfAssumption DEF DropRule
    <1>6. /\ EnforcerTypeOK' /\ faults' \in Nat
          /\ excused \subseteq excused' /\ excused' \in SUBSET Grouping
          /\ <<u, CodeOf[r0]>> \notin rules' \/ <<u, CodeOf[r0]>> \in excused'
          /\ \A v, c : v # u \/ c # CodeOf[r0] => (<<v, c>> \in rules' <=> <<v, c>> \in rules)
        BY <1>5, RemoveGroupFacts
    <1>7. pc'[q] = "ok"
        BY <1>1, Moved
    <1>8. RequestAt(q)'
        BY <1>1, <1>7 DEF RequestAt, InProgress
    <1>9. ASSUME NEW c \in RoleCodes
          PROVE  <<u, c>> \in excused' \/ Fits(u, c)'
        <2>1. HasCode(u, c)' <=> HasCode(u, c)
            BY <1>1 DEF HasCode, Has, dbVars
        <2>2. CASE c = CodeOf[r0]
            <3>1. HasCode(u, c) => Has(u, r0)
                BY <2>2, CodeOfAssumption DEF HasCode
            <3> QED BY <1>1, <1>4, <1>6, <2>1, <2>2, <3>1 DEF Fits
        <2>3. CASE c # CodeOf[r0]
            <3>1. ~Owed(q, c)
                BY <1>1, <1>3, <2>3 DEF Owed
            <3>2. Fits(u, c) => Fits(u, c)'
                BY <1>1, <1>6, <2>1, <2>3 DEF Fits, dbVars
            <3> QED BY <1>1, <1>6, <3>1, <3>2, OwnRules
        <2> QED BY <2>2, <2>3
    <1> HIDE DEF IInv
    <1> QED BY <1>1, <1>2, <1>6, <1>8, <1>9, StepKeeps DEF dbVars

LEMMA AddDefaultGroupKeeps ==
    ASSUME IInv, NEW q \in Requests, AddDefaultGroup(q)
    PROVE  IInv'
    <1> DEFINE u == rq[q].user
    <1>1. pc[q] = "addDefault" /\ InProgress(q) /\ "ok" \in Labels \ {"new"} /\ "ok" \in Final
          /\ UNCHANGED dbVars
        BY DEF AddDefaultGroup, InProgress, Labels, Final
    <1>2. RequestAt(q) /\ user_role' \subseteq users \X roles
        BY <1>1 DEF IInv, RequestInv, ReferencesResolve, dbVars
    <1>3. u \in users \/ <<u, RoleUser>> \in excused
        BY <1>1, <1>2 DEF RequestAt
    <1>4. CASE AddGroupFails(q, RoleUser)
        BY <1>1, <1>4, GiveUpKeeps DEF AddGroupFails, AddFails, enforcerVars
    <1>5. CASE AddGroup(q, RoleUser) /\ Goto(q, "ok") /\ UNCHANGED rq
        <2>1. /\ EnforcerTypeOK' /\ faults' \in Nat
              /\ excused \subseteq excused' /\ excused' \in SUBSET Grouping
              /\ <<u, RoleUser>> \in rules' \/ <<u, RoleUser>> \in excused'
              /\ \A v, c : v # u \/ c # RoleUser => (<<v, c>> \in rules' <=> <<v, c>> \in rules)
            BY <1>5, RoleUserAssumption, AddGroupFacts
        <2>2. pc'[q] = "ok" /\ rq' = rq /\ rq' \in [Requests -> Request]
            BY <1>5, Moved DEF IInv, TypeOK
        <2>3. RequestAt(q)'
            BY <1>1, <2>2 DEF RequestAt, InProgress
        <2>4. ASSUME NEW c \in RoleCodes
              PROVE  <<u, c>> \in excused' \/ Fits(u, c)'
            <3>1. HasCode(u, c)' <=> HasCode(u, c)
                BY <1>1, <2>2 DEF HasCode, Has, dbVars
            <3>2. CASE c = RoleUser
                BY <1>1, <1>3, <2>1, <2>2, <3>1, <3>2 DEF Fits, dbVars
            <3>3. CASE c # RoleUser
                <4>1. ~Owed(q, c)
                    BY <1>1 DEF Owed
                <4>2. Fits(u, c) => Fits(u, c)'
                    BY <1>1, <2>1, <2>2, <3>1, <3>3 DEF Fits, dbVars
                <4> QED BY <1>1, <2>1, <4>1, <4>2, OwnRules
            <3> QED BY <3>2, <3>3
        <2> HIDE DEF IInv
        <2> QED BY <1>1, <1>2, <1>5, <2>1, <2>2, <2>3, <2>4, StepKeeps DEF dbVars
    <1> QED BY <1>4, <1>5 DEF AddDefaultGroup

LEMMA DropDefaultGroupKeeps ==
    ASSUME IInv, NEW q \in Requests, DropDefaultGroup(q)
    PROVE  IInv'
    <1> DEFINE u == rq[q].user
    <1>1. pc[q] = "dropDefault" /\ InProgress(q) /\ "ok" \in Labels \ {"new"} /\ "ok" \in Final
          /\ UNCHANGED dbVars
        BY DEF DropDefaultGroup, InProgress, Labels, Final
    <1>2. user_role' \subseteq users \X roles
        BY <1>1 DEF IInv, ReferencesResolve, dbVars
    <1>3. ASSUME NEW c PROVE ~HasCode(u, c)
        <2>1. u \in retired
            BY <1>1 DEF IInv, RequestInv, RequestAt
        <2>2. u \notin users
            BY <2>1 DEF IInv, RetiredInv
        <2> QED BY <2>2 DEF IInv, ReferencesResolve, HasCode, Has
    <1>4. CASE Fault /\ GiveUp(q) /\ UNCHANGED enforcerVars
        BY <1>1, <1>4, GiveUpKeeps
    <1>5. CASE RemoveGroup(q, RoleUser) /\ Goto(q, "ok") /\ UNCHANGED rq
        <2>1. /\ EnforcerTypeOK' /\ faults' \in Nat
              /\ excused \subseteq excused' /\ excused' \in SUBSET Grouping
              /\ <<u, RoleUser>> \notin rules' \/ <<u, RoleUser>> \in excused'
              /\ \A v, c : v # u \/ c # RoleUser => (<<v, c>> \in rules' <=> <<v, c>> \in rules)
            BY <1>5, RoleUserAssumption, RemoveGroupFacts
        <2>2. pc'[q] = "ok" /\ rq' = rq /\ rq' \in [Requests -> Request]
            BY <1>5, Moved DEF IInv, TypeOK
        <2>3. RequestAt(q)'
            BY <1>1, <2>2 DEF RequestAt, InProgress
        <2>4. ASSUME NEW c \in RoleCodes
              PROVE  <<u, c>> \in excused' \/ Fits(u, c)'
            <3>1. HasCode(u, c)' <=> HasCode(u, c)
                BY <1>1, <2>2 DEF HasCode, Has, dbVars
            <3>2. CASE c = RoleUser
                BY <1>3, <2>1, <2>2, <3>1, <3>2 DEF Fits
            <3>3. CASE c # RoleUser
                <4>1. ~Owed(q, c)
                    BY <1>1, <3>3 DEF Owed
                <4>2. Fits(u, c) => Fits(u, c)'
                    BY <1>1, <2>1, <2>2, <3>1, <3>3 DEF Fits, dbVars
                <4> QED BY <1>1, <2>1, <4>1, <4>2, OwnRules
            <3> QED BY <3>2, <3>3
        <2> HIDE DEF IInv
        <2> QED BY <1>1, <1>2, <1>5, <2>1, <2>2, <2>3, <2>4, StepKeeps DEF dbVars
    <1> QED BY <1>4, <1>5 DEF DropDefaultGroup

-----------------------------------------------------------------------------
(* Requests that arrive.                                                   *)

\* A request that arrives to step l, about a user whose other requests it excuses.
LEMMA ArriveKeeps ==
    ASSUME IInv, NEW q \in Requests, pc[q] = "new", NEW l \in Labels \ {"new"}, Goto(q, l),
           NEW rec \in Request, rq' = [rq EXCEPT ![q] = rec],
           l \notin Final => \A x \in Requests, c \in RoleCodes :
               InProgress(x) /\ rq[x].user = rec.user => <<rec.user, c>> \in excused',
           excused \subseteq excused', excused' \in SUBSET Grouping,
           EnforcerTypeOK', rules' = rules, faults' \in Nat, UNCHANGED roles,
           users' \in SUBSET UserIDs, retired' \in SUBSET UserIDs, RetiredInv',
           users \cup retired \subseteq users' \cup retired', retired \subseteq retired',
           user_role' \subseteq users' \X roles,
           \A v \in UserIDs, r \in RoleIDs :
               v # rec.user \/ l \in Final => (Has(v, r)' <=> Has(v, r)),
           \A v \in users : v # rec.user \/ l \in Final => v \in users',
           RequestAt(q)', RulesAt(rec.user)'
    PROVE  IInv'
    <1> DEFINE u == rec.user
    <1>1. pc'[q] = l /\ \A x \in Requests : x # q => pc'[x] = pc[x]
        BY DEF IInv, TypeOK, Goto
    <1>2. rq' \in [Requests -> Request] /\ rq'[q] = rec /\ \A x \in Requests : x # q => rq'[x] = rq[x]
        BY DEF IInv, TypeOK
    <1>3. TypeOK' /\ ReferencesResolve'
        <2>1. pc' \in [Requests -> Labels]
            BY DEF IInv, TypeOK, Goto, Labels
        <2>2. users' \X roles \subseteq UserRole
            BY DEF IInv, TypeOK, UserRole
        <2> QED BY <1>2, <2>1, <2>2 DEF IInv, TypeOK, Labels, ReferencesResolve
    <1>4. ~InProgress(q)
        BY DEF InProgress
    <1>5. InProgress(q)' => l \notin Final
        BY <1>1 DEF InProgress
    <1>6. \A x \in Requests : x # q => (InProgress(x)' <=> InProgress(x))
        BY <1>1 DEF InProgress
    <1>7. Overlap'
        <2> SUFFICES ASSUME NEW x \in Requests, NEW y \in Requests, x # y, InProgress(x)',
                            InProgress(y)', rq'[x].user = rq'[y].user, NEW c \in RoleCodes
                     PROVE  <<rq'[x].user, c>> \in excused'
            BY DEF Overlap
        <2>1. CASE x = q
            BY <1>2, <1>5, <1>6, <2>1
        <2>2. CASE y = q
            BY <1>2, <1>5, <1>6, <2>2
        <2>3. CASE x # q /\ y # q
            BY <1>2, <1>6, <2>3 DEF IInv, Overlap
        <2> QED BY <2>1, <2>2, <2>3
    <1>8. \A x \in Requests : rq[x].user \in UserIDs
        BY DEF IInv, TypeOK, Request
    <1>9. RequestInv'
        <2> SUFFICES ASSUME NEW x \in Requests, x # q PROVE RequestAt(x)'
            BY DEF RequestInv
        <2> SUFFICES ASSUME InProgress(x) PROVE RequestAt(x)'
            BY <1>6 DEF RequestAt
        <2>1. pc'[x] = pc[x] /\ rq'[x] = rq[x]
            BY <1>1, <1>2
        <2>2. CASE rq[x].user = u /\ l \notin Final
            <3>1. \A c \in RoleCodes : <<u, c>> \in excused'
                BY <2>2
            <3>2. \A r \in RoleIDs : <<u, CodeOf[r]>> \in excused'
                BY <3>1, CodeOfAssumption
            <3>3. <<u, RoleUser>> \in excused'
                BY <3>1, RoleUserAssumption
            <3> QED BY <2>1, <2>2, <3>2, <3>3, RequestStays
        <2>3. CASE rq[x].user # u \/ l \in Final
            <3>1. \A r \in RoleIDs : Has(rq[x].user, r)' <=> Has(rq[x].user, r)
                BY <1>8, <2>1, <2>3 DEF Has
            <3> QED BY <2>1, <2>3, <3>1, RequestStays
        <2> QED BY <2>2, <2>3
    <1>10. RulesInv'
        <2> SUFFICES ASSUME NEW v \in UserIDs, v # u PROVE RulesAt(v)'
            BY DEF RulesInv
        <2>1. \A c \in RoleCodes : HasCode(v, c)' <=> HasCode(v, c)
            BY RowsOfOthers
        <2>2. \A x \in Requests : InProgress(x) => pc'[x] = pc[x] /\ rq'[x] = rq[x]
            BY <1>1, <1>2, <1>4
        <2> QED BY <2>1, <2>2, RulesStay
    <1> QED BY <1>3, <1>7, <1>9, <1>10 DEF IInv

LEMMA NewcomerExcuses ==
    ASSUME IInv, NEW q \in Requests, NEW op, NEW u \in UserIDs, Receive(q, op, u)
    PROVE  /\ pc[q] = "new" /\ excused \subseteq excused' /\ excused' \in SUBSET Grouping
           /\ \A x \in Requests, c \in RoleCodes :
                 InProgress(x) /\ rq[x].user = u => <<u, c>> \in excused'
    BY ActiveFacts DEF Receive, Excuse, User, IInv, TypeOK, Grouping

\* A user about whom a request arrives that has not done anything yet.
LEMMA RulesAtNewcomer ==
    ASSUME IInv, NEW q \in Requests, pc[q] = "new", NEW l, Goto(q, l), NEW rec,
           rq' = [rq EXCEPT ![q] = rec] \/ rq' = rq, NEW u \in UserIDs,
           excused \subseteq excused', rules' = rules, UNCHANGED <<roles, user_role>>,
           users \subseteq users'
    PROVE  RulesAt(u)'
    <1>1. \A x \in Requests : InProgress(x) => pc'[x] = pc[x] /\ rq'[x] = rq[x]
        BY DEF IInv, TypeOK, Goto, InProgress
    <1>2. \A c \in RoleCodes : HasCode(u, c)' <=> HasCode(u, c)
        BY DEF HasCode, Has
    <1> QED BY <1>1, <1>2, RulesStay

\* A request that is refused, or whose first statement fails.
LEMMA RefusedKeeps ==
    ASSUME IInv, NEW q \in Requests, pc[q] = "new", Goto(q, "error"), rq' = rq,
           excused \subseteq excused', excused' \in SUBSET Grouping, Fault \/ UNCHANGED faults,
           UNCHANGED <<enforcerVars, dbVars>>
    PROVE  IInv'
    <1>1. EnforcerTypeOK' /\ rules' = rules /\ faults' \in Nat
        BY UnchangedFacts, FaultFacts DEF IInv, TypeOK, enforcerVars
    <1>2. rq[q] \in Request /\ rq' = [rq EXCEPT ![q] = rq[q]] /\ rq[q].user \in UserIDs
        BY RequestTyped DEF IInv, TypeOK
    <1>3. pc'[q] = "error" /\ "error" \in Labels \ {"new"} /\ "error" \in Final
        BY Moved DEF Labels, Final
    <1>4. RequestAt(q)'
        BY <1>3 DEF RequestAt, InProgress
    <1>5. \A v, r : Has(v, r)' <=> Has(v, r)
        BY DEF Has, dbVars
    <1>6. /\ users' \in SUBSET UserIDs /\ retired' \in SUBSET UserIDs /\ RetiredInv'
          /\ user_role' \subseteq users' \X roles
        BY DEF IInv, TypeOK, RetiredInv, ReferencesResolve, dbVars
    <1>7. ASSUME NEW rec, rec = rq[q] PROVE IInv'
        <2> HIDE DEF IInv
        <2>1. RulesAt(rec.user)'
            <3>1. \A v \in UserIDs : RulesAt(v)'
                BY <1>1, <1>2, RulesAtNewcomer DEF dbVars
            <3> QED BY <1>2, <1>7, <3>1
        <2>2. rec \in Request /\ rq' = [rq EXCEPT ![q] = rec]
            BY <1>2, <1>7
        <2> QED BY <1>1, <1>3, <1>4, <1>5, <1>6, <2>1, <2>2, ArriveKeeps DEF dbVars
    <1> QED BY <1>7

LEMMA AssignArrives ==
    ASSUME IInv, NEW q \in Requests, NEW u \in users \cup retired, NEW R \in SUBSET RoleIDs,
           NEW s \in Servers, AssignRolesToUser(q, u, R, s)
    PROVE  IInv'
    <1> DEFINE rec == [server |-> s, user |-> u, asked |-> R, old |-> {}, todo |-> R]
    <1>1. u \in UserIDs
        BY DEF IInv, TypeOK
    <1>2. /\ pc[q] = "new" /\ excused \subseteq excused' /\ excused' \in SUBSET Grouping
          /\ \A x \in Requests, c \in RoleCodes :
                InProgress(x) /\ rq[x].user = u => <<u, c>> \in excused'
        BY <1>1, NewcomerExcuses DEF AssignRolesToUser
    <1>3. UNCHANGED <<enforcerVars, dbVars>>
        BY DEF AssignRolesToUser
    <1>4. CASE Refused(q, ~(u \in users /\ R \subseteq roles))
        BY <1>2, <1>3, <1>4, RefusedKeeps DEF Refused
    <1>5. CASE Goto(q, "readOld") /\ rq' = [rq EXCEPT ![q] = rec] /\ UNCHANGED faults
        <2>1. rec \in Request /\ rec.user = u
            BY <1>1 DEF Request
        <2>2. EnforcerTypeOK' /\ rules' = rules /\ faults' \in Nat
            BY <1>3, <1>5, UnchangedFacts DEF IInv, TypeOK, enforcerVars
        <2>3. pc'[q] = "readOld" /\ rq'[q] = rec /\ "readOld" \in Labels \ {"new"}
            BY <1>5, Moved DEF IInv, TypeOK, Labels
        <2>4. RequestAt(q)'
            BY <1>3, <2>3 DEF RequestAt, dbVars
        <2>5. RulesAt(u)'
            BY <1>1, <1>2, <1>3, <1>5, <2>2, RulesAtNewcomer DEF dbVars
        <2>6. /\ users' \in SUBSET UserIDs /\ retired' \in SUBSET UserIDs /\ RetiredInv'
              /\ user_role' \subseteq users' \X roles
            BY <1>3 DEF IInv, TypeOK, RetiredInv, ReferencesResolve, dbVars
        <2>7. \A v, r : Has(v, r)' <=> Has(v, r)
            BY <1>3 DEF Has, dbVars
        <2> HIDE DEF IInv, rec
        <2>8. RulesAt(rec.user)'
            BY <2>1, <2>5
        <2> QED BY <1>2, <1>3, <1>5, <2>1, <2>2, <2>3, <2>4, <2>6, <2>7, <2>8, ArriveKeeps DEF dbVars
    <1> QED BY <1>4, <1>5 DEF AssignRolesToUser

LEMMA RemoveArrives ==
    ASSUME IInv, NEW q \in Requests, NEW u \in users \cup retired, NEW r \in RoleIDs,
           NEW s \in Servers, RemoveRoleFromUser(q, u, r, s)
    PROVE  IInv'
    <1> DEFINE rec == [server |-> s, user |-> u, asked |-> {r}, old |-> {CodeOf[r]}, todo |-> {}]
    <1>1. u \in UserIDs /\ CodeOf[r] \in RoleCodes
        BY CodeOfAssumption DEF IInv, TypeOK
    <1>2. /\ pc[q] = "new" /\ excused \subseteq excused' /\ excused' \in SUBSET Grouping
          /\ \A x \in Requests, c \in RoleCodes :
                InProgress(x) /\ rq[x].user = u => <<u, c>> \in excused'
        BY <1>1, NewcomerExcuses DEF RemoveRoleFromUser
    <1>3. UNCHANGED <<enforcerVars, dbVars>>
        BY DEF RemoveRoleFromUser
    <1>4. CASE Refused(q, r \notin roles)
        BY <1>2, <1>3, <1>4, RefusedKeeps DEF Refused
    <1>5. CASE Goto(q, "removeRow") /\ rq' = [rq EXCEPT ![q] = rec] /\ UNCHANGED faults
        <2>1. rec \in Request /\ rec.user = u
            BY <1>1 DEF Request
        <2>2. EnforcerTypeOK' /\ rules' = rules /\ faults' \in Nat
            BY <1>3, <1>5, UnchangedFacts DEF IInv, TypeOK, enforcerVars
        <2>3. pc'[q] = "removeRow" /\ rq'[q] = rec /\ "removeRow" \in Labels \ {"new"}
            BY <1>5, Moved DEF IInv, TypeOK, Labels
        <2>4. RequestAt(q)'
            BY <1>3, <2>3 DEF RequestAt, dbVars
        <2>5. RulesAt(u)'
            BY <1>1, <1>2, <1>3, <1>5, <2>2, RulesAtNewcomer DEF dbVars
        <2>6. /\ users' \in SUBSET UserIDs /\ retired' \in SUBSET UserIDs /\ RetiredInv'
              /\ user_role' \subseteq users' \X roles
            BY <1>3 DEF IInv, TypeOK, RetiredInv, ReferencesResolve, dbVars
        <2>7. \A v, k : Has(v, k)' <=> Has(v, k)
            BY <1>3 DEF Has, dbVars
        <2> HIDE DEF IInv, rec
        <2>8. RulesAt(rec.user)'
            BY <2>1, <2>5
        <2> QED BY <1>2, <1>3, <1>5, <2>1, <2>2, <2>3, <2>4, <2>6, <2>7, <2>8, ArriveKeeps DEF dbVars
    <1> QED BY <1>4, <1>5 DEF RemoveRoleFromUser

-----------------------------------------------------------------------------
(* Users and roles that come and go.                                       *)

LEMMA CreateUserKeeps ==
    ASSUME IInv, NEW q \in Requests, NEW s \in Servers, CreateUser(q, s)
    PROVE  IInv'
    <1>1. pc[q] = "new" /\ UNCHANGED <<enforcerVars, retired, roles, user_role, excused>>
        BY DEF CreateUser
    <1>2. excused' \in SUBSET Grouping
        BY <1>1 DEF IInv, TypeOK
    <1>3. CASE Fault /\ Goto(q, "error") /\ UNCHANGED <<users, rq>>
        BY <1>1, <1>2, <1>3, RefusedKeeps DEF dbVars
    <1>4. ASSUME NEW u \in FreshIDs, users' = users \cup {u},
                 rq' = [rq EXCEPT ![q] = [server |-> s, user |-> u, asked |-> {},
                                          old |-> {}, todo |-> {}]],
                 Goto(q, "addDefault"), UNCHANGED faults
          PROVE  IInv'
        <2> DEFINE rec == [server |-> s, user |-> u, asked |-> {}, old |-> {}, todo |-> {}]
        <2>1. u \in UserIDs /\ u \notin users \cup retired
            BY DEF FreshIDs
        <2>2. rec \in Request /\ rec.user = u
            BY <2>1 DEF Request
        <2>3. EnforcerTypeOK' /\ rules' = rules /\ faults' \in Nat
            BY <1>1, <1>4, UnchangedFacts DEF IInv, TypeOK, enforcerVars
        <2>4. pc'[q] = "addDefault" /\ rq'[q] = rec /\ "addDefault" \in Labels \ {"new"}
            BY <1>4, Moved DEF IInv, TypeOK, Labels
        <2>5. RequestAt(q)'
            BY <1>4, <2>4 DEF RequestAt
        <2>6. \A x \in Requests : InProgress(x) => rq[x].user # u
            BY <2>1 DEF IInv, RequestInv, RequestAt
        <2>7. RulesAt(u)'
            BY <1>1, <1>4, <2>1, <2>3, RulesAtNewcomer
        <2>8. /\ users' \in SUBSET UserIDs /\ retired' \in SUBSET UserIDs /\ RetiredInv'
              /\ user_role' \subseteq users' \X roles
            BY <1>1, <1>4, <2>1 DEF IInv, TypeOK, RetiredInv, ReferencesResolve
        <2>9. \A v, r : Has(v, r)' <=> Has(v, r)
            BY <1>1 DEF Has
        <2>10. rq' = [rq EXCEPT ![q] = rec]
            BY <1>4
        <2> HIDE DEF IInv, rec
        <2>11. RulesAt(rec.user)'
            BY <2>2, <2>7
        <2> QED BY <1>1, <1>2, <1>4, <2>2, <2>3, <2>4, <2>5, <2>6, <2>8, <2>9, <2>10, <2>11,
                   ArriveKeeps
    <1> QED BY <1>3, <1>4 DEF CreateUser

\* The rows of the user go; their rules but the default one are excused.
LEMMA DeleteUserKeeps ==
    ASSUME IInv, NEW q \in Requests, NEW u \in users \cup retired, NEW s \in Servers,
           DeleteUser(q, u, s)
    PROVE  IInv'
    <1>1. pc[q] = "new" /\ UNCHANGED <<enforcerVars, roles>> /\ u \in UserIDs
        BY DEF DeleteUser, IInv, TypeOK
    <1>2. CASE Fault /\ Goto(q, "error") /\ UNCHANGED <<users, retired, user_role, rq, excused>>
        <2>1. excused' \in SUBSET Grouping
            BY <1>2 DEF IInv, TypeOK
        <2> QED BY <1>1, <1>2, <2>1, RefusedKeeps DEF dbVars
    <1> DEFINE rec == [server |-> s, user |-> u, asked |-> {}, old |-> {}, todo |-> {}]
               gone == IF \E x \in Active : User(x) = u THEN RoleCodes ELSE Codes(RolesOf(u))
    <1>3. CASE /\ users' = users \ {u}
               /\ retired' = retired \cup {u}
               /\ user_role' = {row \in user_role : row[1] # u}
               /\ rq' = [rq EXCEPT ![q] = rec]
               /\ Goto(q, "dropDefault")
               /\ excused' = excused \cup ({u} \X gone)
               /\ UNCHANGED faults
        <2>1. rec \in Request /\ rec.user = u
            BY <1>1 DEF Request
        <2>2. EnforcerTypeOK' /\ rules' = rules /\ faults' \in Nat
            BY <1>1, <1>3, UnchangedFacts DEF IInv, TypeOK, enforcerVars
        <2>3. pc'[q] = "dropDefault" /\ rq'[q] = rec /\ "dropDefault" \in Labels \ {"new"}
            BY <1>3, Moved DEF IInv, TypeOK, Labels
        <2>4. RequestAt(q)'
            BY <1>3, <2>3 DEF RequestAt
        <2>5. gone \in SUBSET RoleCodes
            <3>1. Codes(RolesOf(u)) \in SUBSET RoleCodes
                BY CodesTyped DEF IInv, TypeOK, RolesOf
            <3> QED BY <3>1
        <2>6. excused \subseteq excused' /\ excused' \in SUBSET Grouping
            BY <1>1, <1>3, <2>5 DEF IInv, TypeOK, Grouping
        <2>7. \A x \in Requests, c \in RoleCodes :
                  InProgress(x) /\ rq[x].user = u => <<u, c>> \in excused'
            <3> SUFFICES ASSUME NEW x \in Requests, InProgress(x), rq[x].user = u
                         PROVE  gone = RoleCodes
                BY <1>3
            <3>1. x \in Active /\ User(x) = u
                BY ActiveFacts DEF IInv, User
            <3> QED BY <3>1
        <2>8. \A r : ~Has(u, r)'
            BY <1>3 DEF Has
        <2>9. \A v \in UserIDs, r \in RoleIDs : v # u => (Has(v, r)' <=> Has(v, r))
            BY <1>1, <1>3 DEF Has
        <2>10. RulesAt(u)'
            <3> SUFFICES ASSUME NEW c \in RoleCodes, <<u, c>> \notin excused'
                         PROVE  (InProgress(q) /\ rq[q].user = u /\ Owed(q, c))' \/ Fits(u, c)'
                BY DEF RulesAt
            <3>1. c \notin gone /\ <<u, c>> \notin excused
                BY <1>3
            <3>2. ~HasCode(u, c)
                BY <3>1, HasCodeFacts DEF IInv
            <3>3. \A x \in Requests : ~(InProgress(x) /\ rq[x].user = u /\ Owed(x, c))
                BY <2>7
            <3>4. Fits(u, c)
                BY <1>1, <3>1, <3>3 DEF IInv, RulesInv, RulesAt
            <3>5. CASE c = RoleUser
                BY <2>1, <2>3, <3>5 DEF InProgress, Owed, Final
            <3>6. CASE c # RoleUser
                BY <2>2, <2>8, <3>2, <3>4, <3>6 DEF Fits, HasCode
            <3> QED BY <3>5, <3>6
        <2>11. /\ users' \in SUBSET UserIDs /\ retired' \in SUBSET UserIDs /\ RetiredInv'
               /\ user_role' \subseteq users' \X roles
            BY <1>1, <1>3 DEF IInv, TypeOK, RetiredInv, ReferencesResolve
        <2>12. "dropDefault" \notin Final /\ users \cup retired \subseteq users' \cup retired'
               /\ retired \subseteq retired' /\ \A v \in users : v # u => v \in users'
            BY <1>3 DEF Final
        <2> HIDE DEF IInv, rec, gone
        <2>13. RulesAt(rec.user)'
            BY <2>1, <2>10
        <2> QED BY <1>1, <1>3, <2>1, <2>2, <2>3, <2>4, <2>6, <2>7, <2>9, <2>11, <2>12, <2>13,
                   ArriveKeeps
    <1> QED BY <1>2, <1>3 DEF DeleteUser, Excuse

LEMMA DeleteRoleKeeps ==
    ASSUME IInv, NEW r \in RoleIDs, DeleteRole(r)
    PROVE  IInv'
    <1> DEFINE owners == {u \in UserIDs : <<u, r>> \in user_role}
    <1>1. /\ roles' = roles \ {r} /\ user_role' = {row \in user_role : row[2] # r}
          /\ excused' = excused \cup (owners \X {CodeOf[r]})
          /\ UNCHANGED <<enforcerVars, users, retired, pc, rq, faults>>
        BY DEF DeleteRole, Excuse
    <1>2. EnforcerTypeOK' /\ rules' = rules
        BY <1>1, UnchangedFacts DEF IInv, TypeOK, enforcerVars
    <1>3. CodeOf[r] \in RoleCodes
        BY CodeOfAssumption
    <1>4. excused \subseteq excused' /\ excused' \in SUBSET Grouping
        BY <1>1, <1>3 DEF IInv, TypeOK, Grouping
    <1>5. TypeOK' /\ ReferencesResolve' /\ RetiredInv'
        BY <1>1, <1>2, <1>4 DEF IInv, TypeOK, ReferencesResolve, RetiredInv
    <1>6. Overlap'
        BY <1>1, <1>4 DEF IInv, Overlap, InProgress
    <1>7. \A u \in UserIDs, k \in RoleIDs : (Has(u, k)' <=> Has(u, k)) \/ <<u, CodeOf[k]>> \in excused'
        BY <1>1 DEF Has, IInv, TypeOK, UserRole
    <1>8. RequestInv'
        <2> SUFFICES ASSUME NEW x \in Requests PROVE RequestAt(x)'
            BY DEF RequestInv
        <2>1. rq[x].user \in UserIDs
            BY RequestTyped
        <2>2. \A k \in RoleIDs : (Has(rq[x].user, k)' <=> Has(rq[x].user, k))
                                 \/ <<rq[x].user, CodeOf[k]>> \in excused'
            BY <1>1, <1>7, <2>1 DEF Has
        <2> QED BY <1>1, <1>4, <2>2, RequestStays
    <1>9. RulesInv'
        <2> SUFFICES ASSUME NEW v \in UserIDs PROVE RulesAt(v)'
            BY DEF RulesInv
        <2>1. \A c \in RoleCodes : <<v, c>> \in excused' \/ (HasCode(v, c)' <=> HasCode(v, c))
            BY <1>7 DEF HasCode
        <2> QED BY <1>1, <1>2, <1>4, <2>1, RulesStay
    <1> QED BY <1>5, <1>6, <1>8, <1>9 DEF IInv

LEMMA CrashKeeps ==
    ASSUME IInv, NEW s \in Servers, Crash(s)
    PROVE  IInv'
    <1> DEFINE lost == {q \in Active : Server(q) = s}
    <1>1. /\ Fault /\ StartEnforcer(s) /\ UNCHANGED <<dbVars, rq>>
          /\ pc' = [q \in Requests |-> IF q \in lost THEN "crashed" ELSE pc[q]]
          /\ excused' = excused \cup UNION {Unfinished(q) : q \in lost}
        BY DEF Crash, Excuse
    <1>2. lost \subseteq Requests
        BY DEF Active
    <1>3. EnforcerTypeOK' /\ rules' = rules /\ faults' \in Nat
        <2>1. faults' \in Nat
            BY <1>1, FaultFacts DEF IInv
        <2> QED BY <1>1, <2>1 DEF IInv, TypeOK, EnforcerTypeOK, StartEnforcer
    <1>4. excused \subseteq excused' /\ excused' \in SUBSET Grouping
        <2>1. \A q \in lost : Unfinished(q) \in SUBSET Grouping
            BY <1>2, UnfinishedTyped DEF IInv
        <2> QED BY <1>1, <2>1 DEF IInv, TypeOK
    <1>5. TypeOK' /\ ReferencesResolve' /\ RetiredInv'
        <2>1. pc' \in [Requests -> Labels]
            BY <1>1 DEF IInv, TypeOK, Labels, Final
        <2> QED BY <1>1, <1>3, <1>4, <2>1 DEF IInv, TypeOK, ReferencesResolve, RetiredInv, dbVars, Labels
    <1>6. /\ \A x \in lost : ~InProgress(x)'
          /\ \A x \in Requests \ lost : pc'[x] = pc[x]
        BY <1>1, <1>2 DEF InProgress, Final
    <1>7. Overlap'
        <2>1. \A x \in Requests : InProgress(x)' => InProgress(x)
            BY <1>6 DEF InProgress
        <2> QED BY <1>1, <1>4, <2>1 DEF IInv, Overlap
    <1>8. RequestInv'
        <2> SUFFICES ASSUME NEW x \in Requests PROVE RequestAt(x)'
            BY DEF RequestInv
        <2>1. CASE x \in lost
            BY <1>6, <2>1 DEF RequestAt
        <2>2. CASE x \notin lost
            <3>1. \A r \in RoleIDs : Has(rq[x].user, r)' <=> Has(rq[x].user, r)
                BY <1>1 DEF Has, dbVars
            <3> QED BY <1>1, <1>4, <1>6, <2>2, <3>1, RequestStays DEF dbVars
        <2> QED BY <2>1, <2>2
    <1>9. RulesInv'
        <2> SUFFICES ASSUME NEW v \in UserIDs PROVE RulesAt(v)'
            BY DEF RulesInv
        <2>1. ASSUME NEW x \in Requests, NEW c \in RoleCodes, rq[x].user = v, Owed(x, c)
              PROVE  <<v, c>> \in excused' \/ (pc'[x] = pc[x] /\ rq'[x] = rq[x])
            <3>1. CASE x \in lost
                <4>1. <<v, c>> \in Unfinished(x)
                    BY <2>1, UnfinishedFacts
                <4> QED BY <1>1, <3>1, <4>1
            <3>2. CASE x \notin lost
                BY <1>1, <1>6, <3>2
            <3> QED BY <3>1, <3>2
        <2>2. \A c \in RoleCodes : HasCode(v, c)' <=> HasCode(v, c)
            BY <1>1 DEF HasCode, Has, dbVars
        <2> QED BY <1>1, <1>3, <1>4, <2>1, <2>2, RulesStay DEF dbVars
    <1> QED BY <1>5, <1>7, <1>8, <1>9 DEF IInv

\* A reload only concerns a memory, a step without one nothing.
LEMMA MemoryKeeps ==
    ASSUME IInv, EnforcerTypeOK', rules' = rules, UNCHANGED <<dbVars, pc, rq, faults, excused>>
    PROVE  IInv'
    <1>1. TypeOK' /\ ReferencesResolve' /\ RetiredInv' /\ Overlap'
        BY DEF IInv, TypeOK, ReferencesResolve, RetiredInv, Overlap, InProgress, dbVars
    <1>2. RequestInv'
        BY DEF IInv, RequestInv, RequestAt, InProgress, Has, dbVars
    <1>3. RulesInv'
        BY DEF IInv, RulesInv, RulesAt, InProgress, Owed, Fits, HasCode, Has, dbVars
    <1> QED BY <1>1, <1>2, <1>3 DEF IInv

LEMMA ReloadKeeps ==
    ASSUME IInv, NEW s \in Servers, Reload(s)
    PROVE  IInv'
    <1>1. EnforcerTypeOK' /\ rules' = rules
        BY DEF IInv, TypeOK, EnforcerTypeOK, Reload, ReadPolicy, ApplyPolicy
    <1> QED BY <1>1, MemoryKeeps DEF Reload

-----------------------------------------------------------------------------
(* The theorems.                                                           *)

LEMMA InitKeeps == Init => IInv
    <1> SUFFICES ASSUME Init PROVE IInv
        OBVIOUS
    <1>1. \A q \in Requests : pc[q] = "new" /\ ~InProgress(q)
        BY DEF Init, InProgress
    <1>2. NoRequest \in Request
        BY SomeServerAssumption, SomeUserIDAssumption DEF NoRequest, Request
    <1>3. ReferencesResolve /\ RetiredInv
        BY DEF Init, ReferencesResolve, RetiredInv
    <1>4. user_role \in SUBSET UserRole /\ roles \in SUBSET RoleIDs /\ users \in SUBSET UserIDs
        BY DEF Init, UserRole
    <1>5. rules = UNION {GroupsOf(u) : u \in users}
        BY DEF Init, EnforcerInit
    <1>6. rules \in SUBSET Grouping
        <2> SUFFICES ASSUME NEW u \in users PROVE GroupsOf(u) \subseteq Grouping
            BY <1>5
        <2>1. Codes(RolesOf(u)) \in SUBSET RoleCodes
            BY <1>4, CodesTyped DEF RolesOf
        <2> QED BY <1>4, <2>1, RoleUserAssumption DEF GroupsOf, Grouping
    <1>7. EnforcerTypeOK
        BY <1>5, <1>6 DEF Init, EnforcerInit, EnforcerTypeOK
    <1>8. TypeOK
        BY <1>2, <1>4, <1>7 DEF Init, TypeOK
    <1>9. Overlap /\ RequestInv
        BY <1>1 DEF Overlap, RequestInv, RequestAt
    <1>10. RulesInv
        <2> SUFFICES ASSUME NEW v \in UserIDs, NEW c \in RoleCodes PROVE Fits(v, c)
            BY DEF RulesInv, RulesAt
        <2>1. \A u : <<v, c>> \in GroupsOf(u) => u = v
            BY DEF GroupsOf
        <2>2. <<v, c>> \in rules <=> v \in users /\ <<v, c>> \in GroupsOf(v)
            BY <1>5, <2>1
        <2>3. HasCode(v, c) => v \in users
            BY <1>3 DEF HasCode, Has, ReferencesResolve
        <2> QED BY <1>8, <2>2, <2>3, GroupsFacts DEF Fits
    <1> QED BY <1>3, <1>8, <1>9, <1>10 DEF IInv

LEMMA NextKeeps == IInv /\ [Next]_vars => IInv'
    <1> SUFFICES ASSUME IInv, [Next]_vars PROVE IInv'
        OBVIOUS
    <1>1. ASSUME NEW q \in Requests, Start(q) PROVE IInv'
        <2>1. PICK s \in Servers :
                  \/ CreateUser(q, s)
                  \/ \E u \in users \cup retired :
                        \/ \E R \in SUBSET RoleIDs \ {{}} : AssignRolesToUser(q, u, R, s)
                        \/ \E r \in RoleIDs : RemoveRoleFromUser(q, u, r, s)
                        \/ DeleteUser(q, u, s)
            BY <1>1 DEF Start
        <2> HIDE DEF IInv
        <2> QED BY <2>1, CreateUserKeeps, AssignArrives, RemoveArrives, DeleteUserKeeps
    <1>2. ASSUME NEW q \in Requests, Step(q) PROVE IInv'
        BY <1>2, GetUserRolesKeeps, RemoveAllRolesKeeps, InsertUserRolesKeeps, DropOldGroupKeeps,
           AddNewGroupKeeps, RemoveRoleKeeps, DropRuleKeeps, AddDefaultGroupKeeps,
           DropDefaultGroupKeeps DEF Step
    <1>3. ASSUME NEW r \in RoleIDs, DeleteRole(r) PROVE IInv'
        BY <1>3, DeleteRoleKeeps
    <1>4. ASSUME NEW s \in Servers, Crash(s) \/ Reload(s) PROVE IInv'
        BY <1>4, CrashKeeps, ReloadKeeps
    <1>5. CASE UNCHANGED vars
        <2>1. EnforcerTypeOK' /\ rules' = rules
            BY <1>5, UnchangedFacts DEF IInv, TypeOK, vars
        <2> QED BY <1>5, <2>1, MemoryKeeps DEF vars, dbVars
    <1> QED BY <1>1, <1>2, <1>3, <1>4, <1>5 DEF Next

LEMMA RulesFit == IInv => RulesFollowRows
    <1> SUFFICES ASSUME IInv PROVE RulesFollowRows
        OBVIOUS
    <1>1. \A v : Codes(RolesOf(v)) \in SUBSET RoleCodes
        <2>1. \A v : RolesOf(v) \in SUBSET RoleIDs
            BY DEF IInv, TypeOK, RolesOf
        <2> QED BY <2>1, CodesTyped
    <1>2. ASSUME NEW u \in UserIDs, Idle(u), NEW c \in RoleCodes
          PROVE  /\ <<u, c>> \in rules => <<u, c>> \in GroupsOf(u) \/ <<u, c>> \in excused
                 /\ c \in Codes(RolesOf(u)) => <<u, c>> \in rules \/ <<u, c>> \in excused
        <2>1. \A q \in Requests : ~(InProgress(q) /\ rq[q].user = u)
            BY <1>2, ActiveFacts DEF IInv, Idle, User
        <2>2. <<u, c>> \in excused \/ Fits(u, c)
            BY <2>1 DEF IInv, RulesInv, RulesAt
        <2> QED BY <2>2, GroupsFacts, HasCodeFacts DEF Fits, IInv
    <1> QED BY <1>1, <1>2 DEF RulesFollowRows

\* The inductive invariant, from which the others follow.
THEOREM UserRolesInvariant == Spec => []IInv
    <1> QED BY InitKeeps, NextKeeps, PTL DEF Spec

\* The type invariant of rows, rules, requests and the history.
THEOREM UserRolesTyped == Spec => []TypeOK
    <1>1. IInv => TypeOK
        BY DEF IInv
    <1> QED BY <1>1, UserRolesInvariant, PTL

\* user_role names only users and roles that are there, whatever is deleted
\* between the checks of AssignRolesToUser and its INSERT.
THEOREM UserRowsResolve == Spec => []ReferencesResolve
    <1>1. IInv => ReferencesResolve
        BY DEF IInv
    <1> QED BY <1>1, UserRolesInvariant, PTL

\* For any number of users, roles, servers, requests and faults: the g rules of
\* a user nobody works on are the roles of its rows, but for named incidents.
THEOREM RulesAreAsRows == Spec => []RulesFollowRows
    <1> QED BY RulesFit, UserRolesInvariant, PTL
=============================================================================
