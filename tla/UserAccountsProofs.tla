------------------------- MODULE UserAccountsProofs -------------------------
(* Proofs about UserAccounts: identifiers and rows, for any requests.        *)
EXTENDS UserAccounts, TLAPS

Labels == Final \cup {"new", "insert", "grant", "check", "save", "ungrant"}

\* What a request inserts is a whole row.
InsertsRows == \A q \in Requests : pc[q] = "insert" => rq[q].change \in Row

\* The struct of a request that nobody has overtaken is the row.
ReadCurrent ==
    \A q \in Requests :
        pc[q] \in {"check", "save"} /\ q \notin overtaken => users[rq[q].user] = rq[q].read

IInv == TypeOK /\ IdentifiersUnique /\ InsertsRows /\ ReadCurrent /\ RowsAsAsked

LEMMA MergeTyped ==
    ASSUME NEW row \in Row, NEW change \in Change
    PROVE  Merge(row, change) \in Row
    BY KeepAssumption DEF Merge, Row, Change

LEMMA RowsChange == Row \subseteq Change
    BY DEF Row, Change

LEMMA NoRequestTyped == NoRequest \in Request
    <1>1. /\ (CHOOSE n \in Names : TRUE) \in Names /\ (CHOOSE e \in Emails : TRUE) \in Emails
          /\ (CHOOSE p \in Passwords : TRUE) \in Passwords
          /\ (CHOOSE u \in UserIDs : TRUE) \in UserIDs
        BY NonEmptyAssumption
    <1> QED BY <1>1 DEF NoRequest, Request, Change, SomeRow, Row

LEMMA InitKeeps == Init => IInv
    <1> SUFFICES ASSUME Init PROVE IInv
        OBVIOUS
    <1>1. TypeOK
        BY NoRequestTyped DEF Init, TypeOK, Final
    <1>2. InsertsRows /\ ReadCurrent /\ RowsAsAsked
        BY DEF Init, InsertsRows, ReadCurrent, RowsAsAsked
    <1> QED BY <1>1, <1>2 DEF Init, IInv

-----------------------------------------------------------------------------
\* Steps that write no row.  A request that reads one has it as it is.
LEMMA NoWriteKeepsInv ==
    ASSUME IInv, NEW q \in Requests, NEW label \in Labels, Goto(q, label),
           rq' \in [Requests -> Request],
           \A x \in Requests \ {q} : rq'[x] = rq[x],
           label = "insert" => rq'[q].change \in Row,
           label \in {"check", "save"} /\ q \notin overtaken => users[rq'[q].user] = rq'[q].read,
           faults' \in Nat, UNCHANGED <<users, retired, expected, overtaken, stale>>
    PROVE  IInv'
    <1>1. /\ pc \in [Requests -> Labels] /\ pc' = [pc EXCEPT ![q] = label]
        BY DEF IInv, TypeOK, Goto, Labels
    <1>2. TypeOK'
        <2>1. pc' \in [Requests -> Labels]
            BY <1>1
        <2> QED BY <2>1 DEF IInv, TypeOK, Labels
    <1>3. InsertsRows'
        BY <1>1 DEF IInv, InsertsRows
    <1>4. ReadCurrent'
        BY <1>1 DEF IInv, ReadCurrent
    <1>5. IdentifiersUnique' /\ RowsAsAsked'
        BY DEF IInv, IdentifiersUnique, Free, Existing, RowsAsAsked
    <1> QED BY <1>2, <1>3, <1>4, <1>5 DEF IInv

LEMMA FaultTyped ==
    ASSUME IInv
    PROVE  /\ Fault => faults' \in Nat
           /\ UNCHANGED faults => faults' \in Nat
    BY DEF IInv, TypeOK, Fault

LEMMA FailsKeepsInv ==
    ASSUME IInv, NEW q \in Requests, Fails(q)
    PROVE  IInv'
    <1>1. Goto(q, "error") /\ UNCHANGED <<users, retired, rq, expected, overtaken, stale>> /\ faults' \in Nat
        BY FaultTyped DEF Fails
    <1> QED BY <1>1, NoWriteKeepsInv DEF IInv, TypeOK, Labels, Final

LEMMA CreateKeepsInv ==
    ASSUME IInv, NEW q \in Requests, NEW row \in Row, Create(q, row)
    PROVE  IInv'
    <1>1. PICK label \in {"error", "insert"} :
            /\ Goto(q, label)
            /\ IF label = "insert" THEN rq' = [rq EXCEPT ![q].change = row] ELSE rq' = rq
            /\ UNCHANGED faults \/ Fault
        BY DEF Create
    <1>2. rq \in [Requests -> Request] /\ row \in Change
        BY RowsChange DEF IInv, TypeOK
    <1>3. rq' \in [Requests -> Request] /\ \A x \in Requests \ {q} : rq'[x] = rq[x]
        BY <1>1, <1>2 DEF Request
    <1>4. label = "insert" => rq'[q].change \in Row
        BY <1>1, <1>2 DEF Request
    <1>5. faults' \in Nat /\ label \in Labels /\ UNCHANGED <<users, retired, expected, overtaken, stale>>
        BY <1>1, FaultTyped DEF Labels, Final, Create
    <1> QED BY <1>1, <1>3, <1>4, <1>5, NoWriteKeepsInv

LEMMA SyncCasbinKeepsInv ==
    ASSUME IInv, NEW q \in Requests, SyncCasbin(q)
    PROVE  IInv'
    <1>1. Goto(q, "ok") /\ UNCHANGED <<users, retired, rq, expected, overtaken, stale>> /\ faults' \in Nat
        BY FaultTyped DEF SyncCasbin
    <1> QED BY <1>1, NoWriteKeepsInv DEF IInv, TypeOK, Labels, Final

LEMMA CheckTakenKeepsInv ==
    ASSUME IInv, NEW q \in Requests, CheckTaken(q)
    PROVE  IInv'
    <1>1. PICK label \in {"error", "save"} : Goto(q, label)
        BY DEF CheckTaken
    <1>2. UNCHANGED <<users, retired, rq, expected, overtaken, stale>> /\ faults' \in Nat /\ pc[q] = "check"
        BY FaultTyped DEF CheckTaken
    <1>3. q \notin overtaken => users[rq[q].user] = rq[q].read
        BY <1>2 DEF IInv, ReadCurrent
    <1>4. label \in Labels /\ rq' \in [Requests -> Request]
        BY <1>2 DEF Labels, Final, IInv, TypeOK
    <1> QED BY <1>1, <1>2, <1>3, <1>4, NoWriteKeepsInv

\* Update and ChangePassword read a row, or end.
LEMMA GetUserKeepsInv ==
    ASSUME IInv, NEW q \in Requests, NEW u \in UserIDs, NEW change \in Change,
           NEW next \in {"check", "save"},
           GetUser(q, u, change, next), UNCHANGED <<users, retired, expected, overtaken, stale>>
    PROVE  IInv'
    <1>1. faults' \in Nat /\ {"check", "save", "error"} \subseteq Labels
        BY FaultTyped DEF GetUser, Labels, Final
    <1>2. rq \in [Requests -> Request] /\ users \in [UserIDs -> Row \cup {NoRow}]
        BY DEF IInv, TypeOK
    <1>3. CASE /\ u \in Existing /\ Goto(q, next)
               /\ rq' = [rq EXCEPT ![q] = [user |-> u, change |-> change, read |-> users[u]]]
        <2>1. users[u] \in Row
            BY <1>2, <1>3 DEF Existing
        <2>2. [user |-> u, change |-> change, read |-> users[u]] \in Request
            BY <2>1 DEF Request
        <2>3. rq' \in [Requests -> Request] /\ \A x \in Requests \ {q} : rq'[x] = rq[x]
            BY <1>2, <1>3, <2>2
        <2>4. users[rq'[q].user] = rq'[q].read
            BY <1>2, <1>3
        <2> QED BY <1>1, <1>3, <2>3, <2>4, NoWriteKeepsInv
    <1>4. CASE Goto(q, "error") /\ UNCHANGED rq
        BY <1>1, <1>2, <1>4, NoWriteKeepsInv
    <1> QED BY <1>3, <1>4 DEF GetUser

LEMMA UpdateKeepsInv ==
    ASSUME IInv, NEW q \in Requests, NEW u \in UserIDs, NEW n \in Names \cup {Keep},
           NEW e \in Emails \cup {Keep}, Update(q, u, n, e)
    PROVE  IInv'
    <1>1. [name |-> n, email |-> e, password |-> Keep] \in Change
        BY DEF Change
    <1> QED BY <1>1, GetUserKeepsInv DEF Update

LEMMA ChangePasswordKeepsInv ==
    ASSUME IInv, NEW q \in Requests, NEW u \in UserIDs, NEW old \in Passwords, NEW new \in Passwords,
           ChangePassword(q, u, old, new)
    PROVE  IInv'
    <1> DEFINE change == [name |-> Keep, email |-> Keep, password |-> new]
    <1>1. change \in Change
        BY DEF Change
    <1>2. UNCHANGED <<users, retired, expected, overtaken, stale>>
        BY DEF ChangePassword
    <1>3. CASE GetUser(q, u, change, "save")
        BY <1>1, <1>2, <1>3, GetUserKeepsInv
    <1>4. CASE Goto(q, "error") /\ UNCHANGED <<rq, faults>>
        <2>1. faults' \in Nat /\ "error" \in Labels /\ rq' \in [Requests -> Request]
            BY <1>4, FaultTyped DEF Labels, Final, IInv, TypeOK
        <2> QED BY <1>2, <1>4, <2>1, NoWriteKeepsInv
    <1> QED BY <1>3, <1>4 DEF ChangePassword

-----------------------------------------------------------------------------
\* A row that agrees with no other can be written.
LEMMA WriteKeepsUnique ==
    ASSUME IInv, NEW u \in UserIDs, NEW row \in Row, Free(u, row),
           users' = [users EXCEPT ![u] = row]
    PROVE  IdentifiersUnique' /\ users' \in [UserIDs -> Row \cup {NoRow}]
    <1>1. users \in [UserIDs -> Row \cup {NoRow}]
        BY DEF IInv, TypeOK
    <1>2. users'[u] = row /\ \A x \in UserIDs \ {u} : users'[x] = users[x]
        BY <1>1
    <1>3. Existing' \subseteq Existing \cup {u}
        BY <1>2 DEF Existing
    <1>4. ASSUME NEW a \in Existing', NEW b \in Existing' \ {a}
          PROVE  users'[b].name # users'[a].name /\ users'[b].email # users'[a].email
        BY <1>2, <1>3, <1>4 DEF IInv, IdentifiersUnique, Free, Existing
    <1>5. users' \in [UserIDs -> Row \cup {NoRow}]
        BY <1>1
    <1> QED BY <1>4, <1>5 DEF IdentifiersUnique, Free

LEMMA InsertUserKeepsInv ==
    ASSUME IInv, NEW q \in Requests, InsertUser(q)
    PROVE  IInv'
    <1>1. PICK u \in UserIDs \ (Existing \cup retired) :
            \/ /\ Free(u, rq[q].change)
               /\ users' = [users EXCEPT ![u] = rq[q].change]
               /\ expected' = [expected EXCEPT ![u] = rq[q].change]
               /\ rq' = [rq EXCEPT ![q].user = u]
               /\ Goto(q, "grant")
            \/ Goto(q, "error") /\ UNCHANGED <<users, expected, rq>>
        BY DEF InsertUser
    <1>2. UNCHANGED <<retired, faults, overtaken, stale>> /\ pc[q] = "insert"
        BY DEF InsertUser
    <1>3. /\ users \in [UserIDs -> Row \cup {NoRow}] /\ expected \in [UserIDs -> Row \cup {NoRow}]
          /\ pc \in [Requests -> Labels] /\ rq \in [Requests -> Request] /\ faults' \in Nat
        BY <1>2, FaultTyped DEF IInv, TypeOK, Labels
    <1>4. CASE Goto(q, "error") /\ UNCHANGED <<users, expected, rq>>
        BY <1>2, <1>3, <1>4, NoWriteKeepsInv DEF Labels, Final
    <1>5. CASE /\ Free(u, rq[q].change)
               /\ users' = [users EXCEPT ![u] = rq[q].change]
               /\ expected' = [expected EXCEPT ![u] = rq[q].change]
               /\ rq' = [rq EXCEPT ![q].user = u]
               /\ Goto(q, "grant")
        <2>1. rq[q].change \in Row
            BY <1>2 DEF IInv, InsertsRows
        <2>2. IdentifiersUnique' /\ users' \in [UserIDs -> Row \cup {NoRow}]
            BY <1>5, <2>1, WriteKeepsUnique
        <2>3. pc' = [pc EXCEPT ![q] = "grant"] /\ "grant" \in Labels
            BY <1>5 DEF Goto, Labels
        <2>4. TypeOK'
            <3>1. pc' \in [Requests -> Labels]
                BY <1>3, <2>3
            <3>2. expected' \in [UserIDs -> Row \cup {NoRow}]
                BY <1>3, <1>5, <2>1
            <3>3. rq' \in [Requests -> Request]
                BY <1>3, <1>5 DEF Request
            <3> QED BY <1>2, <1>3, <2>2, <3>1, <3>2, <3>3 DEF IInv, TypeOK, Labels
        <2>5. InsertsRows'
            BY <1>3, <1>5, <2>3 DEF IInv, InsertsRows
        <2>6. ReadCurrent'
            <3> SUFFICES ASSUME NEW x \in Requests, pc'[x] \in {"check", "save"}, x \notin overtaken'
                         PROVE  users'[rq'[x].user] = rq'[x].read
                BY DEF ReadCurrent
            <3>1. x # q /\ pc[x] = pc'[x] /\ rq'[x] = rq[x]
                BY <1>3, <1>5, <2>3
            <3>2. users[rq[x].user] = rq[x].read /\ rq[x].read \in Row /\ rq[x].user \in UserIDs
                BY <1>2, <1>3, <3>1 DEF IInv, ReadCurrent, Request
            <3>3. rq[x].user # u
                BY <1>1, <3>2, NoRowAssumption DEF Existing
            <3> QED BY <1>3, <1>5, <3>1, <3>2, <3>3
        <2>7. RowsAsAsked'
            BY <1>2, <1>3, <1>5 DEF IInv, RowsAsAsked
        <2> QED BY <2>2, <2>4, <2>5, <2>6, <2>7 DEF IInv
    <1> QED BY <1>1, <1>4, <1>5

\* After a write of user u by q, a struct that nobody has overtaken is of another user.
LEMMA OthersKeepTheirRow ==
    ASSUME IInv, NEW q \in Requests, NEW u \in UserIDs, NEW label \in {"ok", "ungrant"},
           Goto(q, label), Overtake(q, u), UNCHANGED rq,
           \A x \in UserIDs \ {u} : users'[x] = users[x]
    PROVE  ReadCurrent' /\ InsertsRows'
    <1>1. pc \in [Requests -> Labels] /\ pc' = [pc EXCEPT ![q] = label] /\ rq \in [Requests -> Request]
        BY DEF IInv, TypeOK, Labels, Goto
    <1>2. ReadCurrent'
        <2> SUFFICES ASSUME NEW x \in Requests, pc'[x] \in {"check", "save"}, x \notin overtaken'
                     PROVE  users'[rq[x].user] = rq[x].read
            BY DEF ReadCurrent
        <2>1. x # q /\ pc[x] = pc'[x]
            BY <1>1
        <2>2. x \notin overtaken /\ rq[x].user # u
            BY <2>1 DEF Overtake
        <2>3. rq[x].user \in UserIDs
            BY <1>1 DEF Request
        <2> QED BY <2>1, <2>2, <2>3 DEF IInv, ReadCurrent
    <1>3. InsertsRows'
        BY <1>1 DEF IInv, InsertsRows
    <1> QED BY <1>2, <1>3

LEMMA SaveKeepsInv ==
    ASSUME IInv, NEW q \in Requests, Save(q)
    PROVE  IInv'
    <1> DEFINE u == rq[q].user
               row == Merge(rq[q].read, rq[q].change)
    <1>1. /\ users \in [UserIDs -> Row \cup {NoRow}] /\ expected \in [UserIDs -> Row \cup {NoRow}]
          /\ pc \in [Requests -> Labels] /\ rq \in [Requests -> Request]
          /\ overtaken \in SUBSET Requests /\ stale \in SUBSET UserIDs
        BY DEF IInv, TypeOK, Labels
    <1>2. u \in UserIDs /\ rq[q].read \in Row /\ rq[q].change \in Change
        BY <1>1 DEF Request
    <1>3. row \in Row
        BY <1>2, MergeTyped
    <1>4. UNCHANGED <<retired, rq, faults>> /\ pc[q] = "save" /\ faults' \in Nat
        BY FaultTyped DEF Save
    <1>5. CASE Goto(q, "error") /\ UNCHANGED <<users, expected, overtaken, stale>>
        BY <1>1, <1>4, <1>5, NoWriteKeepsInv DEF Labels, Final
    <1>6. CASE /\ Free(u, row) /\ users' = [users EXCEPT ![u] = row]
               /\ expected' = [expected EXCEPT
                     ![u] = IF expected[u] = NoRow THEN NoRow ELSE Merge(expected[u], rq[q].change)]
               /\ Overtake(q, u)
               /\ stale' = (IF q \in overtaken THEN stale \cup {u} ELSE stale)
               /\ Goto(q, "ok")
        <2>1. IdentifiersUnique' /\ users' \in [UserIDs -> Row \cup {NoRow}]
            BY <1>2, <1>3, <1>6, WriteKeepsUnique
        <2>2. ReadCurrent' /\ InsertsRows'
            <3>1. \A x \in UserIDs \ {u} : users'[x] = users[x]
                BY <1>1, <1>6
            <3> QED BY <1>2, <1>4, <1>6, <3>1, OthersKeepTheirRow
        <2>3. TypeOK'
            <3>1. pc' \in [Requests -> Labels]
                BY <1>1, <1>6 DEF Goto, Labels, Final
            <3>2. expected' \in [UserIDs -> Row \cup {NoRow}]
                <4>1. expected[u] # NoRow => Merge(expected[u], rq[q].change) \in Row
                    BY <1>1, <1>2, MergeTyped
                <4> QED BY <1>1, <1>2, <1>6, <4>1
            <3>3. overtaken' \in SUBSET Requests
                BY <1>1, <1>6 DEF Overtake
            <3>4. stale' \in SUBSET UserIDs
                BY <1>1, <1>2, <1>6
            <3>5. rq' \in [Requests -> Request] /\ retired' \in SUBSET UserIDs
                BY <1>1, <1>4 DEF IInv, TypeOK
            <3> QED BY <1>4, <2>1, <3>1, <3>2, <3>3, <3>4, <3>5 DEF TypeOK, Labels
        <2>4. RowsAsAsked'
            <3> SUFFICES ASSUME NEW x \in UserIDs, x \notin stale' PROVE users'[x] = expected'[x]
                BY DEF RowsAsAsked
            <3>1. x \notin stale /\ users[x] = expected[x]
                BY <1>6 DEF IInv, RowsAsAsked
            <3>2. CASE x = u
                <4>1. q \notin overtaken
                    BY <1>6, <3>2
                <4>2. users[u] = rq[q].read /\ users[u] # NoRow
                    BY <1>2, <1>4, <4>1, NoRowAssumption DEF IInv, ReadCurrent
                <4> HIDE DEF u, row
                <4>3. users'[x] = row /\ expected'[x] = Merge(expected[u], rq[q].change)
                    BY <1>1, <1>2, <1>6, <3>1, <3>2, <4>2
                <4> QED BY <3>1, <3>2, <4>2, <4>3 DEF row
            <3>3. CASE x # u
                BY <1>1, <1>6, <3>1, <3>3
            <3> QED BY <3>2, <3>3
        <2> QED BY <2>1, <2>2, <2>3, <2>4 DEF IInv
    <1> QED BY <1>5, <1>6 DEF Save

LEMMA DeleteKeepsInv ==
    ASSUME IInv, NEW q \in Requests, NEW u \in UserIDs, Delete(q, u)
    PROVE  IInv'
    <1>1. /\ users \in [UserIDs -> Row \cup {NoRow}] /\ expected \in [UserIDs -> Row \cup {NoRow}]
          /\ pc \in [Requests -> Labels] /\ rq \in [Requests -> Request]
          /\ overtaken \in SUBSET Requests /\ retired \in SUBSET UserIDs /\ stale \in SUBSET UserIDs
        BY DEF IInv, TypeOK, Labels
    <1>2. UNCHANGED <<rq, stale>> /\ faults' \in Nat
        BY FaultTyped DEF Delete
    <1>3. CASE Goto(q, "error") /\ UNCHANGED <<users, retired, expected, overtaken>>
        BY <1>1, <1>2, <1>3, NoWriteKeepsInv DEF Labels, Final
    <1>4. CASE /\ users' = [users EXCEPT ![u] = NoRow] /\ expected' = [expected EXCEPT ![u] = NoRow]
               /\ retired' = retired \cup {u} /\ Overtake(q, u) /\ Goto(q, "ungrant")
        <2>1. /\ users'[u] = NoRow /\ expected'[u] = NoRow
              /\ \A x \in UserIDs \ {u} : users'[x] = users[x] /\ expected'[x] = expected[x]
            BY <1>1, <1>4
        <2>2. ReadCurrent' /\ InsertsRows'
            BY <1>2, <1>4, <2>1, OthersKeepTheirRow
        <2>3. IdentifiersUnique'
            <3>1. Existing' \subseteq Existing \ {u}
                BY <2>1 DEF Existing
            <3> QED BY <2>1, <3>1 DEF IInv, IdentifiersUnique, Free, Existing
        <2>4. TypeOK'
            <3>1. pc' \in [Requests -> Labels]
                BY <1>1, <1>4 DEF Goto, Labels
            <3>2. users' \in [UserIDs -> Row \cup {NoRow}] /\ expected' \in [UserIDs -> Row \cup {NoRow}]
                BY <1>1, <1>4
            <3>3. overtaken' \in SUBSET Requests /\ retired' \in SUBSET UserIDs
                BY <1>1, <1>4 DEF Overtake
            <3> QED BY <1>1, <1>2, <3>1, <3>2, <3>3 DEF TypeOK, Labels
        <2>5. RowsAsAsked'
            BY <1>2, <2>1 DEF IInv, RowsAsAsked
        <2> QED BY <2>2, <2>3, <2>4, <2>5 DEF IInv
    <1> QED BY <1>3, <1>4 DEF Delete

-----------------------------------------------------------------------------
LEMMA NextKeepsInv ==
    ASSUME IInv, [Next]_vars
    PROVE  IInv'
    <1>1. CASE UNCHANGED vars
        BY <1>1 DEF vars, IInv, TypeOK, IdentifiersUnique, Free, Existing, InsertsRows, ReadCurrent, RowsAsAsked
    <1>2. ASSUME NEW q \in Requests,
                 \/ \E row \in Row : Create(q, row)
                 \/ InsertUser(q) \/ SyncCasbin(q) \/ CheckTaken(q) \/ Save(q) \/ Fails(q)
          PROVE  IInv'
        BY <1>2, CreateKeepsInv, InsertUserKeepsInv, SyncCasbinKeepsInv, CheckTakenKeepsInv,
           SaveKeepsInv, FailsKeepsInv
    <1>3. ASSUME NEW q \in Requests, NEW u \in Known,
                 \/ \E n \in Names \cup {Keep}, e \in Emails \cup {Keep} : Update(q, u, n, e)
                 \/ \E old, new \in Passwords : ChangePassword(q, u, old, new)
                 \/ Delete(q, u)
          PROVE  IInv'
        <2>1. u \in UserIDs
            BY DEF Known, Existing, IInv, TypeOK
        <2> QED BY <1>3, <2>1, UpdateKeepsInv, ChangePasswordKeepsInv, DeleteKeepsInv
    <1> QED BY <1>1, <1>2, <1>3 DEF Next

LEMMA Always == Spec => []IInv
    <1>1. IInv /\ [Next]_vars => IInv'
        BY NextKeepsInv
    <1> QED BY <1>1, InitKeeps, PTL DEF Spec

\* Rows, requests and the history have their types.
THEOREM AccountsTyped == Spec => []TypeOK
    <1>1. IInv => TypeOK
        BY DEF IInv
    <1> QED BY <1>1, Always, PTL

\* No two users share an identifier, whatever creations and updates overlap
\* between their look-ups and their statements (user/create.go, user/update.go).
THEOREM UsersUnique == Spec => []IdentifiersUnique
    <1>1. IInv => IdentifiersUnique
        BY DEF IInv
    <1> QED BY <1>1, Always, PTL

\* Columns are lost, and deleted users return, only where a request saved a
\* struct another one had overtaken (pkg/store/store.go, Update).
THEOREM RowsAreAsAsked == Spec => []RowsAsAsked
    <1>1. IInv => RowsAsAsked
        BY DEF IInv
    <1> QED BY <1>1, Always, PTL
=============================================================================
