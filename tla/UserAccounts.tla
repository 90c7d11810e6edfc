---------------------------- MODULE UserAccounts ----------------------------
(***************************************************************************)
(* The table of users: Create, Update, ChangePassword and Delete of          *)
(* internal/apiserver/biz/v1/user over the generic store (pkg/store).        *)
(*                                                                         *)
(* Every statement commits for itself.  Update and ChangePassword read the   *)
(* row into a struct, and save the whole struct later: Store.Update is       *)
(* gorm's Save, an UPDATE of all columns, or an INSERT when no row is left   *)
(* to update.  Of the columns the model keeps the name, the e-mail address   *)
(* (phone is treated in the same way) and the password.  The g rule a user   *)
(* is created with is in UserRoles; here it is one more call that may fail.  *)
(***************************************************************************)
EXTENDS Naturals, FiniteSets

CONSTANTS
    Requests,
    UserIDs,        \* the UUIDs the database may give
    Names, Emails, Passwords,
    NoRow,          \* no row with this ID
    Keep,           \* a field the request leaves out
    Operations,     \* the operations clients use in this instance
    MaxActive,      \* requests in progress at the same time
    MaxFaults       \* bound on failing calls

Row == [name : Names, email : Emails, password : Passwords]

ASSUME NoRowAssumption == NoRow \notin Row
ASSUME KeepAssumption == Keep \notin Names \cup Emails \cup Passwords
ASSUME NonEmptyAssumption ==
    UserIDs # {} /\ Names # {} /\ Emails # {} /\ Passwords # {}

VARIABLES
    users,      \* users[u]: the row of user u, or NoRow
    retired,    \* IDs of deleted users; a UUID is not given twice
    pc,         \* where each request is
    rq,         \* its arguments and its struct
    faults,     \* failing calls so far
    expected,   \* history: the rows as the effects of the saved requests, one
                \* after the other, make them
    overtaken,  \* history: requests whose user was written since they read it
    stale       \* history: users for whom an overtaken request has saved

vars == <<users, retired, pc, rq, faults, expected, overtaken, stale>>

Final == {"ok", "error"}
Active == {q \in Requests : pc[q] \notin Final \cup {"new"}}

\* What a request asks for, column by column.
Change == [name : Names \cup {Keep}, email : Emails \cup {Keep}, password : Passwords \cup {Keep}]
Request == [user : UserIDs, change : Change, read : Row]

SomeRow == [name |-> CHOOSE n \in Names : TRUE, email |-> CHOOSE e \in Emails : TRUE,
            password |-> CHOOSE p \in Passwords : TRUE]
NoRequest == [user |-> CHOOSE u \in UserIDs : TRUE,
              change |-> [name |-> Keep, email |-> Keep, password |-> Keep], read |-> SomeRow]

TypeOK ==
    /\ users \in [UserIDs -> Row \cup {NoRow}]
    /\ retired \in SUBSET UserIDs
    /\ pc \in [Requests -> Final \cup {"new", "insert", "grant", "check", "save", "ungrant"}]
    /\ rq \in [Requests -> Request]
    /\ faults \in Nat
    /\ expected \in [UserIDs -> Row \cup {NoRow}]
    /\ overtaken \in SUBSET Requests
    /\ stale \in SUBSET UserIDs

Existing == {u \in UserIDs : users[u] # NoRow}

\* No other user has this name or this e-mail address.
Free(u, row) ==
    \A x \in Existing \ {u} : users[x].name # row.name /\ users[x].email # row.email

IdentifiersUnique == \A u \in Existing : Free(u, users[u])

Init ==
    /\ users \in [UserIDs -> Row \cup {NoRow}]
    /\ IdentifiersUnique
    /\ retired = {}
    /\ pc = [q \in Requests |-> "new"]
    /\ rq = [q \in Requests |-> NoRequest]
    /\ faults = 0
    /\ expected = users
    /\ overtaken = {}
    /\ stale = {}

-----------------------------------------------------------------------------
Goto(q, label) == pc' = [pc EXCEPT ![q] = label]
Fault == faults < MaxFaults /\ faults' = faults + 1

Receive(q, op) ==
    /\ pc[q] = "new"
    /\ op \in Operations
    /\ Cardinality(Active) < MaxActive

\* Mutant: an optional field is copied whether or not the request has it.
MergeAll(row, change) == change

\* The struct with the fields of the request copied into it.
Merge(row, change) ==
    [f \in {"name", "email", "password"} |-> IF change[f] = Keep THEN row[f] ELSE change[f]]

Asks(q, f) == rq[q].change[f] # Keep

\* User u is written by q: the structs other requests have of it are old.
Overtake(q, u) ==
    overtaken' = overtaken \cup
        {x \in Requests \ {q} : rq[x].user = u /\ pc[x] \in {"check", "save"}}

\* A look-up by a unique column finds another user.
Taken(q, f) == \E x \in Existing \ {rq[q].user} : users[x][f] = rq[q].change[f]

\* A statement fails.
Fails(q) ==
    /\ pc[q] \in {"insert", "grant", "save", "ungrant"}
    /\ Fault
    /\ Goto(q, "error")
    /\ UNCHANGED <<users, retired, rq, expected, overtaken, stale>>

-----------------------------------------------------------------------------
(* Create: look the identifiers up, insert, give the user its role.         *)

\* The look-ups in one step, since only the answer depends on them; one that
\* fails counts as one that finds nothing.
Create(q, row) ==
    /\ Receive(q, "create")
    /\ LET taken == \E x \in Existing : users[x].name = row.name \/ users[x].email = row.email IN
       \/ taken /\ Goto(q, "error") /\ UNCHANGED <<rq, faults>>
       \/ /\ (~taken /\ UNCHANGED faults) \/ (taken /\ Fault)
          /\ Goto(q, "insert")
          /\ rq' = [rq EXCEPT ![q].change = row]
    /\ UNCHANGED <<users, retired, expected, overtaken, stale>>

\* Mutant: the table has no unique indexes.
InsertUserUnchecked(q) ==
    /\ pc[q] = "insert"
    /\ \E u \in UserIDs \ (Existing \cup retired) :
          /\ users' = [users EXCEPT ![u] = rq[q].change]
          /\ expected' = [expected EXCEPT ![u] = rq[q].change]
          /\ rq' = [rq EXCEPT ![q].user = u]
    /\ Goto(q, "grant")
    /\ UNCHANGED <<retired, faults, overtaken, stale>>

\* The unique indexes decide; a user ID is new.
InsertUser(q) ==
    /\ pc[q] = "insert"
    /\ \E u \in UserIDs \ (Existing \cup retired) :
         \/ /\ Free(u, rq[q].change)
            /\ users' = [users EXCEPT ![u] = rq[q].change]
            /\ expected' = [expected EXCEPT ![u] = rq[q].change]
            /\ rq' = [rq EXCEPT ![q].user = u]
            /\ Goto(q, "grant")
         \/ /\ ~Free(u, rq[q].change)
            /\ Goto(q, "error")
            /\ UNCHANGED <<users, expected, rq>>
    /\ UNCHANGED <<retired, faults, overtaken, stale>>

\* AddGroupingPolicy, and RemoveGroupingPolicy at the end of a deletion.
SyncCasbin(q) ==
    /\ pc[q] \in {"grant", "ungrant"}
    /\ Goto(q, "ok")
    /\ UNCHANGED <<users, retired, rq, faults, expected, overtaken, stale>>

-----------------------------------------------------------------------------
(* Update and ChangePassword: read the row, check, save the whole row.      *)

\* Mutant: the tenant condition is forgotten, and First takes any user.
GetUserAny(q, u, change, next) ==
    /\ \E x \in Existing :
         rq' = [rq EXCEPT ![q] = [user |-> u, change |-> change, read |-> users[x]]]
    /\ Goto(q, next)
    /\ UNCHANGED faults

\* Get(where.T): the row of the user who asks.
GetUser(q, u, change, next) ==
    \/ /\ u \in Existing
       /\ rq' = [rq EXCEPT ![q] = [user |-> u, change |-> change, read |-> users[u]]]
       /\ Goto(q, next)
       /\ UNCHANGED faults
    \/ /\ (u \notin Existing /\ UNCHANGED faults) \/ Fault
       /\ Goto(q, "error")
       /\ UNCHANGED rq

Update(q, u, name, email) ==
    /\ Receive(q, "update")
    /\ GetUser(q, u, [name |-> name, email |-> email, password |-> Keep], "check")
    /\ UNCHANGED <<users, retired, expected, overtaken, stale>>

\* The columns that are asked for and different are looked up.
CheckTaken(q) ==
    /\ pc[q] = "check"
    /\ LET taken == \E f \in {"name", "email"} :
                       Asks(q, f) /\ rq[q].change[f] # rq[q].read[f] /\ Taken(q, f) IN
       \/ taken /\ Goto(q, "error") /\ UNCHANGED faults
       \/ /\ (~taken /\ UNCHANGED faults) \/ (taken /\ Fault)
          /\ Goto(q, "save")
    /\ UNCHANGED <<users, retired, rq, expected, overtaken, stale>>

\* The old password is compared with the one in the row.
ChangePassword(q, u, old, new) ==
    /\ Receive(q, "changePassword")
    /\ LET change == [name |-> Keep, email |-> Keep, password |-> new] IN
       IF u \in Existing /\ users[u].password # old
       THEN Goto(q, "error") /\ UNCHANGED <<rq, faults>>
       ELSE GetUser(q, u, change, "save")
    /\ UNCHANGED <<users, retired, expected, overtaken, stale>>

\* UPDATE of all columns; and if there is no such row, INSERT.
Save(q) ==
    LET u == rq[q].user
        row == Merge(rq[q].read, rq[q].change)
    IN
    /\ pc[q] = "save"
    /\ \/ /\ Free(u, row)
          /\ users' = [users EXCEPT ![u] = row]
          /\ expected' = [expected EXCEPT
                ![u] = IF expected[u] = NoRow THEN NoRow ELSE Merge(expected[u], rq[q].change)]
          /\ Overtake(q, u)
          /\ stale' = IF q \in overtaken THEN stale \cup {u} ELSE stale
          /\ Goto(q, "ok")
       \/ /\ ~Free(u, row)
          /\ Goto(q, "error")
          /\ UNCHANGED <<users, expected, overtaken, stale>>
    /\ UNCHANGED <<retired, rq, faults>>

\* Deleting no row is no error.
Delete(q, u) ==
    /\ Receive(q, "delete")
    /\ \/ /\ users' = [users EXCEPT ![u] = NoRow]
          /\ expected' = [expected EXCEPT ![u] = NoRow]
          /\ retired' = retired \cup {u}
          /\ Overtake(q, u)
          /\ Goto(q, "ungrant")
          /\ UNCHANGED faults
       \/ Fault /\ Goto(q, "error") /\ UNCHANGED <<users, retired, expected, overtaken>>
    /\ UNCHANGED <<rq, stale>>

-----------------------------------------------------------------------------
Known == Existing \cup retired

Next ==
    \E q \in Requests :
        \/ \E row \in Row : Create(q, row)
        \/ \E u \in Known :
             \/ \E n \in Names \cup {Keep}, e \in Emails \cup {Keep} : Update(q, u, n, e)
             \/ \E old, new \in Passwords : ChangePassword(q, u, old, new)
             \/ Delete(q, u)
        \/ InsertUser(q) \/ SyncCasbin(q) \/ CheckTaken(q) \/ Save(q) \/ Fails(q)

Spec == Init /\ [][Next]_vars

-----------------------------------------------------------------------------
(* Properties.  IdentifiersUnique, above, is the first: no two users share a *)
(* name or an e-mail address, though the look-ups of Create and Update are   *)
(* made before, and apart from, the statement that writes.                   *)

\* Every row is what the saved requests make of it one after the other, each
\* changing the columns it asks for: no column of a user is lost or brought
\* back, and no deleted user returns, except for users of whom a struct was
\* saved that another request had overtaken.
RowsAsAsked == \A u \in UserIDs \ stale : users[u] = expected[u]

=============================================================================
