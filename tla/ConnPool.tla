------------------------------ MODULE ConnPool ------------------------------
(***************************************************************************)
(* What requests of one server wait for: the connections of database/sql's   *)
(* pool (MaxOpenConns, pkg/options), the read-write lock of the casbin        *)
(* SyncedEnforcer, and the row locks of PostgreSQL.                         *)
(*                                                                         *)
(* AuthnMiddleware reads the user, AuthzMiddleware enforces under the read    *)
(* lock, and the handler follows: a query, and in AssignPermissionsToRole a    *)
(* transaction after it, whose connection is kept while Casbin, under the      *)
(* write lock, takes another one from the same pool.  The reload of the       *)
(* policy holds the read lock while it takes a connection.  Of the context of  *)
(* a request only TX knows: datastore.DB leaves it out.                      *)
(***************************************************************************)
EXTENDS Integers, FiniteSets

CONSTANTS
    Requests,
    Assigners,     \* the requests that assign permissions, the rest query
    Roles,
    Pool,          \* MaxOpenConnections
    Reloader,      \* the goroutine of StartAutoLoadPolicy
    Nobody,
    MaxCancels     \* bound on the clients that go away

ASSUME RequestsAssumption == IsFiniteSet(Requests)
ASSUME AssignersAssumption == Assigners \subseteq Requests
ASSUME PoolAssumption == Pool \in Nat \ {0}
ASSUME ReloaderAssumption ==
    Reloader \notin Requests /\ Nobody \notin Requests /\ Reloader # Nobody

VARIABLES
    pc,          \* where each request, and the reloader, is
    role,        \* role[q]: the role it assigns permissions to
    free,        \* connections that are in the pool, or may still be opened
    writer,      \* who holds the write lock
    readers,     \* who holds the read lock
    cancelled    \* requests whose client has gone

vars == <<pc, role, free, writer, readers, cancelled>>

Processes == Requests \cup {Reloader}
Final == {"ok", "error"}
Active == {q \in Requests : pc[q] \notin Final \cup {"new"}}

\* Inside b.store.TX, and there past the DELETE and INSERT of the rows.
CasbinLabels == {"remove", "removeConn", "removing", "add", "addConn", "adding", "commit"}
TxLabels == {"rows"} \cup CasbinLabels
LockedLabels == {"removeConn", "removing", "addConn", "adding"}

TypeOK ==
    /\ pc \in [Processes -> Final \cup TxLabels \cup {"new", "authn", "authnRead", "authz",
                  "enforce", "query", "queryRead", "begin", "idle", "load", "loading",
                  "apply", "swap"}]
    /\ role \in [Assigners -> Roles]
    /\ free \in 0..Pool
    /\ writer \in Processes \cup {Nobody}
    /\ readers \in SUBSET Processes
    /\ cancelled \in SUBSET Requests

Init ==
    /\ pc = [x \in Processes |-> IF x = Reloader THEN "idle" ELSE "new"]
    /\ role \in [Assigners -> Roles]
    /\ free = Pool
    /\ writer = Nobody
    /\ readers = {}
    /\ cancelled = {}

-----------------------------------------------------------------------------
(* The pool and the lock.                                                  *)

Goto(x, label) == pc' = [pc EXCEPT ![x] = label]

TakeConn == free > 0 /\ free' = free - 1
PutConn == free' = free + 1

\* A writer that waits keeps new readers out.
WriterWaits == \E x \in Processes : pc[x] \in {"remove", "add", "apply"}

RLock(x) ==
    /\ writer = Nobody /\ ~WriterWaits
    /\ readers' = readers \cup {x}
    /\ UNCHANGED writer

RUnlock(x) == readers' = readers \ {x} /\ UNCHANGED writer

Lock(x) ==
    /\ writer = Nobody /\ readers = {}
    /\ writer' = x
    /\ UNCHANGED readers

Unlock == writer' = Nobody /\ UNCHANGED readers

-----------------------------------------------------------------------------
(* The steps of every request.                                             *)

Arrive(q) ==
    /\ pc[q] = "new"
    /\ Goto(q, "authn")
    /\ UNCHANGED <<role, free, writer, readers, cancelled>>

\* A statement on its own: it takes a connection, and puts it back.
TakeForStatement(q) ==
    /\ \/ pc[q] = "authn" /\ Goto(q, "authnRead")
       \/ pc[q] = "query" /\ Goto(q, "queryRead")
    /\ TakeConn
    /\ UNCHANGED <<role, writer, readers, cancelled>>

PutAfterStatement(q) ==
    /\ \/ pc[q] = "authnRead" /\ Goto(q, "authz")
       \/ pc[q] = "queryRead" /\ Goto(q, IF q \in Assigners THEN "begin" ELSE "ok")
       \/ pc[q] \in {"authnRead", "queryRead"} /\ Goto(q, "error")
    /\ PutConn
    /\ UNCHANGED <<role, writer, readers, cancelled>>

\* Authorize.
StartEnforce(q) ==
    /\ pc[q] = "authz"
    /\ RLock(q)
    /\ Goto(q, "enforce")
    /\ UNCHANGED <<role, free, cancelled>>

EndEnforce(q) ==
    /\ pc[q] = "enforce"
    /\ RUnlock(q)
    /\ Goto(q, "query") \/ Goto(q, "error")
    /\ UNCHANGED <<role, free, cancelled>>

-----------------------------------------------------------------------------
(* The transaction of AssignPermissionsToRole.                             *)

Begin(q) ==
    /\ pc[q] = "begin"
    /\ \/ q \in cancelled /\ Goto(q, "error") /\ UNCHANGED free
       \/ q \notin cancelled /\ Goto(q, "rows") /\ TakeConn
    /\ UNCHANGED <<role, writer, readers, cancelled>>

\* Mutant: the error path returns without a rollback.
EndTxNoRollback(q, answer) ==
    /\ IF q \in cancelled \/ answer = "error" THEN UNCHANGED free ELSE PutConn
    /\ Goto(q, IF q \in cancelled THEN "error" ELSE answer)

\* Mutant: the connection is given back whether or not the context has done so.
EndTxTwice(q, answer) ==
    /\ PutConn
    /\ Goto(q, IF q \in cancelled THEN "error" ELSE answer)

\* Commit or rollback.  A transaction whose context is done has been rolled
\* back already, and has given its connection back.
EndTx(q, answer) ==
    /\ IF q \in cancelled THEN UNCHANGED free ELSE PutConn
    /\ Goto(q, IF q \in cancelled THEN "error" ELSE answer)

\* Mutant: two transactions that have not got past the rows wait for each other.
RowsLockedBoth(q) ==
    \E x \in Assigners \ (cancelled \cup {q}) : role[x] = role[q] /\ pc[x] \in TxLabels

\* Another transaction has written the rows of the role and has not ended.
RowsLocked(q) ==
    \E x \in Assigners \ cancelled : role[x] = role[q] /\ pc[x] \in CasbinLabels

\* DELETE and INSERT wait for it.
LockRows(q) ==
    /\ pc[q] = "rows" /\ ~RowsLocked(q)
    /\ Goto(q, "remove")
    /\ UNCHANGED <<role, free, writer, readers, cancelled>>

\* They fail, and the transaction is rolled back.
RowsFail(q) ==
    /\ pc[q] = "rows"
    /\ EndTx(q, "error")
    /\ UNCHANGED <<role, writer, readers, cancelled>>

\* RemoveFilteredPolicy and AddPolicies: the write lock, then a connection.
LockEnforcer(q) ==
    /\ \/ pc[q] = "remove" /\ Goto(q, "removeConn")
       \/ pc[q] = "add" /\ Goto(q, "addConn")
    /\ Lock(q)
    /\ UNCHANGED <<role, free, cancelled>>

TakeForCasbin(q) ==
    /\ \/ pc[q] = "removeConn" /\ Goto(q, "removing")
       \/ pc[q] = "addConn" /\ Goto(q, "adding")
    /\ TakeConn
    /\ UNCHANGED <<role, writer, readers, cancelled>>

\* Mutant: a call of Casbin that fails keeps the lock.
PutAfterCasbinLocked(q) ==
    /\ \/ pc[q] = "removing" /\ (Goto(q, "add") \/ Goto(q, "commit"))
       \/ pc[q] = "adding" /\ Goto(q, "commit")
    /\ PutConn
    /\ Unlock \/ UNCHANGED <<writer, readers>>
    /\ UNCHANGED <<role, cancelled>>

\* Both calls may fail; the first failure is logged, and the second one makes
\* the transaction end in a rollback instead of a commit.  Without new policies
\* there is no second call.
PutAfterCasbin(q) ==
    /\ \/ pc[q] = "removing" /\ (Goto(q, "add") \/ Goto(q, "commit"))
       \/ pc[q] = "adding" /\ Goto(q, "commit")
    /\ PutConn
    /\ Unlock
    /\ UNCHANGED <<role, cancelled>>

Commit(q) ==
    /\ pc[q] = "commit"
    /\ EndTx(q, "ok") \/ EndTx(q, "error")
    /\ UNCHANGED <<role, writer, readers, cancelled>>

\* The client goes away.  The transaction is rolled back, with what it waits
\* for; the calls of Casbin know no context and go on without it.
Cancel(q) ==
    /\ Cardinality(cancelled) < MaxCancels
    /\ q \in Active \ cancelled
    /\ cancelled' = cancelled \cup {q}
    /\ \/ pc[q] \notin TxLabels /\ UNCHANGED <<pc, free>>
       \/ pc[q] = "rows" /\ Goto(q, "error") /\ PutConn
       \/ pc[q] \in CasbinLabels /\ PutConn /\ UNCHANGED pc
    /\ UNCHANGED <<role, writer, readers>>

-----------------------------------------------------------------------------
(* The reload: the table under the read lock, the swap under the write lock. *)

Reload ==
    /\ \/ pc[Reloader] = "idle" /\ Goto(Reloader, "load") /\ RLock(Reloader) /\ UNCHANGED free
       \/ pc[Reloader] = "load" /\ Goto(Reloader, "loading") /\ TakeConn
             /\ UNCHANGED <<writer, readers>>
       \/ pc[Reloader] = "loading" /\ Goto(Reloader, "apply") /\ PutConn /\ RUnlock(Reloader)
       \/ pc[Reloader] = "apply" /\ Goto(Reloader, "swap") /\ Lock(Reloader) /\ UNCHANGED free
       \/ pc[Reloader] = "swap" /\ Goto(Reloader, "idle") /\ Unlock /\ UNCHANGED free
    /\ UNCHANGED <<role, cancelled>>

Step(q) ==
    \/ TakeForStatement(q) \/ PutAfterStatement(q) \/ StartEnforce(q) \/ EndEnforce(q)
    \/ Begin(q) \/ LockRows(q) \/ LockEnforcer(q) \/ TakeForCasbin(q)
    \/ PutAfterCasbin(q) \/ Commit(q)

Next == Reload \/ \E q \in Requests : Arrive(q) \/ Step(q) \/ RowsFail(q) \/ Cancel(q)

\* The pool hands a connection that is put back to one that waits, the lock
\* lets waiting writers go before new readers, and PostgreSQL queues lock
\* requests: nobody is overtaken for ever.  Nothing is assumed of failures and of
\* clients that go away.
Spec ==
    /\ Init /\ [][Next]_vars
    /\ SF_vars(Reload)
    /\ \A q \in Requests : SF_vars(Step(q))

-----------------------------------------------------------------------------
(* Properties.                                                             *)

\* The connections x has at its label.
Held(x) ==
    (IF pc[x] \in TxLabels /\ x \notin cancelled THEN 1 ELSE 0)
    + (IF pc[x] \in {"authnRead", "queryRead", "removing", "adding", "loading"} THEN 1 ELSE 0)

SumHeld == Cardinality({x \in Processes : Held(x) >= 1}) + Cardinality({x \in Processes : Held(x) = 2})

\* Every connection is in the pool or with somebody who is using it: no path
\* out of a transaction, of a call of Casbin or of a reload, not even one that
\* a cancelled context cuts short, loses one or gives one back twice.
ConnectionsAccounted == free + SumHeld = Pool

\* The lock belongs to those who are between taking and releasing it.
LockAccounted ==
    /\ \A x \in Processes : writer = x <=> pc[x] \in LockedLabels \cup {"swap"}
    /\ \A x \in Processes : x \in readers <=> pc[x] \in {"enforce", "load", "loading"}

\* All connections are with transactions of AssignPermissionsToRole, and one of
\* these, past its rows, waits for Casbin.
Exhausted ==
    LET inTx == {q \in Requests \ cancelled : pc[q] \in TxLabels} IN
    /\ Cardinality(inTx) = Pool
    /\ \E q \in inTx : pc[q] \in {"remove", "removeConn", "add", "addConn"}

\* What a process waits for at its label.  One that waits can take no step, and
\* one that is in progress and does not wait can take one.
WaitsForConn(x) ==
    /\ free = 0
    /\ \/ pc[x] \in {"authn", "query", "removeConn", "addConn", "load"}
       \/ pc[x] = "begin" /\ x \notin cancelled

WaitsToRead(x) == pc[x] \in {"authz", "idle"} /\ (writer # Nobody \/ WriterWaits)
WaitsToWrite(x) == pc[x] \in {"remove", "add", "apply"} /\ (writer # Nobody \/ readers # {})

WaitsForRows(x) == pc[x] = "rows" /\ RowsLocked(x)

Waits(x) == WaitsForConn(x) \/ WaitsToRead(x) \/ WaitsToWrite(x) \/ WaitsForRows(x)

Stuck == Active # {} /\ \A x \in Active \cup {Reloader} : Waits(x)

\* When every request in progress is stuck, and the reload with them, the
\* reason is the pool.  Locks alone never close a circle, and with fewer
\* assignments than connections nobody is stuck.
StuckMeansExhausted == Stuck => Exhausted

\* Every request is answered, unless the pool is exhausted for ever; in
\* particular, with fewer assignments than connections all of them are.
EveryRequestServed ==
    \A q \in Requests : (q \in Active ~> pc[q] \in Final) \/ <>[]Exhausted
=============================================================================
