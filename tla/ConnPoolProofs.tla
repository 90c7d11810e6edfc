--------------------------- MODULE ConnPoolProofs ---------------------------
(***************************************************************************)
(* Proofs about ConnPool, for any number of requests, roles and             *)
(* connections: no connection is lost or given back twice, and the lock of   *)
(* the enforcer is with those who are between taking and releasing it.       *)
(*                                                                         *)
(* The argument.  Every action moves one process, and moves its share of      *)
(* the pool, 0, 1 or 2 connections, as much as it moves free: SumMoves turns   *)
(* that into a fact about the sum of all shares.  That free stays in 0..Pool    *)
(* follows from the sum, not from a guard of the code.                      *)
(***************************************************************************)
EXTENDS ConnPool, FiniteSetTheorems, TLAPS

\* The reloader and the requests never are at each other's labels.
ReloadLabels == {"idle", "load", "loading", "apply", "swap"}
Separate == \A x \in Processes : pc[x] \in ReloadLabels <=> x = Reloader

IInv == TypeOK /\ Separate /\ LockAccounted /\ ConnectionsAccounted

-----------------------------------------------------------------------------
(* The sum of the shares.                                                  *)

Shares == [x \in Processes |-> Held(x)]
Some(h) == {x \in Processes : h[x] >= 1}
Both(h) == {x \in Processes : h[x] = 2}
Total(h) == Cardinality(Some(h)) + Cardinality(Both(h))

LEMMA ProcessesFinite == IsFiniteSet(Processes)
    <1>1. IsFiniteSet({Reloader})
        BY FS_Singleton
    <1> QED BY <1>1, RequestsAssumption, FS_Union DEF Processes

LEMMA TotalType ==
    ASSUME NEW h
    PROVE  /\ IsFiniteSet(Some(h)) /\ IsFiniteSet(Both(h))
           /\ Cardinality(Some(h)) \in Nat /\ Cardinality(Both(h)) \in Nat
           /\ Total(h) \in Nat
    <1>1. IsFiniteSet(Some(h)) /\ IsFiniteSet(Both(h))
        BY ProcessesFinite, FS_Subset DEF Some, Both
    <1>2. Cardinality(Some(h)) \in Nat /\ Cardinality(Both(h)) \in Nat
        BY <1>1, FS_CardinalityType
    <1> QED BY <1>1, <1>2 DEF Total

\* One process takes one connection more: so do all together.
LEMMA TotalUp ==
    ASSUME NEW h \in [Processes -> 0..2], NEW g \in [Processes -> 0..2],
           NEW x \in Processes, g[x] = h[x] + 1,
           \A y \in Processes : y # x => g[y] = h[y]
    PROVE  Total(g) = Total(h) + 1
    <1>1. CASE h[x] = 0
        <2>1. Some(g) = Some(h) \cup {x} /\ x \notin Some(h) /\ Both(g) = Both(h)
            BY <1>1 DEF Some, Both
        <2>2. Cardinality(Some(g)) = Cardinality(Some(h)) + 1
            BY <2>1, TotalType, FS_AddElement
        <2> QED BY <2>1, <2>2, TotalType DEF Total
    <1>2. CASE h[x] = 1
        <2>1. Both(g) = Both(h) \cup {x} /\ x \notin Both(h) /\ Some(g) = Some(h)
            BY <1>2 DEF Some, Both
        <2>2. Cardinality(Both(g)) = Cardinality(Both(h)) + 1
            BY <2>1, TotalType, FS_AddElement
        <2> QED BY <2>1, <2>2, TotalType DEF Total
    <1>3. h[x] # 2
        BY SMT
    <1> QED BY <1>1, <1>2, <1>3

LEMMA SharesType == Shares \in [Processes -> 0..2] /\ SumHeld = Total(Shares)
    <1>1. \A x \in Processes : Held(x) \in 0..2
        BY DEF Held
    <1>2. Some(Shares) = {x \in Processes : Held(x) >= 1}
        BY DEF Some, Shares
    <1>3. Both(Shares) = {x \in Processes : Held(x) = 2}
        BY DEF Both, Shares
    <1> QED BY <1>1, <1>2, <1>3 DEF Shares, SumHeld, Total

LEMMA SharesTypeNext == Shares' \in [Processes -> 0..2] /\ SumHeld' = Total(Shares')
    <1>1. \A x \in Processes : Held(x)' \in 0..2
        BY DEF Held
    <1>2. Some(Shares') = {x \in Processes : Held(x)' >= 1}
        BY DEF Some, Shares
    <1>3. Both(Shares') = {x \in Processes : Held(x)' = 2}
        BY DEF Both, Shares
    <1> QED BY <1>1, <1>2, <1>3 DEF Shares, SumHeld, Total

\* A step that moves the share of x by d moves the sum by d.
LEMMA SumMoves ==
    ASSUME NEW x \in Processes, NEW d \in {-1, 0, 1}, Held(x)' = Held(x) + d,
           \A y \in Processes : y # x => Held(y)' = Held(y)
    PROVE  SumHeld \in Nat /\ SumHeld' \in Nat /\ SumHeld' = SumHeld + d
    <1> DEFINE h == Shares
               g == Shares'
    <1>1. h \in [Processes -> 0..2] /\ SumHeld = Total(h)
        BY SharesType
    <1>2. g \in [Processes -> 0..2] /\ SumHeld' = Total(g)
        BY SharesTypeNext
    <1>3. g[x] = h[x] + d /\ \A y \in Processes : y # x => g[y] = h[y]
        BY DEF Shares
    <1>4. Total(h) \in Nat /\ Total(g) \in Nat
        BY TotalType
    <1> HIDE DEF h, g
    <1>5. CASE d = 1
        <2>1. Total(g) = Total(h) + 1
            BY <1>1, <1>2, <1>3, <1>5, TotalUp
        <2> QED BY <1>1, <1>2, <1>4, <1>5, <2>1
    <1>6. CASE d = -1
        <2>1. h[x] = g[x] + 1
            BY <1>1, <1>2, <1>3, <1>6
        <2>2. Total(h) = Total(g) + 1
            BY <1>1, <1>2, <1>3, <2>1, TotalUp
        <2> QED BY <1>1, <1>2, <1>4, <1>6, <2>2
    <1>7. CASE d = 0
        <2>1. g = h
            BY <1>1, <1>2, <1>3, <1>7
        <2> QED BY <1>1, <1>2, <1>4, <1>7, <2>1
    <1> QED BY <1>5, <1>6, <1>7

-----------------------------------------------------------------------------
(* The steps.                                                              *)

Labels == Final \cup TxLabels \cup {"new", "authn", "authnRead", "authz", "enforce", "query",
              "queryRead", "begin", "idle", "load", "loading", "apply", "swap"}

\* What holds of the pool after a step that gives x d connections of it.
LEMMA PoolMoves ==
    ASSUME IInv, NEW x \in Processes, NEW d \in {-1, 0, 1},
           free' = free - d, d = 1 => free > 0,
           Held(x)' = Held(x) + d,
           \A y \in Processes : y # x => Held(y)' = Held(y)
    PROVE  free' \in 0..Pool /\ ConnectionsAccounted'
    <1>1. free \in 0..Pool /\ free + SumHeld = Pool /\ Pool \in Nat
        BY PoolAssumption DEF IInv, TypeOK, ConnectionsAccounted
    <1>2. SumHeld \in Nat /\ SumHeld' \in Nat /\ SumHeld' = SumHeld + d
        BY SumMoves
    <1>3. free' + SumHeld' = Pool
        BY <1>1, <1>2
    <1>4. free' \in 0..Pool
        BY <1>1, <1>2, <1>3
    <1> QED BY <1>3, <1>4, PoolAssumption DEF ConnectionsAccounted

\* A process that moves and leaves cancelled alone disturbs no other's share.
LEMMA OthersKeep ==
    ASSUME IInv, NEW x \in Processes, NEW l, Goto(x, l), UNCHANGED cancelled
    PROVE  /\ pc'[x] = l
           /\ \A y \in Processes : y # x => pc'[y] = pc[y] /\ Held(y)' = Held(y)
    <1>1. pc'[x] = l /\ \A y \in Processes : y # x => pc'[y] = pc[y]
        BY DEF IInv, TypeOK, Goto
    <1> QED BY <1>1 DEF Held

\* The part of the invariant that speaks of pc alone.
LEMMA LabelsKeep ==
    ASSUME IInv, NEW x \in Processes, NEW l \in Labels, Goto(x, l),
           l \in ReloadLabels <=> x = Reloader
    PROVE  pc' \in [Processes -> Labels] /\ Separate'
    BY DEF IInv, TypeOK, Goto, Separate, Labels

\* A process that moves and neither takes nor releases the lock.
LEMMA LockKept ==
    ASSUME IInv, NEW x \in Processes, NEW l \in Labels, Goto(x, l), UNCHANGED <<writer, readers>>,
           l \in LockedLabels \cup {"swap"} <=> pc[x] \in LockedLabels \cup {"swap"},
           l \in {"enforce", "load", "loading"} <=> pc[x] \in {"enforce", "load", "loading"}
    PROVE  LockAccounted'
    BY DEF IInv, TypeOK, Goto, LockAccounted

LEMMA LockTaken ==
    ASSUME IInv, NEW x \in Processes, NEW l \in LockedLabels \cup {"swap"}, Goto(x, l), Lock(x)
    PROVE  LockAccounted' /\ writer' \in Processes \cup {Nobody} /\ readers' \in SUBSET Processes
    <1>1. pc'[x] = l /\ \A y \in Processes : y # x => pc'[y] = pc[y]
        BY DEF IInv, TypeOK, Goto
    <1>2. l \notin {"enforce", "load", "loading"}
        BY DEF LockedLabels
    <1>3. \A y \in Processes : pc[y] \notin LockedLabels \cup {"swap"} \cup {"enforce", "load", "loading"}
        BY ReloaderAssumption DEF IInv, LockAccounted, Lock, Processes
    <1> QED BY <1>1, <1>2, <1>3 DEF LockAccounted, Lock, IInv, TypeOK

LEMMA LockReleased ==
    ASSUME IInv, NEW x \in Processes, pc[x] \in LockedLabels \cup {"swap"},
           NEW l \in Labels \ (LockedLabels \cup {"swap", "enforce", "load", "loading"}),
           Goto(x, l), Unlock
    PROVE  LockAccounted' /\ writer' \in Processes \cup {Nobody} /\ readers' \in SUBSET Processes
    <1>1. pc'[x] = l /\ \A y \in Processes : y # x => pc'[y] = pc[y]
        BY DEF IInv, TypeOK, Goto
    <1>2. writer = x /\ x \notin readers
        BY DEF IInv, LockAccounted, LockedLabels
    <1>3. \A y \in Processes : y # x => pc[y] \notin LockedLabels \cup {"swap"}
        BY <1>2 DEF IInv, LockAccounted
    <1>4. \A y \in Processes : y # Nobody
        BY ReloaderAssumption DEF Processes
    <1> QED BY <1>1, <1>2, <1>3, <1>4 DEF LockAccounted, Unlock, IInv, TypeOK

LEMMA ReadTaken ==
    ASSUME IInv, NEW x \in Processes, NEW l \in {"enforce", "load"}, Goto(x, l), RLock(x)
    PROVE  LockAccounted' /\ writer' \in Processes \cup {Nobody} /\ readers' \in SUBSET Processes
    <1>1. pc'[x] = l /\ \A y \in Processes : y # x => pc'[y] = pc[y]
        BY DEF IInv, TypeOK, Goto
    <1>2. l \notin LockedLabels \cup {"swap"}
        BY DEF LockedLabels
    <1>3. \A y \in Processes : y # Nobody
        BY ReloaderAssumption DEF Processes
    <1> QED BY <1>1, <1>2, <1>3 DEF LockAccounted, RLock, IInv, TypeOK

LEMMA ReadReleased ==
    ASSUME IInv, NEW x \in Processes, pc[x] \in {"enforce", "loading"},
           NEW l \in Labels \ (LockedLabels \cup {"swap", "enforce", "load", "loading"}),
           Goto(x, l), RUnlock(x)
    PROVE  LockAccounted' /\ writer' \in Processes \cup {Nobody} /\ readers' \in SUBSET Processes
    <1>1. pc'[x] = l /\ \A y \in Processes : y # x => pc'[y] = pc[y]
        BY DEF IInv, TypeOK, Goto
    <1>2. writer # x
        BY DEF IInv, LockAccounted, LockedLabels
    <1> QED BY <1>1, <1>2 DEF LockAccounted, RUnlock, IInv, TypeOK

\* What a step has to show.
LEMMA Together ==
    ASSUME IInv, pc' \in [Processes -> Labels], Separate', free' \in 0..Pool,
           ConnectionsAccounted', LockAccounted', UNCHANGED role, cancelled' \in SUBSET Requests,
           writer' \in Processes \cup {Nobody}, readers' \in SUBSET Processes
    PROVE  IInv'
    BY DEF IInv, TypeOK, Labels

\* A step of x to l that moves d connections and leaves cancelled alone.
LEMMA StepKeeps ==
    ASSUME IInv, NEW x \in Processes, NEW l \in Labels, NEW d \in {-1, 0, 1}, Goto(x, l),
           l \in ReloadLabels <=> x = Reloader,
           free' = free - d, d = 1 => free > 0, Held(x)' = Held(x) + d,
           LockAccounted', UNCHANGED <<role, cancelled>>,
           writer' \in Processes \cup {Nobody}, readers' \in SUBSET Processes
    PROVE  IInv'
    <1>1. \A y \in Processes : y # x => Held(y)' = Held(y)
        BY OthersKeep
    <1>2. free' \in 0..Pool /\ ConnectionsAccounted'
        BY <1>1, PoolMoves
    <1>3. pc' \in [Processes -> Labels] /\ Separate'
        BY LabelsKeep
    <1>4. cancelled' \in SUBSET Requests
        BY DEF IInv, TypeOK
    <1> QED BY <1>2, <1>3, <1>4, Together

\* The same where the lock is left alone, too.
LEMMA QuietStepKeeps ==
    ASSUME IInv, NEW x \in Processes, NEW l \in Labels, NEW d \in {-1, 0, 1}, Goto(x, l),
           l \in ReloadLabels <=> x = Reloader,
           free' = free - d, d = 1 => free > 0, Held(x)' = Held(x) + d,
           UNCHANGED <<role, writer, readers, cancelled>>,
           l \in LockedLabels \cup {"swap"} <=> pc[x] \in LockedLabels \cup {"swap"},
           l \in {"enforce", "load", "loading"} <=> pc[x] \in {"enforce", "load", "loading"}
    PROVE  IInv'
    <1>1. LockAccounted'
        BY LockKept
    <1>2. writer' \in Processes \cup {Nobody} /\ readers' \in SUBSET Processes
        BY DEF IInv, TypeOK
    <1> QED BY <1>1, <1>2, StepKeeps

-----------------------------------------------------------------------------
(* The actions.                                                            *)

LEMMA Moved ==
    ASSUME IInv, NEW x \in Processes, NEW l, Goto(x, l)
    PROVE  pc'[x] = l
    BY DEF IInv, TypeOK, Goto

LEMMA RequestFacts ==
    ASSUME IInv, NEW q \in Requests
    PROVE  /\ q \in Processes /\ q # Reloader /\ q # Nobody
           /\ pc[q] \in Labels \ ReloadLabels
    BY ReloaderAssumption DEF IInv, TypeOK, Separate, Processes, Labels

LEMMA FreeInt == IInv => free \in Int
    BY DEF IInv, TypeOK

LEMMA StatementsKeep ==
    ASSUME IInv, NEW q \in Requests,
           Arrive(q) \/ TakeForStatement(q) \/ PutAfterStatement(q)
    PROVE  IInv'
    <1> USE RequestFacts, FreeInt, Moved
           DEF Held, Labels, Final, TxLabels, CasbinLabels, LockedLabels, ReloadLabels
    <1>1. CASE Arrive(q)
        BY <1>1, QuietStepKeeps DEF Arrive
    <1>2. CASE TakeForStatement(q)
        <2>1. CASE pc[q] = "authn" /\ Goto(q, "authnRead")
            BY <1>2, <2>1, QuietStepKeeps DEF TakeForStatement, TakeConn
        <2>2. CASE pc[q] = "query" /\ Goto(q, "queryRead")
            BY <1>2, <2>2, QuietStepKeeps DEF TakeForStatement, TakeConn
        <2> QED BY <1>2, <2>1, <2>2 DEF TakeForStatement
    <1>3. CASE PutAfterStatement(q)
        <2>1. PICK l \in {"authz", "begin", "ok", "error"} : Goto(q, l)
            BY <1>3 DEF PutAfterStatement
        <2>2. pc[q] \in {"authnRead", "queryRead"}
            BY <1>3 DEF PutAfterStatement
        <2> QED BY <1>3, <2>1, <2>2, QuietStepKeeps DEF PutAfterStatement, PutConn
    <1> QED BY <1>1, <1>2, <1>3

LEMMA EnforceKeeps ==
    ASSUME IInv, NEW q \in Requests, StartEnforce(q) \/ EndEnforce(q)
    PROVE  IInv'
    <1> USE RequestFacts, FreeInt, Moved
           DEF Held, Labels, Final, TxLabels, CasbinLabels, LockedLabels, ReloadLabels
    <1>1. CASE StartEnforce(q)
        <2>1. LockAccounted' /\ writer' \in Processes \cup {Nobody} /\ readers' \in SUBSET Processes
            BY <1>1, ReadTaken DEF StartEnforce
        <2> QED BY <1>1, <2>1, StepKeeps DEF StartEnforce
    <1>2. CASE EndEnforce(q)
        <2>1. PICK l \in {"query", "error"} : Goto(q, l)
            BY <1>2 DEF EndEnforce
        <2>2. LockAccounted' /\ writer' \in Processes \cup {Nobody} /\ readers' \in SUBSET Processes
            BY <1>2, <2>1, ReadReleased DEF EndEnforce
        <2> QED BY <1>2, <2>1, <2>2, StepKeeps DEF EndEnforce
    <1> QED BY <1>1, <1>2

\* However a transaction ends, its connection is given back once.
LEMMA EndTxKeeps ==
    ASSUME IInv, NEW q \in Requests, pc[q] \in {"rows", "commit"},
           NEW answer \in Final, EndTx(q, answer), UNCHANGED <<role, writer, readers, cancelled>>
    PROVE  IInv'
    <1> USE RequestFacts, FreeInt, Moved
           DEF Held, Labels, Final, TxLabels, CasbinLabels, LockedLabels, ReloadLabels
    <1>1. PICK l \in Final : Goto(q, l)
        BY DEF EndTx
    <1>2. CASE q \in cancelled
        BY <1>1, <1>2, QuietStepKeeps DEF EndTx
    <1>3. CASE q \notin cancelled
        BY <1>1, <1>3, QuietStepKeeps DEF EndTx, PutConn
    <1> QED BY <1>2, <1>3

LEMMA TransactionKeeps ==
    ASSUME IInv, NEW q \in Requests,
           Begin(q) \/ LockRows(q) \/ RowsFail(q) \/ Commit(q)
    PROVE  IInv'
    <1> USE RequestFacts, FreeInt, Moved
           DEF Held, Labels, Final, TxLabels, CasbinLabels, LockedLabels, ReloadLabels
    <1>1. CASE Begin(q)
        <2>1. CASE q \in cancelled
            BY <1>1, <2>1, QuietStepKeeps DEF Begin
        <2>2. CASE q \notin cancelled
            BY <1>1, <2>2, QuietStepKeeps DEF Begin, TakeConn
        <2> QED BY <2>1, <2>2
    <1>2. CASE LockRows(q)
        BY <1>2, QuietStepKeeps DEF LockRows
    <1>3. CASE RowsFail(q)
        BY <1>3, EndTxKeeps DEF RowsFail
    <1>4. CASE Commit(q)
        BY <1>4, EndTxKeeps DEF Commit
    <1> QED BY <1>1, <1>2, <1>3, <1>4

LEMMA CasbinKeeps ==
    ASSUME IInv, NEW q \in Requests, LockEnforcer(q) \/ TakeForCasbin(q) \/ PutAfterCasbin(q)
    PROVE  IInv'
    <1> USE RequestFacts, FreeInt, Moved
           DEF Held, Labels, Final, TxLabels, CasbinLabels, LockedLabels, ReloadLabels
    <1>1. CASE LockEnforcer(q)
        <2>1. PICK l \in {"removeConn", "addConn"} : Goto(q, l)
            BY <1>1 DEF LockEnforcer
        <2>2. pc[q] \in {"remove", "add"}
            BY <1>1 DEF LockEnforcer
        <2>3. LockAccounted' /\ writer' \in Processes \cup {Nobody} /\ readers' \in SUBSET Processes
            BY <1>1, <2>1, LockTaken DEF LockEnforcer
        <2> QED BY <1>1, <2>1, <2>2, <2>3, StepKeeps DEF LockEnforcer
    <1>2. CASE TakeForCasbin(q)
        <2>1. PICK l \in {"removing", "adding"} : Goto(q, l)
            BY <1>2 DEF TakeForCasbin
        <2>2. pc[q] \in {"removeConn", "addConn"}
            BY <1>2 DEF TakeForCasbin
        <2> QED BY <1>2, <2>1, <2>2, QuietStepKeeps DEF TakeForCasbin, TakeConn
    <1>3. CASE PutAfterCasbin(q)
        <2>1. PICK l \in {"add", "commit"} : Goto(q, l)
            BY <1>3 DEF PutAfterCasbin
        <2>2. pc[q] \in {"removing", "adding"}
            BY <1>3 DEF PutAfterCasbin
        <2>3. LockAccounted' /\ writer' \in Processes \cup {Nobody} /\ readers' \in SUBSET Processes
            BY <1>3, <2>1, <2>2, LockReleased DEF PutAfterCasbin
        <2> QED BY <1>3, <2>1, <2>2, <2>3, StepKeeps DEF PutAfterCasbin, PutConn
    <1> QED BY <1>1, <1>2, <1>3

\* The client of a transaction takes the connection of the transaction away,
\* and leaves the one that Casbin has.
LEMMA CancelKeeps ==
    ASSUME IInv, NEW q \in Requests, Cancel(q)
    PROVE  IInv'
    <1>1. \A y \in Processes : y # q => Held(y)' = Held(y)
        <2>1. \A y \in Processes : y # q => pc'[y] = pc[y] /\ (y \in cancelled' <=> y \in cancelled)
            BY DEF Cancel, Goto, IInv, TypeOK
        <2> QED BY <2>1 DEF Held
    <1>2. q \in cancelled' /\ q \notin cancelled /\ cancelled' \in SUBSET Requests
        BY DEF Cancel, IInv, TypeOK
    <1>3. UNCHANGED <<role, writer, readers>> /\ writer' \in Processes \cup {Nobody}
          /\ readers' \in SUBSET Processes
        BY DEF Cancel, IInv, TypeOK
    <1> USE RequestFacts, FreeInt, Moved
           DEF Held, Labels, Final, TxLabels, CasbinLabels, LockedLabels, ReloadLabels
    <1>4. CASE pc[q] = "rows"
        <2>1. Goto(q, "error") /\ free' = free + 1
            BY <1>4 DEF Cancel, PutConn
        <2>2. free' \in 0..Pool /\ ConnectionsAccounted'
            BY <1>1, <1>2, <1>4, <2>1, PoolMoves
        <2>3. pc' \in [Processes -> Labels] /\ Separate' /\ LockAccounted'
            BY <1>3, <1>4, <2>1, LabelsKeep, LockKept
        <2> QED BY <1>2, <1>3, <2>2, <2>3, Together
    <1>5. CASE pc[q] # "rows"
        <2>1. /\ UNCHANGED pc
              /\ IF pc[q] \in TxLabels THEN free' = free + 1 ELSE free' = free
            BY <1>5 DEF Cancel, PutConn
        <2>2. free' \in 0..Pool /\ ConnectionsAccounted'
            <3>1. CASE pc[q] \in TxLabels
                BY <1>1, <1>2, <1>5, <2>1, <3>1, PoolMoves
            <3>2. CASE pc[q] \notin TxLabels
                BY <1>1, <1>2, <1>5, <2>1, <3>2, PoolMoves
            <3> QED BY <3>1, <3>2
        <2>3. pc' \in [Processes -> Labels] /\ Separate' /\ LockAccounted'
            BY <1>3, <2>1 DEF IInv, TypeOK, Separate, LockAccounted
        <2> QED BY <1>2, <1>3, <2>2, <2>3, Together
    <1> QED BY <1>4, <1>5

LEMMA ReloadKeeps ==
    ASSUME IInv, Reload
    PROVE  IInv'
    <1> DEFINE R == Reloader
    <1>1. R \in Processes /\ R \notin cancelled /\ pc[R] \in ReloadLabels /\ free \in Int
        BY ReloaderAssumption DEF IInv, TypeOK, Separate, Processes
    <1> USE <1>1, Moved
           DEF Held, Labels, Final, TxLabels, CasbinLabels, LockedLabels, ReloadLabels
    <1>2. CASE pc[R] = "idle"
        <2>1. Goto(R, "load") /\ RLock(R) /\ UNCHANGED <<free, role, cancelled>>
            BY <1>2 DEF Reload
        <2>2. LockAccounted' /\ writer' \in Processes \cup {Nobody} /\ readers' \in SUBSET Processes
            BY <2>1, ReadTaken
        <2> QED BY <1>2, <2>1, <2>2, StepKeeps
    <1>3. CASE pc[R] = "load"
        <2>1. Goto(R, "loading") /\ TakeConn /\ UNCHANGED <<role, writer, readers, cancelled>>
            BY <1>3 DEF Reload
        <2> QED BY <1>3, <2>1, QuietStepKeeps DEF TakeConn
    <1>4. CASE pc[R] = "loading"
        <2>1. Goto(R, "apply") /\ PutConn /\ RUnlock(R) /\ UNCHANGED <<role, cancelled>>
            BY <1>4 DEF Reload
        <2>2. LockAccounted' /\ writer' \in Processes \cup {Nobody} /\ readers' \in SUBSET Processes
            BY <1>4, <2>1, ReadReleased
        <2> QED BY <1>4, <2>1, <2>2, StepKeeps DEF PutConn
    <1>5. CASE pc[R] = "apply"
        <2>1. Goto(R, "swap") /\ Lock(R) /\ UNCHANGED <<free, role, cancelled>>
            BY <1>5 DEF Reload
        <2>2. LockAccounted' /\ writer' \in Processes \cup {Nobody} /\ readers' \in SUBSET Processes
            BY <2>1, LockTaken
        <2> QED BY <1>5, <2>1, <2>2, StepKeeps
    <1>6. CASE pc[R] = "swap"
        <2>1. Goto(R, "idle") /\ Unlock /\ UNCHANGED <<free, role, cancelled>>
            BY <1>6 DEF Reload
        <2>2. LockAccounted' /\ writer' \in Processes \cup {Nobody} /\ readers' \in SUBSET Processes
            BY <1>6, <2>1, LockReleased
        <2> QED BY <1>6, <2>1, <2>2, StepKeeps
    <1> QED BY <1>2, <1>3, <1>4, <1>5, <1>6

-----------------------------------------------------------------------------
(* The theorems.                                                           *)

LEMMA InitKeeps == Init => IInv
    <1> SUFFICES ASSUME Init PROVE IInv
        OBVIOUS
    <1>1. \A x \in Processes : pc[x] = IF x = Reloader THEN "idle" ELSE "new"
        BY DEF Init
    <1>2. TypeOK
        BY PoolAssumption DEF Init, TypeOK, Final
    <1>3. Separate
        BY <1>1 DEF Separate, ReloadLabels
    <1>4. LockAccounted
        BY <1>1, ReloaderAssumption DEF Init, LockAccounted, LockedLabels, Processes
    <1>5. SumHeld = 0
        <2>1. \A x \in Processes : Held(x) = 0
            BY <1>1 DEF Held, TxLabels, CasbinLabels
        <2>2. {x \in Processes : Held(x) >= 1} = {} /\ {x \in Processes : Held(x) = 2} = {}
            BY <2>1
        <2> QED BY <2>2, FS_EmptySet DEF SumHeld
    <1>6. ConnectionsAccounted
        BY <1>5, PoolAssumption DEF Init, ConnectionsAccounted
    <1> QED BY <1>2, <1>3, <1>4, <1>6 DEF IInv

LEMMA StutterKeeps ==
    ASSUME IInv, UNCHANGED vars
    PROVE  IInv'
    <1>1. \A x : Held(x)' = Held(x)
        BY DEF vars, Held
    <1>2. SumHeld' = SumHeld
        BY <1>1 DEF SumHeld
    <1> QED BY <1>2 DEF vars, IInv, TypeOK, Separate, LockAccounted, ConnectionsAccounted

LEMMA NextKeeps == IInv /\ [Next]_vars => IInv'
    <1> SUFFICES ASSUME IInv, [Next]_vars PROVE IInv'
        OBVIOUS
    <1>1. CASE Reload
        BY <1>1, ReloadKeeps
    <1>2. CASE \E q \in Requests : Arrive(q) \/ Step(q) \/ RowsFail(q) \/ Cancel(q)
        <2>1. PICK q \in Requests : Arrive(q) \/ Step(q) \/ RowsFail(q) \/ Cancel(q)
            BY <1>2
        <2>2. CASE Arrive(q) \/ TakeForStatement(q) \/ PutAfterStatement(q)
            BY <2>2, StatementsKeep
        <2>3. CASE StartEnforce(q) \/ EndEnforce(q)
            BY <2>3, EnforceKeeps
        <2>4. CASE Begin(q) \/ LockRows(q) \/ RowsFail(q) \/ Commit(q)
            BY <2>4, TransactionKeeps
        <2>5. CASE LockEnforcer(q) \/ TakeForCasbin(q) \/ PutAfterCasbin(q)
            BY <2>5, CasbinKeeps
        <2>6. CASE Cancel(q)
            BY <2>6, CancelKeeps
        <2> QED BY <2>1, <2>2, <2>3, <2>4, <2>5, <2>6 DEF Step
    <1>3. CASE UNCHANGED vars
        BY <1>3, StutterKeeps
    <1> QED BY <1>1, <1>2, <1>3 DEF Next

\* The inductive invariant, from which the others follow.
THEOREM PoolInvariant == Spec => []IInv
    <1> QED BY InitKeeps, NextKeeps, PTL DEF Spec

\* The pool never holds more than MaxOpenConns connections nor less than none.
THEOREM PoolTyped == Spec => []TypeOK
    <1>1. IInv => TypeOK
        BY DEF IInv
    <1> QED BY <1>1, PoolInvariant, PTL

\* For any number of requests, assignments, cancelled contexts and connections:
\* none of the ways out of a transaction, a call of Casbin, a statement or a
\* reload loses a connection or gives one back twice.
THEOREM NoConnectionLost == Spec => []ConnectionsAccounted
    <1>1. IInv => ConnectionsAccounted
        BY DEF IInv
    <1> QED BY <1>1, PoolInvariant, PTL

\* The lock of the SyncedEnforcer is with those, and only those, who are
\* between taking and releasing it.
THEOREM LockIsReleased == Spec => []LockAccounted
    <1>1. IInv => LockAccounted
        BY DEF IInv
    <1> QED BY <1>1, PoolInvariant, PTL

-----------------------------------------------------------------------------
(* Who waits for whom.                                                     *)

\* Waits is no mere name: a request that waits takes no step of its own, and
\* neither does the reload.
LEMMA WaitingStops ==
    ASSUME IInv, NEW x \in Processes, Waits(x)
    PROVE  (x \in Requests => ~Step(x)) /\ (x = Reloader => ~Reload)
    <1> USE DEF Waits, WaitsForConn, WaitsToRead, WaitsToWrite, WaitsForRows
    <1>1. ASSUME x \in Requests PROVE ~Step(x)
        <2>1. ~TakeForStatement(x) /\ ~PutAfterStatement(x)
            BY DEF TakeForStatement, PutAfterStatement, TakeConn
        <2>2. ~StartEnforce(x) /\ ~EndEnforce(x)
            BY DEF StartEnforce, EndEnforce, RLock
        <2>3. ~Begin(x) /\ ~LockRows(x) /\ ~Commit(x)
            BY DEF Begin, TakeConn, LockRows, Commit
        <2>4. ~LockEnforcer(x) /\ ~TakeForCasbin(x) /\ ~PutAfterCasbin(x)
            BY DEF LockEnforcer, Lock, TakeForCasbin, TakeConn, PutAfterCasbin
        <2> QED BY <2>1, <2>2, <2>3, <2>4 DEF Step
    <1>2. ASSUME x = Reloader PROVE ~Reload
        BY <1>2 DEF Reload, RLock, Lock, TakeConn
    <1> QED BY <1>1, <1>2

\* Everybody at a label other than "new", "ok" and "error" waits.
LEMMA AllWait ==
    ASSUME IInv, Stuck, NEW x \in Processes, pc[x] \notin Final \cup {"new"}
    PROVE  Waits(x)
    BY DEF Stuck, Active, Processes

\* Of those who hold a lock or a connection of their own statement, none waits
\* but at the connection of Casbin and of the reload.
LEMMA LabelsOfWaiting ==
    ASSUME NEW x, Waits(x)
    PROVE  pc[x] \notin {"authnRead", "queryRead", "removing", "adding", "loading", "enforce",
                         "swap", "commit"}
    BY DEF Waits, WaitsForConn, WaitsToRead, WaitsToWrite, WaitsForRows

\* With a connection to spare the locks are free, and a writer that waits, or
\* else the reload, goes on.
LEMMA StuckMeansNoneFree ==
    ASSUME IInv, Stuck
    PROVE  free = 0
    <1> SUFFICES ASSUME free # 0 PROVE FALSE
        OBVIOUS
    <1>1. \A x \in Processes : pc[x] \notin LockedLabels \cup {"swap", "enforce", "load", "loading"}
        <2> SUFFICES ASSUME NEW x \in Processes,
                            pc[x] \in LockedLabels \cup {"swap", "enforce", "load", "loading"}
                     PROVE  FALSE
            OBVIOUS
        <2>1. Waits(x)
            BY AllWait DEF LockedLabels, Final
        <2> QED BY <2>1 DEF Waits, WaitsForConn, WaitsToRead, WaitsToWrite, WaitsForRows, LockedLabels
    <1>2. writer = Nobody /\ readers = {}
        BY <1>1 DEF IInv, TypeOK, LockAccounted
    <1>3. \A x \in Processes : pc[x] \notin {"remove", "add", "apply"}
        <2> SUFFICES ASSUME NEW x \in Processes, pc[x] \in {"remove", "add", "apply"} PROVE FALSE
            OBVIOUS
        <2>1. Waits(x)
            BY AllWait DEF Final
        <2> QED BY <1>2, <2>1 DEF Waits, WaitsForConn, WaitsToRead, WaitsToWrite, WaitsForRows
    <1>4. ~WriterWaits
        BY <1>3 DEF WriterWaits
    <1>5. Reloader \in Processes /\ pc[Reloader] \in ReloadLabels /\ Waits(Reloader)
        BY DEF IInv, Separate, Processes, Stuck
    <1> QED BY <1>1, <1>2, <1>3, <1>4, <1>5
            DEF Waits, WaitsForConn, WaitsToRead, WaitsToWrite, WaitsForRows, ReloadLabels

\* Nobody who waits has a connection but that of its transaction.
LEMMA StuckMeansPoolInTx ==
    ASSUME IInv, Stuck
    PROVE  Cardinality({q \in Requests \ cancelled : pc[q] \in TxLabels}) = Pool
    <1> DEFINE inTx == {q \in Requests \ cancelled : pc[q] \in TxLabels}
    <1>1. ASSUME NEW x \in Processes
          PROVE  Held(x) = IF x \in inTx THEN 1 ELSE 0
        <2>1. pc[x] \notin {"authnRead", "queryRead", "removing", "adding", "loading"}
            BY AllWait, LabelsOfWaiting DEF Final
        <2>2. pc[x] \in TxLabels => x \in Requests
            BY DEF IInv, Separate, Processes, ReloadLabels, TxLabels, CasbinLabels
        <2> QED BY <2>1, <2>2 DEF Held
    <1>2. inTx \subseteq Processes
        BY DEF Processes
    <1>3. {x \in Processes : Held(x) >= 1} = inTx /\ {x \in Processes : Held(x) = 2} = {}
        <2> HIDE DEF inTx
        <2> QED BY <1>1, <1>2
    <1>4. SumHeld = Cardinality(inTx) + 0 /\ Cardinality(inTx) \in Nat
        <2>1. IsFiniteSet(inTx)
            BY <1>2, ProcessesFinite, FS_Subset
        <2> QED BY <1>3, <2>1, FS_EmptySet, FS_CardinalityType DEF SumHeld
    <1>5. free = 0
        BY StuckMeansNoneFree
    <1> HIDE DEF inTx
    <1>6. Cardinality(inTx) = Pool
        BY <1>4, <1>5, PoolAssumption DEF IInv, ConnectionsAccounted
    <1> QED BY <1>6 DEF inTx

LEMMA StuckIsExhausted ==
    ASSUME IInv, Stuck
    PROVE  Exhausted
    <1> DEFINE inTx == {q \in Requests \ cancelled : pc[q] \in TxLabels}
    <1>1. Cardinality(inTx) = Pool
        BY StuckMeansPoolInTx
    <1>2. inTx # {}
        BY <1>1, FS_EmptySet, PoolAssumption
    <1>3. PICK q \in inTx : TRUE
        BY <1>2
    <1>4. \A x \in inTx : Waits(x) /\ pc[x] \notin {"removing", "adding", "commit"}
        BY AllWait, LabelsOfWaiting DEF Processes, Final, TxLabels, CasbinLabels
    <1>5. \E x \in inTx : pc[x] \in CasbinLabels
        <2>1. CASE pc[q] = "rows"
            <3>1. WaitsForRows(q)
                BY <1>3, <1>4, <2>1 DEF Waits, WaitsForConn, WaitsToRead, WaitsToWrite
            <3> QED BY <3>1, AssignersAssumption DEF WaitsForRows, RowsLocked, TxLabels
        <2>2. CASE pc[q] # "rows"
            BY <1>3, <2>2 DEF TxLabels
        <2> QED BY <2>1, <2>2
    <1>6. \E x \in inTx : pc[x] \in {"remove", "removeConn", "add", "addConn"}
        BY <1>4, <1>5 DEF CasbinLabels
    <1> QED BY <1>1, <1>6 DEF Exhausted

\* Requests of one server never stop each other for good by the enforcer's lock
\* or by row locks alone: when none of them can go on, every connection of the
\* pool is with a transaction of AssignPermissionsToRole that waits for Casbin
\* or for one that does.
THEOREM OnlyThePoolStops == Spec => []StuckMeansExhausted
    <1>1. IInv => StuckMeansExhausted
        BY StuckIsExhausted DEF StuckMeansExhausted
    <1> QED BY <1>1, PoolInvariant, PTL
=============================================================================
