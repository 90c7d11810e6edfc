----------------------------- MODULE TreesProofs -----------------------------
(***************************************************************************)
(* What overlapping creations, updates and deletions can do to a tree, for *)
(* any IDs, requests and failures.                                         *)
(***************************************************************************)
EXTENDS Trees, TLAPS

LEMMA TreesInit == Init => IInv
<1> SUFFICES ASSUME Init PROVE IInv
  OBVIOUS
<1> USE DEF Init
<1>1. TypeOK
  BY DEF TypeOK, NoRequest, Request, Parents
<1>2. KnownIDs
  BY DEF KnownIDs, NoRequest
<1>3. DeletionsHarmless /\ ClearUntilOvertaken
  BY DEF DeletionsHarmless, ClearUntilOvertaken
<1>4. OrphansExplained
  BY DEF OrphansExplained, Orphans
<1>5. CyclesExplained
  BY DEF CyclesExplained
<1>6. PermissionsFounded
  BY DEF PermissionsFounded
<1> QED
  BY <1>1, <1>2, <1>3, <1>4, <1>5, <1>6 DEF IInv

-----------------------------------------------------------------------------
\* Steps that leave the rows alone: the request that steps reaches no DELETE
\* and no Save by it.
LEMMA QuietKeepsInv ==
  ASSUME IInv, TypeOK', KnownIDs', NEW r \in Requests,
         UNCHANGED <<table, live, parent, used, strays, bent>>,
         \A q \in Requests \ {r} : pc'[q] = pc[q] /\ rq'[q] = rq[q],
         pc'[r] \notin {"save", "delete"}
  PROVE  IInv'
<1> USE DEF IInv
<1>1. DeletionsHarmless'
  BY DEF DeletionsHarmless, Children
<1>2. OrphansExplained' /\ CyclesExplained'
  BY DEF OrphansExplained, Orphans, CyclesExplained
<1>3. ClearUntilOvertaken'
  BY DEF ClearUntilOvertaken, Clear, Upward
<1>4. PermissionsFounded'
  <2> SUFFICES ASSUME table = "permission", NEW A \in SUBSET used, A # {}
               PROVE  \E m \in A :
                        /\ parent[m] \notin A
                        /\ \A q \in Requests : pc'[q] = "save" /\ rq'[q].node = m => rq'[q].to \notin A
    BY DEF PermissionsFounded
  <2>1. PICK m \in A : /\ parent[m] \notin A
                       /\ \A q \in Requests : pc[q] = "save" /\ rq[q].node = m => rq[q].to \notin A
    BY DEF PermissionsFounded
  <2> QED
    BY <2>1
<1> QED
  BY <1>1, <1>2, <1>3, <1>4

LEMMA EndTyped ==
  ASSUME TypeOK, NEW r \in Requests, End(r)
  PROVE  /\ pc' \in [Requests -> {"idle", "check", "insert", "get", "save", "children", "delete", "done"}]
         /\ rq' \in [Requests -> Request]
         /\ pc'[r] = "done" /\ rq'[r] = NoRequest
         /\ \A q \in Requests \ {r} : pc'[q] = pc[q] /\ rq'[q] = rq[q]
BY DEF TypeOK, End, Goto, NoRequest, Request, Parents

LEMMA ReceiveKeepsInv ==
  ASSUME IInv, NEW r \in Requests, Receive(r)
  PROVE  IInv'
<1> USE DEF IInv
<1>1. pc'[r] \notin {"save", "delete"} /\ \A q \in Requests \ {r} : pc'[q] = pc[q] /\ rq'[q] = rq[q]
  BY DEF Receive, Goto, TypeOK
<1>2. UNCHANGED <<table, live, parent, used, faults, strays, bent>>
  BY DEF Receive
<1>3. rq[r] \in Request /\ used \subseteq Nodes
  BY DEF TypeOK
<1>4. CASE \E to \in used \cup {NoNode} :
              rq' = [rq EXCEPT ![r].to = to] /\ pc' = [pc EXCEPT ![r] = "check"]
  <2>1. PICK to \in used \cup {NoNode} :
              rq' = [rq EXCEPT ![r].to = to] /\ pc' = [pc EXCEPT ![r] = "check"]
    BY <1>4
  <2>2. rq'[r] = [rq[r] EXCEPT !.to = to] /\ pc'[r] = "check"
    BY <2>1 DEF TypeOK
  <2>3. TypeOK'
    BY <1>2, <1>3, <2>1 DEF TypeOK, Request, Parents
  <2>4. KnownIDs'
    BY <1>1, <1>2, <1>3, <2>2 DEF KnownIDs, Request
  <2> QED
    BY <1>1, <1>2, <2>3, <2>4, QuietKeepsInv
<1>5. CASE \E node \in used, to \in used \cup {Keep} :
              /\ table = "permission" => to = Keep
              /\ rq' = [rq EXCEPT ![r].node = node, ![r].to = to]
              /\ pc' = [pc EXCEPT ![r] = "get"]
  <2>1. PICK node \in used, to \in used \cup {Keep} :
              /\ table = "permission" => to = Keep
              /\ rq' = [rq EXCEPT ![r].node = node, ![r].to = to]
              /\ pc' = [pc EXCEPT ![r] = "get"]
    BY <1>5
  <2>2. rq'[r] = [rq[r] EXCEPT !.node = node, !.to = to] /\ pc'[r] = "get"
    BY <2>1 DEF TypeOK
  <2>3. rq'[r].node = node /\ rq'[r].to = to
    BY <2>2, <1>3 DEF Request
  <2>5. TypeOK'
    BY <1>2, <1>3, <2>1 DEF TypeOK, Request, Parents
  <2>4. KnownIDs'
    <3>1. /\ pc'[r] = "get" /\ rq'[r].node \in used
          /\ rq'[r].to \in used \cup {Keep} /\ (table = "permission" => rq'[r].to = Keep)
      BY <2>1, <2>2, <2>3
    <3>2. ASSUME NEW q \in Requests, q # r PROVE pc'[q] = pc[q] /\ rq'[q] = rq[q]
      BY <1>1, <3>2
    <3> QED
      BY <1>2, <3>1, <3>2 DEF KnownIDs
  <2> QED
    BY <1>1, <1>2, <2>4, <2>5, QuietKeepsInv
<1>6. CASE \E node \in used :
              rq' = [rq EXCEPT ![r].node = node] /\ pc' = [pc EXCEPT ![r] = "children"]
  <2>1. PICK node \in used :
              rq' = [rq EXCEPT ![r].node = node] /\ pc' = [pc EXCEPT ![r] = "children"]
    BY <1>6
  <2>2. rq'[r] = [rq[r] EXCEPT !.node = node] /\ pc'[r] = "children"
    BY <2>1 DEF TypeOK
  <2>3. TypeOK'
    BY <1>2, <1>3, <2>1 DEF TypeOK, Request, Parents
  <2>4. KnownIDs'
    BY <1>1, <1>2, <1>3, <2>2 DEF KnownIDs, Request
  <2> QED
    BY <1>1, <1>2, <2>3, <2>4, QuietKeepsInv
<1> QED
  BY <1>4, <1>5, <1>6 DEF Receive, Goto

LEMMA FailsKeepsInv ==
  ASSUME IInv, NEW r \in Requests, Fails(r) \/ Refuse(r)
  PROVE  IInv'
<1> USE DEF IInv, Fails, Refuse
<1>1. pc'[r] = "done" /\ \A q \in Requests \ {r} : pc'[q] = pc[q] /\ rq'[q] = rq[q]
  BY EndTyped
<1>2. TypeOK'
  BY EndTyped DEF TypeOK, Fault
<1>3. KnownIDs'
  BY <1>1 DEF KnownIDs
<1> QED
  BY <1>1, <1>2, <1>3, QuietKeepsInv

LEMMA CreateKeepsInv ==
  ASSUME IInv, NEW r \in Requests, Create(r)
  PROVE  IInv'
<1> USE DEF IInv, Create, Goto
<1>1. pc'[r] = "insert" /\ \A q \in Requests \ {r} : pc'[q] = pc[q] /\ rq'[q] = rq[q]
  BY DEF TypeOK
<1>2. TypeOK'
  BY DEF TypeOK
<1>3. KnownIDs'
  BY <1>1 DEF KnownIDs, TypeOK
<1> QED
  BY <1>1, <1>2, <1>3, QuietKeepsInv

-----------------------------------------------------------------------------
\* Update: what is saved later was clear of the row when it was read.
LEMMA UpdateKeepsInv ==
  ASSUME IInv, NEW r \in Requests, Update(r)
  PROVE  IInv'
<1> DEFINE n == rq[r].node
           p == IF rq[r].to = Keep THEN parent[n] ELSE rq[r].to
<1> USE DEF IInv
<1>1. CASE n \notin live
  <2>1. End(r) /\ UNCHANGED <<table, live, parent, used, faults, strays, bent>>
    BY <1>1 DEF Update
  <2>2. TypeOK'
    BY <2>1, EndTyped DEF TypeOK
  <2>3. KnownIDs'
    BY <2>1, EndTyped DEF KnownIDs
  <2> QED
    BY <2>1, <2>2, <2>3, EndTyped, QuietKeepsInv
<1>2. CASE n \in live
  <2>1. /\ pc[r] = "get" /\ pc' = [pc EXCEPT ![r] = "save"]
        /\ rq' = [rq EXCEPT ![r].to = p, ![r].clear = (p = NoNode \/ Clear(p, n))]
        /\ UNCHANGED <<table, live, parent, used, faults, strays, bent>>
    BY <1>2 DEF Update, Goto
  <2>2. n \in used /\ p \in used \cup {NoNode} /\ p \in Parents
    BY <2>1 DEF KnownIDs, TypeOK, Parents
  <2>3. /\ rq'[r] = [rq[r] EXCEPT !.to = p, !.clear = (p = NoNode \/ Clear(p, n))]
        /\ pc'[r] = "save"
        /\ \A q \in Requests \ {r} : pc'[q] = pc[q] /\ rq'[q] = rq[q]
    BY <2>1 DEF TypeOK
  <2>4. rq[r] \in Request /\ rq'[r].node = n /\ rq'[r].to = p
        /\ rq'[r].clear = (p = NoNode \/ Clear(p, n))
    BY <2>3 DEF TypeOK, Request
  <2>5. TypeOK'
    <3>1. (p = NoNode \/ Clear(p, n)) \in BOOLEAN
      BY DEF Clear
    <3>2. rq' \in [Requests -> Request]
      <4>1. rq'[r] \in Request
        BY <2>2, <2>3, <2>4, <3>1 DEF Request
      <4> HIDE DEF p
      <4> QED
        BY <2>1, <4>1 DEF TypeOK
    <3> QED
      BY <2>1, <3>2 DEF TypeOK
  <2>6. KnownIDs'
    <3> HIDE DEF p
    <3>1. ASSUME NEW q \in Requests
          PROVE  /\ pc'[q] \in {"get", "save", "children", "delete"} => rq'[q].node \in used
                 /\ pc'[q] \in {"check", "insert", "save"} => rq'[q].to \in used \cup {NoNode}
                 /\ pc'[q] = "get" => rq'[q].to \in used \cup {Keep} /\ (table = "permission" => rq'[q].to = Keep)
      <4>1. CASE q = r
        BY <4>1, <2>2, <2>3, <2>4
      <4>2. CASE q # r
        BY <4>2, <2>3 DEF KnownIDs
      <4> QED
        BY <4>1, <4>2
    <3> QED
      BY <2>1, <3>1 DEF KnownIDs
  <2>7. DeletionsHarmless'
    BY <2>1, <2>3 DEF DeletionsHarmless, Children
  <2>8. OrphansExplained' /\ CyclesExplained'
    BY <2>1 DEF OrphansExplained, Orphans, CyclesExplained
  <2>9. ClearUntilOvertaken'
    <3> SUFFICES ASSUME NEW q \in Requests,
                        pc'[q] = "save", rq'[q].clear, ~rq'[q].overtaken
                 PROVE  (rq[q].to = NoNode \/ Clear(rq[q].to, rq[q].node))'
      BY DEF ClearUntilOvertaken
    <3>1. (Clear(rq[q].to, rq[q].node))' <=> Clear(rq'[q].to, rq'[q].node)
      BY <2>1 DEF Clear, Upward
    <3>2. CASE q = r
      <4> HIDE DEF p
      <4> QED
        BY <2>4, <3>1, <3>2
    <3>3. CASE q # r
      BY <2>3, <3>1, <3>3 DEF ClearUntilOvertaken
    <3> QED
      BY <3>2, <3>3
  <2>10. PermissionsFounded'
    <3> SUFFICES ASSUME table = "permission", NEW A \in SUBSET used, A # {}
                 PROVE  \E m \in A :
                          /\ parent[m] \notin A
                          /\ \A q \in Requests : pc'[q] = "save" /\ rq'[q].node = m => rq'[q].to \notin A
      BY <2>1 DEF PermissionsFounded
    <3>1. PICK m \in A : /\ parent[m] \notin A
                         /\ \A q \in Requests : pc[q] = "save" /\ rq[q].node = m => rq[q].to \notin A
      BY DEF PermissionsFounded
    <3>2. p = parent[n]
      BY <2>1 DEF KnownIDs
    <3>3. ASSUME NEW q \in Requests, pc'[q] = "save", rq'[q].node = m PROVE rq'[q].to \notin A
      <4>1. CASE q = r
        <5>1. rq'[q].to = parent[m]
          BY <4>1, <3>2, <3>3, <2>4
        <5> QED
          BY <5>1, <3>1
      <4>2. CASE q # r
        BY <4>2, <3>3, <3>1, <2>3
      <4> QED
        BY <4>1, <4>2
    <3> QED
      BY <3>1, <3>3
  <2> QED
    BY <2>5, <2>6, <2>7, <2>8, <2>9, <2>10
<1> QED
  BY <1>1, <1>2

\* Delete: either there are no children or those that are there are noted.
LEMMA DeleteKeepsInv ==
  ASSUME IInv, NEW r \in Requests, Delete(r)
  PROVE  IInv'
<1> DEFINE n == rq[r].node
<1> USE DEF IInv
<1>1. CASE End(r) /\ UNCHANGED <<faults, strays>>
  <2>1. TypeOK'
    BY <1>1, EndTyped DEF Delete, TypeOK
  <2>2. KnownIDs'
    BY <1>1, EndTyped DEF Delete, KnownIDs
  <2> QED
    BY <1>1, <2>1, <2>2, EndTyped, QuietKeepsInv DEF Delete
<1>2. CASE Goto(r, "delete") /\ UNCHANGED rq /\ strays \subseteq strays' /\ strays' \subseteq Nodes
           /\ Children(n) \subseteq strays' /\ faults' \in Nat
  <2>1. /\ pc[r] = "children" /\ pc'[r] = "delete" /\ UNCHANGED <<table, live, parent, used, rq, bent>>
        /\ \A q \in Requests \ {r} : pc'[q] = pc[q]
    BY <1>2 DEF Delete, Goto, TypeOK
  <2>2. TypeOK'
    BY <1>2, <2>1 DEF TypeOK, Goto
  <2>3. KnownIDs'
    BY <2>1 DEF KnownIDs
  <2>4. DeletionsHarmless'
    BY <1>2, <2>1 DEF DeletionsHarmless, Children
  <2>5. OrphansExplained' /\ CyclesExplained'
    BY <1>2, <2>1 DEF OrphansExplained, Orphans, CyclesExplained
  <2>6. ClearUntilOvertaken'
    BY <2>1 DEF ClearUntilOvertaken, Clear, Upward
  <2>7. PermissionsFounded'
    BY <2>1 DEF PermissionsFounded
  <2> QED
    BY <2>2, <2>3, <2>4, <2>5, <2>6, <2>7
<1>3. Children(n) \subseteq Nodes
  BY DEF Children, TypeOK
<1> QED
  BY <1>1, <1>2, <1>3 DEF Delete, Fault, TypeOK
-----------------------------------------------------------------------------
\* The row n comes to hang below p: no deletion and no orphan is left
\* unexplained.
LEMMA AttachKeeps ==
  ASSUME IInv, NEW n \in Nodes, NEW p \in Parents, ForeignKeyHolds(n, p), Attach(n, p),
         table' = table, n \in used', used \subseteq used',
         NEW r \in Requests, End(r)
  PROVE  /\ live' \subseteq used' /\ parent' \in [Nodes -> Parents] /\ strays' \subseteq Nodes
         /\ DeletionsHarmless' /\ OrphansExplained'
<1> USE DEF IInv, Attach
<1>1. live' \subseteq used' /\ parent' \in [Nodes -> Parents] /\ strays' \subseteq Nodes
  BY DEF TypeOK, Parents
<1>2. parent'[n] = p /\ \A m \in Nodes \ {n} : parent'[m] = parent[m]
  BY DEF TypeOK
<1>3. \A q \in Requests : pc'[q] = "delete" => pc[q] = "delete" /\ rq'[q] = rq[q]
  BY EndTyped
<1>4. live \subseteq Nodes
  BY DEF TypeOK
<1>5. DeletionsHarmless'
  <2> SUFFICES ASSUME NEW q \in Requests, pc'[q] = "delete", NEW m \in Children(rq[q].node)'
               PROVE  m \in strays'
    BY DEF DeletionsHarmless
  <2>1. m \in live' /\ parent'[m] = rq[q].node /\ pc[q] = "delete" /\ rq[q].node \in Nodes
    BY <1>3 DEF Children, KnownIDs, TypeOK
  <2>2. CASE m = n
    BY <1>2, <2>1, <2>2, NodesAssumption DEF BeingDeleted
  <2>3. CASE m # n
    BY <1>2, <1>4, <2>1, <2>3 DEF DeletionsHarmless, Children
  <2> QED
    BY <2>2, <2>3
<1>6. OrphansExplained'
  <2>1. ASSUME NEW m \in Orphans' PROVE m \in strays' /\ table # "menu"
    <3>1. m \in live' /\ parent'[m] \notin live' \cup {NoNode}
      BY DEF Orphans
    <3>2. CASE m = n
      BY <1>2, <3>1, <3>2 DEF ForeignKeyHolds
    <3>3. CASE m # n
      BY <1>2, <1>4, <3>1, <3>3 DEF OrphansExplained, Orphans
    <3> QED
      BY <3>2, <3>3
  <2> QED
    BY <2>1 DEF OrphansExplained
<1> QED
  BY <1>1, <1>5, <1>6

\* Insert: a new row has no children, so it is on no cycle.
LEMMA InsertKeepsInv ==
  ASSUME IInv, NEW r \in Requests, Insert(r)
  PROVE  IInv'
<1> DEFINE p == rq[r].to
<1> USE DEF IInv
<1>0. pc[r] = "insert" /\ End(r) /\ UNCHANGED <<table, faults>> /\ p \in used \cup {NoNode} /\ p \in Parents
  BY DEF Insert, KnownIDs, TypeOK, Parents
<1>1. CASE UNCHANGED <<live, parent, used, strays, bent>>
  <2>1. TypeOK'
    BY <1>0, <1>1, EndTyped DEF TypeOK
  <2>2. KnownIDs'
    BY <1>0, <1>1, EndTyped DEF KnownIDs
  <2> QED
    BY <1>0, <1>1, <2>1, <2>2, EndTyped, QuietKeepsInv
<1>2. CASE \E n \in Nodes \ used : /\ ForeignKeyHolds(n, p) /\ Attach(n, p)
                                 /\ used' = used \cup {n} /\ bent' = bent \ {n}
  <2>1. PICK n \in Nodes \ used : /\ ForeignKeyHolds(n, p) /\ Attach(n, p)
                                /\ used' = used \cup {n} /\ bent' = bent \ {n}
    BY <1>2
  <2>2. /\ live' \subseteq used' /\ parent' \in [Nodes -> Parents] /\ strays' \subseteq Nodes
        /\ DeletionsHarmless' /\ OrphansExplained'
    BY <1>0, <2>1, AttachKeeps
  <2>3. /\ live' = live \cup {n} /\ parent'[n] = p /\ n \notin live
        /\ \A m \in Nodes \ {n} : parent'[m] = parent[m]
    BY <2>1 DEF Attach, TypeOK
  <2>4. TypeOK'
    BY <1>0, <2>1, <2>2, EndTyped DEF TypeOK
  <2>5. KnownIDs'
    BY <1>0, <2>1, <2>3, EndTyped DEF KnownIDs
  <2>6. ASSUME NEW A \in SUBSET used', A # {}, \A m \in A : parent'[m] \in A
        PROVE  A \ {n} # {} /\ A \ {n} \in SUBSET used /\ \A m \in A \ {n} : parent[m] \in A \ {n}
    <3>1. \A m \in A : m # n => parent[m] \in A /\ parent[m] # n
      BY <2>1, <2>3, <2>6, NodesAssumption DEF KnownIDs, TypeOK
    <3>2. n \in A => p \in A /\ p # n
      BY <1>0, <2>1, <2>3, <2>6, NodesAssumption
    <3> QED
      BY <2>1, <2>6, <3>1, <3>2
  <2>7. CyclesExplained'
    <3> SUFFICES ASSUME NEW A \in SUBSET live', A # {}, \A m \in A : parent'[m] \in A
                 PROVE  table = "menu" /\ A \cap bent' # {}
      BY <1>0 DEF CyclesExplained
    <3>1. A \in SUBSET used'
      BY <2>2
    <3>2. /\ A \ {n} # {} /\ A \ {n} \in SUBSET live
          /\ \A m \in A \ {n} : parent[m] \in A \ {n}
      BY <3>1, <2>3, <2>6
    <3> QED
      BY <3>2, <2>1 DEF CyclesExplained
  <2>8. ClearUntilOvertaken'
    <3> SUFFICES ASSUME NEW q \in Requests, pc'[q] = "save", rq'[q].clear, ~rq'[q].overtaken
                 PROVE  (rq[q].to = NoNode \/ Clear(rq[q].to, rq[q].node))'
      BY DEF ClearUntilOvertaken
    <3>1. pc[q] = "save" /\ rq'[q] = rq[q]
      BY <1>0, EndTyped
    <3>2. CASE rq[q].to = NoNode
      BY <3>1, <3>2
    <3>3. CASE Clear(rq[q].to, rq[q].node)
      <4>1. PICK A \in SUBSET used : rq[q].to \in A /\ rq[q].node \notin A /\ Upward(A)
        BY <3>3 DEF Clear
      <4>2. A \in SUBSET used' /\ Upward(A)'
        BY <2>1, <2>3, <4>1 DEF Upward, TypeOK
      <4> QED
        BY <3>1, <4>1, <4>2 DEF Clear
    <3> QED
      BY <3>1, <3>2, <3>3 DEF ClearUntilOvertaken
  <2>9. PermissionsFounded'
    <3> SUFFICES ASSUME table = "permission", NEW A \in SUBSET used', A # {}
                 PROVE  \E m \in A :
                          /\ parent'[m] \notin A
                          /\ \A q \in Requests : pc'[q] = "save" /\ rq'[q].node = m => rq'[q].to \notin A
      BY <1>0 DEF PermissionsFounded
    <3>0. \A q \in Requests : pc'[q] = "save" =>
              pc[q] = "save" /\ rq'[q] = rq[q] /\ rq[q].node \in used /\ rq[q].to \in used \cup {NoNode}
      BY <1>0, EndTyped DEF KnownIDs
    <3>1. CASE A \ {n} = {}
      BY <1>0, <2>1, <2>3, <3>0, <3>1, NodesAssumption
    <3>2. CASE A \ {n} # {}
      <4>1. PICK m \in A \ {n} :
              /\ parent[m] \notin A \ {n}
              /\ \A q \in Requests : pc[q] = "save" /\ rq[q].node = m => rq[q].to \notin A \ {n}
        BY <2>1, <3>2 DEF PermissionsFounded
      <4>2. parent'[m] = parent[m] /\ parent[m] # n
        BY <2>1, <2>3, NodesAssumption DEF KnownIDs, TypeOK
      <4>3. \A q \in Requests : pc'[q] = "save" => rq'[q].to # n
        BY <2>1, <3>0, NodesAssumption
      <4> QED
        BY <3>0, <4>1, <4>2, <4>3
    <3> QED
      BY <3>1, <3>2
  <2> QED
    BY <2>2, <2>4, <2>5, <2>7, <2>8, <2>9
<1> QED
  BY <1>1, <1>2 DEF Insert

\* Save: on a cycle it closes, the row that was saved is bent, or the cycle
\* was there without it.
LEMMA SaveKeepsInv ==
  ASSUME IInv, NEW r \in Requests, Save(r)
  PROVE  IInv'
<1> DEFINE n == rq[r].node
           p == rq[r].to
           moves == n \notin live \/ parent[n] # p
<1> USE DEF IInv
<1>0. /\ pc[r] = "save" /\ pc' = [pc EXCEPT ![r] = "done"] /\ UNCHANGED <<table, used, faults>>
      /\ n \in used /\ n \in Nodes /\ p \in used \cup {NoNode} /\ p \in Parents
  BY DEF Save, Goto, KnownIDs, TypeOK, Parents
<1>1. CASE rq' = [rq EXCEPT ![r] = NoRequest] /\ UNCHANGED <<live, parent, strays, bent>>
  <2>0. End(r)
    BY <1>0, <1>1 DEF End, Goto
  <2>1. TypeOK'
    BY <1>0, <1>1, <2>0, EndTyped DEF TypeOK
  <2>2. KnownIDs'
    BY <1>0, <1>1, <2>0, EndTyped DEF KnownIDs
  <2> QED
    BY <1>0, <1>1, <2>0, <2>1, <2>2, EndTyped, QuietKeepsInv
<1>2. CASE /\ ForeignKeyHolds(n, p) /\ Attach(n, p)
           /\ bent' = IF rq[r].clear /\ ~rq[r].overtaken THEN bent \ {n} ELSE bent \cup {n}
           /\ rq' = [q \in Requests |-> IF q = r THEN NoRequest
                                        ELSE [rq[q] EXCEPT !.overtaken = @ \/ (pc[q] = "save" /\ moves)]]
  <2>1. /\ live' = live \cup {n} /\ parent'[n] = p
        /\ \A m \in Nodes \ {n} : parent'[m] = parent[m]
    BY <1>0, <1>2 DEF Attach, TypeOK
  <2>2. pc'[r] = "done" /\ rq'[r] = NoRequest /\ \A q \in Requests \ {r} : pc'[q] = pc[q]
    BY <1>0, <1>2 DEF TypeOK
  <2>3. ASSUME NEW q \in Requests, q # r
        PROVE  /\ rq'[q] \in Request /\ rq'[q].node = rq[q].node /\ rq'[q].to = rq[q].to
               /\ rq'[q].clear = rq[q].clear
               /\ rq'[q].overtaken <=> (rq[q].overtaken \/ (pc[q] = "save" /\ moves))
    <3>1. rq'[q] = [rq[q] EXCEPT !.overtaken = @ \/ (pc[q] = "save" /\ moves)]
      BY <1>2, <2>3
    <3>2. rq[q] \in Request /\ (rq[q].overtaken \/ (pc[q] = "save" /\ moves)) \in BOOLEAN
      BY DEF TypeOK, Request
    <3> HIDE DEF moves
    <3> QED
      BY <3>1, <3>2 DEF Request
  <2>4. rq' \in [Requests -> Request]
    <3>1. NoRequest \in Request
      BY DEF NoRequest, Request, Parents
    <3>2. \A q \in Requests : rq'[q] \in Request
      BY <2>2, <2>3, <3>1
    <3> HIDE DEF moves
    <3> QED
      BY <1>2, <3>2
  <2>5. live' \subseteq used /\ parent' \in [Nodes -> Parents] /\ strays' \subseteq Nodes
    BY <1>0, <1>2 DEF Attach, TypeOK, Parents
  <2>6. TypeOK'
    BY <1>0, <1>2, <2>4, <2>5 DEF TypeOK
  <2>7. KnownIDs'
    <3>1. \A m \in Nodes : parent'[m] \in used \cup {NoNode} /\ (m \notin live' => parent'[m] = NoNode)
      BY <1>0, <2>1 DEF KnownIDs
    <3> QED
      BY <1>0, <2>2, <2>3, <3>1 DEF KnownIDs
  <2>8. DeletionsHarmless'
    <3> SUFFICES ASSUME NEW q \in Requests, pc'[q] = "delete", NEW m \in Children(rq[q].node)'
                 PROVE  m \in strays'
      BY DEF DeletionsHarmless
    <3>0. q # r /\ pc[q] = "delete" /\ rq'[q].node = rq[q].node
      BY <2>2, <2>3
    <3>1. m \in live' /\ parent'[m] = rq[q].node /\ rq[q].node \in Nodes
      BY <3>0 DEF Children, KnownIDs, TypeOK
    <3>2. CASE m = n
      BY <1>2, <2>1, <3>0, <3>1, <3>2, NodesAssumption DEF BeingDeleted, Attach
    <3>3. CASE m # n
      <4>1. m \in live /\ parent[m] = rq[q].node
        BY <2>1, <3>1, <3>3 DEF TypeOK
      <4>2. m \in strays
        BY <4>1, <3>0 DEF DeletionsHarmless, Children
      <4> QED
        BY <1>2, <3>3, <4>2 DEF Attach
    <3> QED
      BY <3>2, <3>3
  <2>9. OrphansExplained'
    <3>1. ASSUME NEW m \in Orphans' PROVE m \in strays' /\ table # "menu"
      <4>1. m \in live' /\ parent'[m] \notin live' \cup {NoNode}
        BY DEF Orphans
      <4>2. CASE m = n
        BY <1>2, <2>1, <4>1, <4>2 DEF ForeignKeyHolds, Attach
      <4>3. CASE m # n
        <5>1. m \in Orphans
          BY <2>1, <4>1, <4>3 DEF Orphans, TypeOK
        <5> QED
          BY <1>2, <4>3, <5>1 DEF OrphansExplained, Attach
      <4> QED
        BY <4>2, <4>3
    <3> QED
      BY <1>0, <3>1 DEF OrphansExplained
  <2>10. PermissionsFounded'
    <3> SUFFICES ASSUME table = "permission", NEW A \in SUBSET used, A # {}
                 PROVE  \E m \in A :
                          /\ parent'[m] \notin A
                          /\ \A q \in Requests : pc'[q] = "save" /\ rq'[q].node = m => rq'[q].to \notin A
      BY <1>0 DEF PermissionsFounded
    <3>1. PICK m \in A : /\ parent[m] \notin A
                         /\ \A q \in Requests : pc[q] = "save" /\ rq[q].node = m => rq[q].to \notin A
      BY DEF PermissionsFounded
    <3>2. parent'[m] \notin A
      BY <1>0, <2>1, <3>1 DEF TypeOK
    <3>3. \A q \in Requests : pc'[q] = "save" /\ rq'[q].node = m => rq'[q].to \notin A
      BY <2>2, <2>3, <3>1
    <3> QED
      BY <3>2, <3>3
  <2>11. CyclesExplained'
    <3> SUFFICES ASSUME NEW A \in SUBSET live', A # {}, \A m \in A : parent'[m] \in A
                 PROVE  table = "menu" /\ A \cap bent' # {}
      BY <1>0 DEF CyclesExplained
    <3>1. table = "menu"
      <4>1. CASE table = "permission"
        <5>1. A \in SUBSET used'
          BY <1>0, <2>5
        <5> QED
          BY <1>0, <2>10, <4>1, <5>1 DEF PermissionsFounded
      <4> QED
        BY <4>1 DEF TypeOK
    <3>2. CASE n \in A /\ ~(rq[r].clear /\ ~rq[r].overtaken)
      BY <1>2, <3>1, <3>2
    <3>3. CASE n \in A /\ rq[r].clear /\ ~rq[r].overtaken
      <4>1. p \in A /\ p # NoNode
        BY <1>0, <2>1, <2>5, <3>3, NodesAssumption DEF TypeOK
      <4>2. PICK B \in SUBSET used : p \in B /\ n \notin B /\ Upward(B)
        BY <1>0, <3>3, <4>1 DEF ClearUntilOvertaken, Clear
      <4>3. A \cap B \in SUBSET live /\ A \cap B # {}
        BY <2>1, <4>1, <4>2
      <4>4. \A m \in A \cap B : parent[m] \in A \cap B
        <5> SUFFICES ASSUME NEW m \in A \cap B PROVE parent[m] \in A \cap B
          OBVIOUS
        <5>1. m # n /\ m \in live /\ m \in Nodes
          BY <2>1, <4>2, <4>3 DEF TypeOK
        <5>2. parent[m] \in A
          BY <2>1, <5>1
        <5>3. parent[m] \in B \cup {NoNode} /\ parent[m] # NoNode
          BY <2>5, <4>2, <5>1, <5>2, NodesAssumption DEF Upward, TypeOK
        <5> QED
          BY <5>2, <5>3
      <4>5. A \cap B \cap bent # {}
        BY <4>3, <4>4 DEF CyclesExplained
      <4> QED
        BY <1>2, <3>1, <3>3, <4>2, <4>5
    <3>4. CASE n \notin A
      <4>1. A \in SUBSET live /\ \A m \in A : parent[m] \in A
        BY <2>1, <3>4 DEF TypeOK
      <4>2. A \cap bent # {}
        BY <4>1 DEF CyclesExplained
      <4> QED
        BY <1>2, <3>1, <3>4, <4>2
    <3> QED
      BY <3>2, <3>3, <3>4
  <2>12. ClearUntilOvertaken'
    <3> SUFFICES ASSUME NEW q \in Requests, pc'[q] = "save", rq'[q].clear, ~rq'[q].overtaken
                 PROVE  (rq[q].to = NoNode \/ Clear(rq[q].to, rq[q].node))'
      BY DEF ClearUntilOvertaken
    <3>1. q # r /\ pc[q] = "save" /\ rq[q].clear /\ ~rq[q].overtaken /\ ~moves
          /\ rq'[q].node = rq[q].node /\ rq'[q].to = rq[q].to
      BY <2>2, <2>3
    <3>2. live' = live /\ parent' = parent
      BY <1>2, <3>1, <2>1, <2>5 DEF Attach, TypeOK
    <3>3. (Clear(rq[q].to, rq[q].node))' <=> Clear(rq[q].to, rq[q].node)
      BY <1>0, <3>1, <3>2 DEF Clear, Upward
    <3> QED
      BY <3>1, <3>3 DEF ClearUntilOvertaken
  <2> QED
    BY <2>6, <2>7, <2>8, <2>9, <2>10, <2>11, <2>12
<1> QED
  BY <1>1, <1>2 DEF Save

-----------------------------------------------------------------------------
\* What hangs below a row that goes by cascade goes as well.
LEMMA SubtreeClosed ==
  ASSUME IInv, NEW n \in Nodes, NEW m \in live, parent[m] \in Subtree(n)
  PROVE  m \in Subtree(n)
<1> SUFFICES ASSUME NEW A \in SUBSET used, m \in A, n \notin A, Upward(A) PROVE FALSE
  BY DEF Subtree, Clear
<1>1. parent[m] \in Nodes /\ ~Clear(parent[m], n)
  BY DEF Subtree, IInv, TypeOK
<1>2. parent[m] \in A
  BY <1>1, NodesAssumption DEF Upward
<1> QED
  BY <1>1, <1>2 DEF Clear

\* A row below n hangs at or below a child of n.
LEMMA BelowSomeChild ==
  ASSUME IInv, NEW n \in Nodes, NEW m \in Subtree(n), m # n
  PROVE  \E c \in Children(n) : ~Clear(m, c)
<1> SUFFICES ASSUME \A c \in Children(n) : Clear(m, c) PROVE FALSE
  OBVIOUS
<1> DEFINE Above == {x \in used : ~Clear(m, x)}
           B == Above \ {n}
<1>1. m \in live /\ m \in used /\ ~Clear(m, n)
  BY DEF Subtree, IInv, TypeOK
<1>2. m \in B
  BY <1>1 DEF Clear
<1>3. ASSUME NEW x \in B \cap live PROVE parent[x] \in B \cup {NoNode}
  <2>1. parent[x] \in used \cup {NoNode}
    BY DEF IInv, KnownIDs, TypeOK
  <2>2. CASE parent[x] = n
    BY <2>2 DEF Children
  <2>3. CASE parent[x] # n /\ parent[x] # NoNode
    <3>1. ~Clear(m, parent[x])
      <4> SUFFICES ASSUME NEW A \in SUBSET used, m \in A, parent[x] \notin A, Upward(A) PROVE FALSE
        BY DEF Clear
      <4>1. x \notin A
        BY <2>3 DEF Upward
      <4> QED
        BY <4>1 DEF Clear
    <3> QED
      BY <2>1, <2>3, <3>1
  <2> QED
    BY <2>2, <2>3
<1>4. B \in SUBSET used /\ n \notin B /\ Upward(B)
  BY <1>3 DEF Upward
<1> HIDE DEF B
<1> QED
  BY <1>1, <1>2, <1>4 DEF Clear

LEMMA DeleteRowKeepsInv ==
  ASSUME IInv, NEW r \in Requests, DeleteRow(r)
  PROVE  IInv'
<1> DEFINE n == rq[r].node
           gone == Taken(n)
<1> USE DEF IInv
<1>0. /\ pc[r] = "delete" /\ End(r) /\ live' = live \ gone
      /\ parent' = [m \in Nodes |-> IF m \in gone THEN NoNode ELSE parent[m]]
      /\ strays' = strays \ gone /\ bent' = bent \ gone /\ UNCHANGED <<table, used, faults>>
      /\ n \in Nodes
  BY DEF DeleteRow, KnownIDs, TypeOK
<1>1. gone \subseteq live
  BY DEF Taken, Subtree
<1> HIDE DEF gone
<1>2. \A m \in live' : m \in live /\ m \in Nodes /\ m \notin gone /\ parent'[m] = parent[m]
  BY <1>0 DEF TypeOK
<1>3. \A q \in Requests : pc'[q] # "done" => pc'[q] = pc[q] /\ rq'[q] = rq[q]
  BY <1>0, EndTyped
<1>4. TypeOK'
  <2>1. parent' \in [Nodes -> Parents]
    BY <1>0 DEF TypeOK, Parents
  <2> QED
    BY <1>0, <2>1, EndTyped DEF TypeOK
<1>5. KnownIDs'
  <2>1. \A m \in Nodes : parent'[m] \in used \cup {NoNode} /\ (m \notin live' => parent'[m] = NoNode)
    BY <1>0 DEF KnownIDs
  <2> QED
    BY <1>0, <1>3, <2>1 DEF KnownIDs
<1>6. DeletionsHarmless'
  <2> SUFFICES ASSUME NEW q \in Requests, pc'[q] = "delete", NEW m \in Children(rq[q].node)'
               PROVE  m \in strays'
    BY DEF DeletionsHarmless
  <2>1. m \in live' /\ parent'[m] = rq[q].node /\ pc[q] = "delete"
    BY <1>3 DEF Children
  <2> QED
    BY <1>0, <1>2, <2>1 DEF DeletionsHarmless, Children
<1>7. OrphansExplained'
  <2>1. ASSUME NEW m \in Orphans' PROVE m \in strays' /\ table # "menu"
    <3>1. m \in live /\ m \notin gone /\ parent[m] # NoNode /\ parent[m] \notin live \ gone
      BY <1>0, <1>2 DEF Orphans
    <3>2. CASE parent[m] \notin live
      BY <1>0, <3>1, <3>2 DEF OrphansExplained, Orphans
    <3>3. CASE parent[m] \in gone
      <4>1. n \in live
        BY <3>3 DEF gone, Taken
      <4>2. table # "menu"
        BY <3>1, <3>3, <4>1, <1>0, SubtreeClosed DEF gone, Taken
      <4>3. parent[m] = n
        BY <3>3, <4>1, <4>2 DEF gone, Taken
      <4> QED
        BY <1>0, <3>1, <4>2, <4>3 DEF DeletionsHarmless, Children
    <3> QED
      BY <3>1, <3>2, <3>3
  <2> QED
    BY <1>0, <2>1 DEF OrphansExplained
<1>8. CyclesExplained'
  <2> SUFFICES ASSUME NEW A \in SUBSET live', A # {}, \A m \in A : parent'[m] \in A
               PROVE  table = "menu" /\ A \cap bent' # {}
    BY <1>0 DEF CyclesExplained
  <2>1. A \in SUBSET live /\ \A m \in A : m \notin gone /\ parent[m] \in A
    BY <1>2
  <2> QED
    BY <1>0, <2>1 DEF CyclesExplained
<1>9. ClearUntilOvertaken'
  <2> SUFFICES ASSUME NEW q \in Requests, pc'[q] = "save", rq'[q].clear, ~rq'[q].overtaken
               PROVE  (rq[q].to = NoNode \/ Clear(rq[q].to, rq[q].node))'
    BY DEF ClearUntilOvertaken
  <2>1. pc[q] = "save" /\ rq'[q] = rq[q]
    BY <1>3
  <2>2. CASE Clear(rq[q].to, rq[q].node)
    <3>1. PICK A \in SUBSET used : rq[q].to \in A /\ rq[q].node \notin A /\ Upward(A)
      BY <2>2 DEF Clear
    <3>2. Upward(A)'
      BY <1>2, <3>1 DEF Upward
    <3> QED
      BY <1>0, <2>1, <3>1, <3>2 DEF Clear
  <2> QED
    BY <2>1, <2>2 DEF ClearUntilOvertaken
<1>10. PermissionsFounded'
  <2> SUFFICES ASSUME table = "permission", NEW A \in SUBSET used, A # {}
               PROVE  \E m \in A :
                        /\ parent'[m] \notin A
                        /\ \A q \in Requests : pc'[q] = "save" /\ rq'[q].node = m => rq'[q].to \notin A
    BY <1>0 DEF PermissionsFounded
  <2>1. PICK m \in A : /\ parent[m] \notin A
                       /\ \A q \in Requests : pc[q] = "save" /\ rq[q].node = m => rq[q].to \notin A
    BY DEF PermissionsFounded
  <2>2. parent'[m] \notin A
    BY <1>0, <2>1, NodesAssumption DEF TypeOK
  <2>3. \A q \in Requests : pc'[q] = "save" /\ rq'[q].node = m => rq'[q].to \notin A
    BY <1>3, <2>1
  <2> QED
    BY <2>2, <2>3
<1> QED
  BY <1>4, <1>5, <1>6, <1>7, <1>8, <1>9, <1>10

LEMMA TreesStep == IInv /\ [Next]_vars => IInv'
<1> SUFFICES ASSUME IInv, [Next]_vars PROVE IInv'
  OBVIOUS
<1>1. CASE Next
  BY <1>1, ReceiveKeepsInv, FailsKeepsInv, CreateKeepsInv, InsertKeepsInv, UpdateKeepsInv,
     SaveKeepsInv, DeleteKeepsInv, DeleteRowKeepsInv DEF Next
<1>2. CASE UNCHANGED vars
  BY <1>2 DEF vars, IInv, TypeOK, KnownIDs, DeletionsHarmless, Children, OrphansExplained, Orphans,
     CyclesExplained, ClearUntilOvertaken, Clear, Upward, PermissionsFounded
<1> QED
  BY <1>1, <1>2

\* The inductive invariant holds.
THEOREM TreesInvariant == Spec => []IInv
  BY TreesInit, TreesStep, PTL DEF Spec

\* Rows, requests and the history have their types.
THEOREM TreesTyped == Spec => []TypeOK
<1>1. IInv => TypeOK
  BY DEF IInv
<1> QED
  BY <1>1, TreesInvariant, PTL

\* A deletion that found no children (menu/delete.go, permission/delete.go)
\* meets only children that came since.
THEOREM DeletionsMeetLatecomers == Spec => []DeletionsHarmless
<1>1. IInv => DeletionsHarmless
  BY DEF IInv
<1> QED
  BY <1>1, TreesInvariant, PTL

\* Only a row attached to what was gone or about to go is without its parent,
\* and no menu is.
THEOREM OrphansAreStrays == Spec => []OrphansExplained
<1>1. IInv => OrphansExplained
  BY DEF IInv
<1> QED
  BY <1>1, TreesInvariant, PTL

\* Cycles come from updates of menus that ask for one or are overtaken;
\* permissions (UpdatePermissionRequest has no parent) never form one.
THEOREM CyclesAreBent == Spec => []CyclesExplained
<1>1. IInv => CyclesExplained
  BY DEF IInv
<1> QED
  BY <1>1, TreesInvariant, PTL

\* The cascade of menu_parent_id_fkey takes, besides the row a request names,
\* only what hangs below rows that came after the look-up.
THEOREM CascadeIsOfLatecomers == Spec => OnlyLatecomersCascade
<1>1. ASSUME IInv, [Next]_vars PROVE CascadeTakesLatecomers \/ UNCHANGED vars
  <2> SUFFICES ASSUME NEW n \in live \ live', Next
               PROVE  \E r \in Requests :
                        /\ pc[r] = "delete" /\ pc'[r] = "done"
                        /\ n # rq[r].node => \E m \in strays \cap Children(rq[r].node) : ~Clear(n, m)
    BY <1>1 DEF CascadeTakesLatecomers, vars
  <2>1. PICK r \in Requests : DeleteRow(r)
    <3>1. PICK r \in Requests :
            \/ Receive(r) \/ Fails(r) \/ Create(r) \/ Refuse(r) \/ Insert(r)
            \/ Update(r) \/ Save(r) \/ Delete(r) \/ DeleteRow(r)
      BY DEF Next
    <3> QED
      BY <3>1 DEF Receive, Fails, Create, Refuse, Insert, Update, Save, Delete, Attach
  <2>2. pc[r] = "delete" /\ pc'[r] = "done" /\ n \in Taken(rq[r].node) /\ rq[r].node \in Nodes
    BY <1>1, <2>1, EndTyped DEF DeleteRow, IInv, KnownIDs, TypeOK
  <2>3. CASE n # rq[r].node
    <3>1. n \in Subtree(rq[r].node)
      BY <2>2, <2>3 DEF Taken
    <3>2. PICK m \in Children(rq[r].node) : ~Clear(n, m)
      BY <1>1, <2>2, <2>3, <3>1, BelowSomeChild
    <3>3. m \in strays
      BY <1>1, <2>2, <3>2 DEF IInv, DeletionsHarmless
    <3> QED
      BY <2>2, <3>2, <3>3
  <2> QED
    BY <2>2, <2>3
<1> QED
  BY <1>1, TreesInvariant, PTL DEF Spec, OnlyLatecomersCascade

=============================================================================
