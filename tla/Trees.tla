-------------------------------- MODULE Trees --------------------------------
(***************************************************************************)
(* The two tables whose rows form trees by a column parent_id: "menu",     *)
(* where it is a foreign key that cascades, and "permission", where it     *)
(* refers to nothing.  The business layer is the same for both: it looks   *)
(* something up in one statement and relies on the answer in the next,     *)
(* outside any transaction.                                                *)
(*                                                                         *)
(* Codes are left out: a creation is refused, or not, whatever the tree.   *)
(***************************************************************************)
EXTENDS Naturals, FiniteSets

CONSTANTS
    Nodes,           \* menu_id or permission_id, as gen_random_uuid hands them out
    NoNode,          \* parent_id NULL
    Keep,            \* an update that does not name a parent
    Requests,
    MaxActive,       \* bound: requests in progress at a time
    MaxFaults        \* bound: statements that fail

ASSUME NodesAssumption == NoNode \notin Nodes /\ Keep \notin Nodes /\ Keep # NoNode

VARIABLES
    table,           \* which of the two tables this is
    live,            \* the IDs that have a row
    parent,          \* parent_id of each row
    used,            \* the IDs handed out so far
    pc,              \* the statement each request is about to issue
    rq,              \* arguments and local variables of each request
    faults,
    strays,          \* history: rows attached where a deletion was past its check, or to nothing
    bent             \* history: rows put below themselves, or on what another request had changed

vars == <<table, live, parent, used, pc, rq, faults, strays, bent>>

Parents == Nodes \cup {NoNode}

Request == [node : Parents, to : Parents \cup {Keep}, clear : BOOLEAN, overtaken : BOOLEAN]

NoRequest == [node |-> NoNode, to |-> Keep, clear |-> TRUE, overtaken |-> FALSE]

TypeOK ==
    /\ table \in {"menu", "permission"}
    /\ live \subseteq used /\ used \subseteq Nodes
    /\ parent \in [Nodes -> Parents]
    /\ pc \in [Requests -> {"idle", "check", "insert", "get", "save", "children", "delete", "done"}]
    /\ rq \in [Requests -> Request]
    /\ faults \in Nat
    /\ strays \subseteq Nodes /\ bent \subseteq Nodes

-----------------------------------------------------------------------------
Children(n) == {m \in live : parent[m] = n}

\* A set that holds, with a row, the row's parent.
Upward(A) == \A n \in A \cap live : parent[n] \in A \cup {NoNode}

\* n is neither p nor above p.
Clear(p, n) == \E A \in SUBSET used : p \in A /\ n \notin A /\ Upward(A)

\* The rows at and below n: what ON DELETE CASCADE takes.
Subtree(n) == {m \in live : ~Clear(m, n)}

\* menu_parent_id_fkey; a row may be its own parent.
ForeignKeyHolds(n, p) == table = "menu" => p \in live \cup {n, NoNode}

-----------------------------------------------------------------------------
Goto(r, label) == pc' = [pc EXCEPT ![r] = label]

Fault == faults < MaxFaults /\ faults' = faults + 1

\* The tables hold a forest, whose rows name parents that are there.
Init ==
    /\ table \in {"menu", "permission"}
    /\ used \in SUBSET Nodes /\ live = used
    /\ parent \in {p \in [Nodes -> Parents] :
                     \A n \in Nodes : p[n] \in used \cup {NoNode} /\ (n \notin used => p[n] = NoNode)}
    /\ \A A \in SUBSET used : (\A n \in A : parent[n] \in A) => A = {}
    /\ pc = [r \in Requests |-> "idle"]
    /\ rq = [r \in Requests |-> NoRequest]
    /\ faults = 0 /\ strays = {} /\ bent = {}

\* Mutant: UpdatePermissionRequest has a parentID, too.
ReceiveMoves(r) ==
    /\ pc[r] = "idle"
    /\ Cardinality({q \in Requests : pc[q] \notin {"idle", "done"}}) < MaxActive
    /\ \E node \in used, to \in used \cup {Keep} :
            rq' = [rq EXCEPT ![r].node = node, ![r].to = to] /\ Goto(r, "get")
    /\ UNCHANGED <<table, live, parent, used, faults, strays, bent>>

\* A request arrives.  Parents are IDs the client may have seen; an empty
\* parentID is not a uuid and fails with the statement.  UpdatePermission has
\* no parentID.
Receive(r) ==
    /\ pc[r] = "idle"
    /\ Cardinality({q \in Requests : pc[q] \notin {"idle", "done"}}) < MaxActive
    /\ \/ \E to \in used \cup {NoNode} :
            rq' = [rq EXCEPT ![r].to = to] /\ Goto(r, "check")
       \/ \E node \in used, to \in used \cup {Keep} :
            /\ table = "permission" => to = Keep
            /\ rq' = [rq EXCEPT ![r].node = node, ![r].to = to] /\ Goto(r, "get")
       \/ \E node \in used :
            rq' = [rq EXCEPT ![r].node = node] /\ Goto(r, "children")
    /\ UNCHANGED <<table, live, parent, used, faults, strays, bent>>

\* A request is over.
End(r) == Goto(r, "done") /\ rq' = [rq EXCEPT ![r] = NoRequest]

\* A statement fails: one that reads or names a row because the database does,
\* an INSERT also because of a column of the new row.
Fails(r) ==
    /\ \/ pc[r] = "insert" /\ UNCHANGED faults
       \/ pc[r] \in {"get", "save", "delete"} /\ Fault
    /\ End(r)
    /\ UNCHANGED <<table, live, parent, used, strays, bent>>

\* Some deletion of p is past its look-up of children.
BeingDeleted(p) == \E d \in Requests : pc[d] = "delete" /\ rq[d].node = p

\* The row n comes to hang below p.
Attach(n, p) ==
    /\ live' = live \cup {n}
    /\ parent' = [parent EXCEPT ![n] = p]
    /\ strays' = IF p # NoNode /\ (p \notin live \/ BeingDeleted(p)) THEN strays \cup {n}
                                                                   ELSE strays \ {n}

\* Create: GetByMenuCode finds no row, or fails, which counts as no row.
Create(r) ==
    /\ pc[r] = "check"
    /\ Goto(r, "insert")
    /\ UNCHANGED <<table, live, parent, used, rq, faults, strays, bent>>

\* GetByMenuCode finds a row: the code is taken.
Refuse(r) ==
    /\ pc[r] = "check"
    /\ End(r)
    /\ UNCHANGED <<table, live, parent, used, faults, strays, bent>>

Insert(r) ==
    /\ pc[r] = "insert"
    /\ End(r)
    /\ \/ \E n \in Nodes \ used :
            /\ ForeignKeyHolds(n, rq[r].to)
            /\ Attach(n, rq[r].to)
            /\ used' = used \cup {n}
            /\ bent' = bent \ {n}
       \/ ~ForeignKeyHolds(NoNode, rq[r].to) /\ UNCHANGED <<live, parent, used, strays, bent>>
    /\ UNCHANGED <<table, faults>>

\* Update reads the row and merges the request into it: a parent that is not
\* named stays what was read.
Update(r) ==
    LET n == rq[r].node
        p == IF rq[r].to = Keep THEN parent[n] ELSE rq[r].to
    IN  /\ pc[r] = "get"
        /\ IF n \in live
           THEN /\ Goto(r, "save")
                /\ rq' = [rq EXCEPT ![r].to = p, ![r].clear = (p = NoNode \/ Clear(p, n))]
           ELSE End(r)
        /\ UNCHANGED <<table, live, parent, used, faults, strays, bent>>

\* Save writes the whole row, and inserts it again when it is gone.
Save(r) ==
    LET n == rq[r].node
        p == rq[r].to
        moves == n \notin live \/ parent[n] # p
    IN  /\ pc[r] = "save"
        /\ Goto(r, "done")
        /\ IF ForeignKeyHolds(n, p)
           THEN /\ Attach(n, p)
                /\ bent' = IF rq[r].clear /\ ~rq[r].overtaken THEN bent \ {n} ELSE bent \cup {n}
                /\ rq' = [q \in Requests |-> IF q = r THEN NoRequest
                                             ELSE [rq[q] EXCEPT !.overtaken = @ \/ (pc[q] = "save" /\ moves)]]
           ELSE rq' = [rq EXCEPT ![r] = NoRequest] /\ UNCHANGED <<live, parent, strays, bent>>
        /\ UNCHANGED <<table, used, faults>>

\* Mutant: the children are not looked at.
DeleteUnchecked(r) ==
    /\ pc[r] = "children"
    /\ Goto(r, "delete")
    /\ UNCHANGED <<table, live, parent, used, rq, faults, strays, bent>>

\* Delete looks for children first; a look-up that fails counts as none.
Delete(r) ==
    LET n == rq[r].node IN
    /\ pc[r] = "children"
    /\ \/ Children(n) = {} /\ Goto(r, "delete") /\ UNCHANGED <<rq, faults, strays>>
       \/ Children(n) # {} /\ End(r) /\ UNCHANGED <<faults, strays>>
       \/ Fault /\ Goto(r, "delete") /\ strays' = strays \cup Children(n) /\ UNCHANGED rq
    /\ UNCHANGED <<table, live, parent, used, bent>>

\* Mutant: the foreign key lets the children be.
TakenAlone(n) == {n} \cap live

\* Mutant: the condition on menu_id is lost.
TakenAll(n) == live

\* The rows a DELETE of n takes with it.
Taken(n) == IF n \notin live THEN {} ELSE IF table = "menu" THEN Subtree(n) ELSE {n}

DeleteRow(r) ==
    LET gone == Taken(rq[r].node) IN
    /\ pc[r] = "delete"
    /\ End(r)
    /\ live' = live \ gone
    /\ parent' = [n \in Nodes |-> IF n \in gone THEN NoNode ELSE parent[n]]
    /\ strays' = strays \ gone
    /\ bent' = bent \ gone
    /\ UNCHANGED <<table, used, faults>>

Next ==
    \E r \in Requests :
        \/ Receive(r) \/ Fails(r) \/ Create(r) \/ Refuse(r) \/ Insert(r)
        \/ Update(r) \/ Save(r) \/ Delete(r) \/ DeleteRow(r)

Spec == Init /\ [][Next]_vars

-----------------------------------------------------------------------------
Orphans == {n \in live : parent[n] \notin live \cup {NoNode}}

\* "Has children, cannot be deleted" (menu/delete.go, permission/delete.go):
\* when a deletion reaches its statement, the children its row has by now came
\* after the look-up, or the look-up failed.
DeletionsHarmless ==
    \A r \in Requests : pc[r] = "delete" => Children(rq[r].node) \subseteq strays

\* A permission without its parent was attached to a row that was gone or
\* about to go: by a creation or an update that overlapped the deletion.
\* Menus always have their parent.
OrphansExplained ==
    Orphans \subseteq strays /\ (table = "menu" => Orphans = {})

\* A cycle of rows comes from an update that asked for one, or that saved a
\* parent chosen before another update moved rows; in the table of permissions
\* there is none.  (A set of rows that holds the parent of each is a cycle, and
\* rows below it.)
CyclesExplained ==
    \A A \in SUBSET live :
        (A # {} /\ \A n \in A : parent[n] \in A) => table = "menu" /\ A \cap bent # {}

\* A row that goes, other than the one a request names, hung below a row that
\* came after the look-up (ON DELETE CASCADE in template.sql).
CascadeTakesLatecomers ==
    \A n \in live \ live' :
        \E r \in Requests :
            /\ pc[r] = "delete" /\ pc'[r] = "done"
            /\ n # rq[r].node => \E m \in strays \cap Children(rq[r].node) : ~Clear(n, m)

OnlyLatecomersCascade == [][CascadeTakesLatecomers]_vars

-----------------------------------------------------------------------------
\* The inductive invariant of the proofs.

\* IDs in rows and requests have been handed out; no row, no parent.
KnownIDs ==
    /\ \A n \in Nodes : parent[n] \in used \cup {NoNode} /\ (n \notin live => parent[n] = NoNode)
    /\ \A r \in Requests :
        /\ pc[r] \in {"get", "save", "children", "delete"} => rq[r].node \in used
        /\ pc[r] \in {"check", "insert", "save"} => rq[r].to \in used \cup {NoNode}
        /\ pc[r] = "get" => rq[r].to \in used \cup {Keep} /\ (table = "permission" => rq[r].to = Keep)

\* What an update found out when it read holds until another one moves rows.
ClearUntilOvertaken ==
    \A r \in Requests :
        pc[r] = "save" /\ rq[r].clear /\ ~rq[r].overtaken =>
            rq[r].to = NoNode \/ Clear(rq[r].to, rq[r].node)

\* Neither the rows nor what updates are about to save lead back to a
\* permission.
PermissionsFounded ==
    table = "permission" =>
        \A A \in SUBSET used : A # {} =>
            \E n \in A :
                /\ parent[n] \notin A
                /\ \A r \in Requests : pc[r] = "save" /\ rq[r].node = n => rq[r].to \notin A

IInv ==
    /\ TypeOK /\ KnownIDs
    /\ DeletionsHarmless /\ OrphansExplained /\ CyclesExplained
    /\ ClearUntilOvertaken /\ PermissionsFounded
=============================================================================
