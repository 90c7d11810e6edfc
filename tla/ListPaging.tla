----------------------------- MODULE ListPaging -----------------------------
(***************************************************************************)
(* Lists in pages: List of users, roles, permissions and menus              *)
(* (internal/apiserver/biz/v1), the page token (internal/pkg/pagination) and *)
(* the query behind them (pkg/store), while rows come and go.               *)
(*                                                                         *)
(* A row is its id, a serial number.  A page token holds the id of the last  *)
(* row of a page; it travels as base64 and JSON, whose numbers are exact up  *)
(* to 2^53, and a serial stays far below that.  A token that cannot be read  *)
(* counts as none, and clients send back what they were given.              *)
(***************************************************************************)
EXTENDS Naturals, Integers, FiniteSets

CONSTANTS
    Clients,      \* each of them follows the pages of one list
    Tables,       \* the lists in this instance
    RawSizes,     \* the page sizes clients ask for
    DefaultSize,  \* PageSizeConfig.Default
    MaxSize,      \* PageSizeConfig.Max
    MaxID         \* bound on the serial numbers

ASSUME TablesAssumption == Tables \subseteq {"user", "role", "permission", "menu"}
ASSUME SizesAssumption ==
    /\ DefaultSize \in Nat \ {0} /\ MaxSize \in Nat /\ DefaultSize <= MaxSize
    /\ RawSizes \subseteq Int
ASSUME MaxIDAssumption == MaxID \in Nat

VARIABLES
    rows,    \* rows[t]: the ids in table t that pass the filters
    serial,  \* serial[t]: the last id given
    pc,      \* "idle", "find", "count", "page" (answered) or "error"
    list,    \* list[c]: the table client c lists
    size,    \* size[c]: the page size it asks for
    cursor,  \* cursor[c]: the id in the token it sent, or NoToken
    page,    \* page[c]: the rows of the page
    total,   \* total[c]: TotalCount
    token,   \* token[c]: the id in the token it was given, or NoToken
    left     \* history: rows the query matched and the page did not show

vars == <<rows, serial, pc, list, size, cursor, page, total, token, left>>

NoToken == 0
IDs == 1..MaxID

TypeOK ==
    /\ rows \in [Tables -> SUBSET IDs]
    /\ serial \in [Tables -> 0..MaxID]
    /\ pc \in [Clients -> {"idle", "find", "count", "page", "error"}]
    /\ list \in [Clients -> Tables]
    /\ size \in [Clients -> RawSizes]
    /\ cursor \in [Clients -> {NoToken} \cup IDs]
    /\ page \in [Clients -> SUBSET IDs]
    /\ \A c \in Clients : Cardinality(page[c]) <= MaxSize
    /\ total \in [Clients -> 0..MaxID]
    /\ token \in [Clients -> {NoToken} \cup IDs]
    /\ left \in [Clients -> SUBSET IDs]

Init ==
    /\ serial \in [Tables -> 0..MaxID]
    /\ rows = [t \in Tables |-> 1..serial[t]]
    /\ pc = [c \in Clients |-> "idle"]
    /\ list \in [Clients -> Tables]
    /\ size \in [Clients -> RawSizes]
    /\ cursor = [c \in Clients |-> NoToken]
    /\ page = [c \in Clients |-> {}]
    /\ total = [c \in Clients |-> 0]
    /\ token = [c \in Clients |-> NoToken]
    /\ left = [c \in Clients |-> {}]

-----------------------------------------------------------------------------
(* The query.                                                              *)

\* Mutant: no upper limit.
NormalizePageSizeUncapped(n) == IF n <= 0 THEN DefaultSize ELSE n

NormalizePageSize(n) ==
    IF n <= 0 THEN DefaultSize ELSE IF n > MaxSize THEN MaxSize ELSE n

PageSize(c) == NormalizePageSize(size[c])

\* Mutant: the row the cursor names is matched again.
MatchingFrom(c) == {id \in rows[list[c]] : cursor[c] # NoToken => id >= cursor[c]}

\* whr.Where: the cursor selects greater ids.
Matching(c) == {id \in rows[list[c]] : cursor[c] # NoToken => id > cursor[c]}

\* ORDER BY id DESC LIMIT n: the n greatest ids.
Newest(n, S) == {id \in S : Cardinality({x \in S : x > id}) < n}

\* The last row of a page in that order.
LastRow(S) == CHOOSE id \in S : \A x \in S : id <= x

\* Mutant: the test of the roles for every list.
MayContinueNever(c) == Cardinality(page[c]) > PageSize(c)

\* There may be another page when this one is full; the list of roles asks
\* whether it is more than full.
MayContinue(c) ==
    IF list[c] = "role" THEN Cardinality(page[c]) > PageSize(c)
                        ELSE Cardinality(page[c]) = PageSize(c)

-----------------------------------------------------------------------------
(* A client, and the two statements of a request.                          *)

Goto(c, label) == pc' = [pc EXCEPT ![c] = label]

FirstPage(c) ==
    /\ pc[c] = "idle"
    /\ Goto(c, "find")
    /\ UNCHANGED <<rows, serial, list, size, cursor, page, total, token, left>>

NextPage(c) ==
    /\ pc[c] = "page" /\ token[c] # NoToken
    /\ cursor' = [cursor EXCEPT ![c] = token[c]]
    /\ Goto(c, "find")
    /\ UNCHANGED <<rows, serial, list, size, page, total, token, left>>

\* List: the page ...
Find(c) ==
    /\ pc[c] = "find"
    /\ page' = [page EXCEPT ![c] = Newest(PageSize(c), Matching(c))]
    /\ left' = [left EXCEPT ![c] = Matching(c) \ Newest(PageSize(c), Matching(c))]
    /\ Goto(c, "count")
    /\ UNCHANGED <<rows, serial, list, size, cursor, total, token>>

\* ... the count of the same condition, and the token for the next page.
Count(c) ==
    /\ pc[c] = "count"
    /\ total' = [total EXCEPT ![c] = Cardinality(Matching(c))]
    /\ token' = [token EXCEPT ![c] = IF MayContinue(c) THEN LastRow(page[c]) ELSE NoToken]
    /\ Goto(c, "page")
    /\ UNCHANGED <<rows, serial, list, size, cursor, page, left>>

\* Either statement fails, and the client gives up.
ListFails(c) ==
    /\ pc[c] \in {"find", "count"}
    /\ Goto(c, "error")
    /\ UNCHANGED <<rows, serial, list, size, cursor, page, total, token, left>>

\* Other requests create and delete rows.
Insert(t) ==
    /\ serial[t] < MaxID
    /\ serial' = [serial EXCEPT ![t] = @ + 1]
    /\ rows' = [rows EXCEPT ![t] = @ \cup {serial[t] + 1}]
    /\ UNCHANGED <<pc, list, size, cursor, page, total, token, left>>

Remove(t, id) ==
    /\ id \in rows[t]
    /\ rows' = [rows EXCEPT ![t] = @ \ {id}]
    /\ UNCHANGED <<serial, pc, list, size, cursor, page, total, token, left>>

Step(c) == NextPage(c) \/ Find(c) \/ Count(c) \/ ListFails(c)

Next ==
    \/ \E c \in Clients : FirstPage(c) \/ Step(c)
    \/ \E t \in Tables : Insert(t) \/ \E id \in IDs : Remove(t, id)

\* A request is answered, and a client that has begun asks for what follows.
Spec == Init /\ [][Next]_vars /\ \A c \in Clients : WF_vars(Step(c))

-----------------------------------------------------------------------------
(* Properties.                                                             *)

\* A client that follows the tokens comes to an end, whatever rows come and go
\* meanwhile: a full page at the very end costs one more request, not a loop.
PagesEnd ==
    \A c \in Clients : pc[c] = "find" ~>
        pc[c] = "error" \/ (pc[c] = "page" /\ token[c] = NoToken)

\* list.go, "there may be another page only if as many rows as pageSize came
\* back": an answer without a token has shown all rows that its query matched,
\* though rows may have come and gone before the count.
NoTokenNothingLeft ==
    \A c \in Clients : pc[c] = "page" /\ token[c] = NoToken => left[c] = {}
=============================================================================
