-------------------------- MODULE TableReaderProofs --------------------------
(***************************************************************************)
(* Proofs about the two readers of a table that changes under them: the    *)
(* client that follows the pages of a list (ListPaging), and the enforcer  *)
(* that answers from its memory (PolicyCache).                             *)
(***************************************************************************)
EXTENDS ListPaging, PolicyCache, FiniteSetTheorems, WellFoundedInduction, TLAPS

-----------------------------------------------------------------------------
(* The greatest of a set of rows: ORDER BY id DESC LIMIT n.                *)

\* The library has no greatest element of a finite set of numbers.  The sets of
\* what is above each element are finite, so one of them is minimal, and it is
\* empty.
LEMMA GreatestExists ==
  ASSUME NEW S \in SUBSET Int, IsFiniteSet(S), S # {}
  PROVE  \E m \in S : \A x \in S : x <= m
<1> DEFINE Above(m) == {x \in S : x > m}
           Sets == {Above(m) : m \in S}
<1>1. IsWellFoundedOn(StrictSubsetOrdering(S), FiniteSubsetsOf(S))
  BY FS_StrictSubsetOrderingWellFounded
<1>2. FiniteSubsetsOf(S) = SUBSET S
  BY FS_FiniteSubsetsOfFinite
<1>3. Sets \subseteq SUBSET S /\ Sets # {}
  OBVIOUS
<1>4. \E A \in Sets : \A B \in Sets : ~ (<<B, A>> \in StrictSubsetOrdering(S))
  <2> HIDE DEF Sets
  <2>1. IsWellFoundedOn(StrictSubsetOrdering(S), SUBSET S)
    BY <1>1, <1>2
  <2> QED
    BY <2>1, <1>3, WFMin, Zenon
<1>5. PICK m \in S : \A B \in Sets : <<B, Above(m)>> \notin StrictSubsetOrdering(S)
  BY <1>4
<1>6. SUFFICES ASSUME NEW x \in S, ~(x <= m) PROVE FALSE
  BY <1>5
<1>7. Above(x) \subseteq Above(m) /\ x \in Above(m) /\ x \notin Above(x)
  <2>1. x \in Int /\ m \in Int /\ x > m /\ ~ (x > x)
    BY <1>6
  <2>2. \A y \in S : y > x => y > m
    <3> TAKE y \in S
    <3> QED
      BY <2>1
  <2> QED
    BY <2>1, <2>2
<1>8. Above(x) \in Sets /\ Above(x) \in SUBSET S /\ Above(m) \in SUBSET S
  OBVIOUS
<1>9. <<Above(x), Above(m)>> \in StrictSubsetOrdering(S)
  <2> HIDE DEF Above
  <2> QED
    BY <1>7, <1>8 DEF StrictSubsetOrdering
<1> QED
  BY <1>5, <1>8, <1>9

\* The least element: the greatest of the opposites.
LEMMA LeastExists ==
  ASSUME NEW S \in SUBSET Int, IsFiniteSet(S), S # {}
  PROVE  \E m \in S : \A x \in S : m <= x
<1> DEFINE T == {-x : x \in S}
<1>1. IsFiniteSet(T)
  <2>1. [x \in S |-> -x] \in Surjection(S, T)
    BY DEF Surjection
  <2> QED
    BY <2>1, FS_Surjection
<1>2. T \in SUBSET Int /\ T # {}
  <2>1. \A x \in S : -x \in Int
    OBVIOUS
  <2> QED
    BY <2>1
<1>3. PICK m \in T : \A x \in T : x <= m
  <2> HIDE DEF T
  <2> QED
    BY <1>1, <1>2, GreatestExists
<1>4. PICK k \in S : m = -k
  OBVIOUS
<1>5. \A x \in S : -x <= -k
  BY <1>3, <1>4
<1> QED
  BY <1>5

\* LIMIT n: no page is longer than n.
LEMMA NewestIsShort ==
  ASSUME NEW S \in SUBSET Int, IsFiniteSet(S), NEW n \in Nat
  PROVE  /\ IsFiniteSet(Newest(n, S))
         /\ Cardinality(Newest(n, S)) \in Nat
         /\ Cardinality(Newest(n, S)) <= n
<1> DEFINE N == Newest(n, S)
<1>1. N \in SUBSET S
  BY DEF Newest
<1>2. IsFiniteSet(N) /\ Cardinality(N) \in Nat
  BY <1>1, FS_Subset, FS_CardinalityType
<1>3. CASE N = {}
  BY <1>3, <1>2, FS_EmptySet
<1>4. CASE N # {}
  <2>1. PICK m \in N : \A x \in N : m <= x
    BY <1>1, <1>2, <1>4, LeastExists
  <2> DEFINE A == {x \in S : x > m}
  <2>2. Cardinality(A) < n
    BY <2>1 DEF Newest
  <2>3. N \ {m} \in SUBSET A
    <3>1. \A x \in N : x \in S /\ x \in Int /\ m \in Int
      BY <2>1, <1>1
    <3> HIDE DEF N
    <3>2. \A x \in N \ {m} : x > m
      BY <3>1, <2>1
    <3> QED
      BY <3>1, <3>2
  <2>4. IsFiniteSet(A) /\ Cardinality(A) \in Nat
    BY FS_Subset, FS_CardinalityType
  <2>5. Cardinality(N \ {m}) <= Cardinality(A)
    BY <2>3, <2>4, FS_Subset
  <2>6. Cardinality(N \ {m}) = Cardinality(N) - 1
    BY <2>1, <1>2, FS_RemoveElement
  <2> QED
    BY <2>2, <2>4, <2>5, <2>6, <1>2
<1> QED
  BY <1>2, <1>3, <1>4

\* A page that left rows out is full.
LEMMA NewestIsFull ==
  ASSUME NEW S \in SUBSET Int, IsFiniteSet(S), NEW n \in Nat, S \ Newest(n, S) # {}
  PROVE  Cardinality(Newest(n, S)) = n
<1> DEFINE N == Newest(n, S)
<1>1. IsFiniteSet(S \ N)
  BY FS_Subset
<1>2. PICK m \in S \ N : \A x \in S \ N : x <= m
  BY <1>1, GreatestExists
<1> DEFINE A == {x \in S : x > m}
<1>3. IsFiniteSet(A) /\ Cardinality(A) \in Nat
  BY FS_Subset, FS_CardinalityType
<1>4. Cardinality(A) >= n
  BY <1>2, <1>3 DEF Newest
<1>5. A \in SUBSET N
  <2>1. \A x \in S : x \in Int /\ m \in Int
    BY <1>2
  <2> HIDE DEF N
  <2>2. \A x \in S \ N : ~ (x > m)
    BY <1>2, <2>1
  <2> QED
    BY <2>2
<1>6. IsFiniteSet(N) /\ Cardinality(N) \in Nat /\ Cardinality(N) <= n
  BY NewestIsShort
<1>7. Cardinality(A) <= Cardinality(N)
  BY <1>5, <1>6, FS_Subset
<1> QED
  BY <1>3, <1>4, <1>6, <1>7

\* The id of a page token is one of the page's rows.
LEMMA LastRowOfPage ==
  ASSUME NEW S \in SUBSET Int, IsFiniteSet(S), S # {}
  PROVE  LastRow(S) \in S
BY LeastExists DEF LastRow

-----------------------------------------------------------------------------
(* Lists in pages.                                                         *)

\* Ids are bounded, so a set of them is finite and can be counted.
LEMMA IDsAreFinite ==
  ASSUME NEW S \in SUBSET IDs
  PROVE  /\ S \in SUBSET Int /\ IsFiniteSet(S)
         /\ Cardinality(S) \in 0..MaxID
<1>1. IsFiniteSet(IDs) /\ Cardinality(IDs) = MaxID
  BY MaxIDAssumption, FS_Interval DEF IDs
<1>2. IsFiniteSet(S) /\ Cardinality(S) <= Cardinality(IDs) /\ Cardinality(S) \in Nat
  BY <1>1, FS_Subset, FS_CardinalityType
<1> QED
  BY <1>1, <1>2, MaxIDAssumption DEF IDs

\* Whatever size is asked for, a page has room for a row and not for more than
\* the maximum (NormalizePageSize).
LEMMA PageSizeInRange ==
  ASSUME TypeOK, NEW c \in Clients
  PROVE  PageSize(c) \in 1..MaxSize
<1>1. size[c] \in Int
  BY SizesAssumption DEF TypeOK
<1>2. DefaultSize \in Nat \ {0} /\ MaxSize \in Nat /\ DefaultSize <= MaxSize
  BY SizesAssumption
<1> QED
  BY <1>1, <1>2 DEF PageSize, NormalizePageSize

\* The rows the query of a client matches.
LEMMA MatchingTyped ==
  ASSUME TypeOK, NEW c \in Clients
  PROVE  /\ Matching(c) \in SUBSET IDs
         /\ Newest(PageSize(c), Matching(c)) \in SUBSET IDs
BY DEF TypeOK, Matching, Newest

\* The token of a page is one of its rows.
LEMMA TokenOfPage ==
  ASSUME TypeOK, NEW c \in Clients, MayContinue(c)
  PROVE  LastRow(page[c]) \in page[c] /\ LastRow(page[c]) \in IDs
<1>1. PageSize(c) \in Nat \ {0}
  BY PageSizeInRange, SizesAssumption
<1>2. page[c] \in SUBSET IDs /\ page[c] \in SUBSET Int /\ IsFiniteSet(page[c])
  BY IDsAreFinite DEF TypeOK
<1>3. Cardinality(page[c]) # 0
  BY <1>1 DEF MayContinue
<1> QED
  BY <1>2, <1>3, FS_EmptySet, LastRowOfPage

\* What the query of a page returns, and what it leaves out.
LEMMA PageFound ==
  ASSUME TypeOK, NEW c \in Clients, NEW N, N = Newest(PageSize(c), Matching(c))
  PROVE  /\ N \in SUBSET IDs /\ Matching(c) \ N \in SUBSET IDs
         /\ Cardinality(N) <= PageSize(c) /\ Cardinality(N) <= MaxSize
         /\ Matching(c) \ N # {} => Cardinality(N) = PageSize(c)
<1>1. PageSize(c) \in 1..MaxSize /\ MaxSize \in Nat
  BY PageSizeInRange, SizesAssumption
<1>2. Matching(c) \in SUBSET IDs /\ N \in SUBSET IDs
  BY MatchingTyped
<1>3. Matching(c) \in SUBSET Int /\ IsFiniteSet(Matching(c))
  BY <1>2, IDsAreFinite
<1>4. Cardinality(N) \in Nat /\ Cardinality(N) <= PageSize(c)
  BY <1>1, <1>3, NewestIsShort
<1>5. Matching(c) \ N # {} => Cardinality(N) = PageSize(c)
  BY <1>1, <1>3, NewestIsFull
<1> QED
  BY <1>1, <1>2, <1>4, <1>5

LEMMA PagingTypeInit == Init => TypeOK
<1> SUFFICES ASSUME Init PROVE TypeOK
  OBVIOUS
<1>1. \A t \in Tables : 1..serial[t] \in SUBSET IDs
  BY MaxIDAssumption DEF Init, IDs
<1>2. Cardinality({}) <= MaxSize
  BY FS_EmptySet, SizesAssumption
<1> QED
  BY <1>1, <1>2, MaxIDAssumption DEF Init, TypeOK, NoToken, IDs

LEMMA PagingTypeStep == TypeOK /\ [Next]_vars => TypeOK'
<1> SUFFICES ASSUME TypeOK, [Next]_vars PROVE TypeOK'
  OBVIOUS
<1>1. ASSUME NEW c \in Clients, FirstPage(c) \/ NextPage(c) \/ ListFails(c)
      PROVE  TypeOK'
  BY <1>1 DEF FirstPage, NextPage, ListFails, Goto, TypeOK
<1>2. ASSUME NEW c \in Clients, Find(c) PROVE TypeOK'
  <2> DEFINE N == Newest(PageSize(c), Matching(c))
  <2>1. /\ N \in SUBSET IDs /\ Matching(c) \ N \in SUBSET IDs
        /\ Cardinality(N) <= MaxSize
    BY PageFound
  <2>2. /\ page' = [page EXCEPT ![c] = N]
        /\ left' = [left EXCEPT ![c] = Matching(c) \ N]
        /\ pc' = [pc EXCEPT ![c] = "count"]
        /\ UNCHANGED <<rows, serial, list, size, cursor, total, token>>
    BY <1>2 DEF Find, Goto
  <2> HIDE DEF N
  <2>3. \A d \in Clients : Cardinality(page'[d]) <= MaxSize
    BY <2>1, <2>2 DEF TypeOK
  <2> QED
    BY <2>1, <2>2, <2>3 DEF TypeOK
<1>3. ASSUME NEW c \in Clients, Count(c) PROVE TypeOK'
  <2> DEFINE last == IF MayContinue(c) THEN LastRow(page[c]) ELSE NoToken
  <2>1. last \in {NoToken} \cup IDs
    BY TokenOfPage
  <2>2. Cardinality(Matching(c)) \in 0..MaxID
    BY MatchingTyped, IDsAreFinite
  <2>3. /\ total' = [total EXCEPT ![c] = Cardinality(Matching(c))]
        /\ token' = [token EXCEPT ![c] = last]
        /\ pc' = [pc EXCEPT ![c] = "page"]
        /\ UNCHANGED <<rows, serial, list, size, cursor, page, left>>
    BY <1>3 DEF Count, Goto
  <2> HIDE DEF last
  <2> QED
    BY <2>1, <2>2, <2>3 DEF TypeOK
<1>4. ASSUME NEW t \in Tables, Insert(t) PROVE TypeOK'
  BY <1>4, MaxIDAssumption DEF Insert, TypeOK, IDs
<1>5. ASSUME NEW t \in Tables, NEW id \in IDs, Remove(t, id) PROVE TypeOK'
  BY <1>5 DEF Remove, TypeOK
<1>6. CASE UNCHANGED vars
  BY <1>6 DEF vars, TypeOK
<1> QED
  BY <1>1, <1>2, <1>3, <1>4, <1>5, <1>6 DEF Next, Step

\* Every variable of the lists has its type, and no page is longer than the
\* maximum, whatever size was asked for (NormalizePageSize).
THEOREM PagingTyped == Spec => []TypeOK
BY PagingTypeInit, PagingTypeStep, PTL DEF Spec

-----------------------------------------------------------------------------
(* A page without a token is the last one.                                 *)

\* Between the two statements of a request a page that left rows out is full;
\* after them it has a token.
PageOf(c) ==
    /\ pc[c] = "count" /\ left[c] # {} => Cardinality(page[c]) = PageSize(c)
    /\ pc[c] = "page" /\ left[c] # {} => token[c] # NoToken

PagesTold == \A c \in Clients : PageOf(c)

LEMMA PagesToldInit == Init => PagesTold
BY DEF Init, PagesTold, PageOf

LEMMA PagesToldStep ==
  ASSUME "role" \notin Tables
  PROVE  TypeOK /\ PagesTold /\ [Next]_vars => PagesTold'
<1> SUFFICES ASSUME TypeOK, PagesTold, [Next]_vars, NEW d \in Clients
             PROVE  PageOf(d)'
  BY DEF PagesTold
<1>0. PageOf(d)
  BY DEF PagesTold
<1> USE DEF TypeOK, PageOf, PageSize
<1>1. ASSUME NEW c \in Clients, FirstPage(c) \/ NextPage(c) \/ ListFails(c)
      PROVE  PageOf(d)'
  BY <1>0, <1>1 DEF FirstPage, NextPage, ListFails, Goto
<1>2. ASSUME NEW c \in Clients, Find(c) PROVE PageOf(d)'
  <2> DEFINE N == Newest(PageSize(c), Matching(c))
  <2>1. Matching(c) \ N # {} => Cardinality(N) = PageSize(c)
    BY PageFound
  <2>2. /\ page' = [page EXCEPT ![c] = N]
        /\ left' = [left EXCEPT ![c] = Matching(c) \ N]
        /\ pc' = [pc EXCEPT ![c] = "count"]
        /\ UNCHANGED <<size, token>>
    BY <1>2 DEF Find, Goto
  <2> HIDE DEF N
  <2> QED
    BY <1>0, <2>1, <2>2
<1>3. ASSUME NEW c \in Clients, Count(c) PROVE PageOf(d)'
  <2> DEFINE last == IF MayContinue(c) THEN LastRow(page[c]) ELSE NoToken
  <2>1. list[c] # "role"
    OBVIOUS
  <2>2. left[c] # {} => MayContinue(c)
    BY <1>3, <2>1 DEF Count, MayContinue, PagesTold
  <2>3. MayContinue(c) => LastRow(page[c]) # NoToken
    BY TokenOfPage, MaxIDAssumption DEF NoToken, IDs
  <2>4. left[c] # {} => last # NoToken
    BY <2>2, <2>3
  <2>5. /\ token' = [token EXCEPT ![c] = last]
        /\ pc' = [pc EXCEPT ![c] = "page"]
        /\ UNCHANGED <<size, page, left>>
    BY <1>3 DEF Count, Goto
  <2> HIDE DEF last
  <2> QED
    BY <1>0, <2>4, <2>5
<1>4. ASSUME NEW t \in Tables, Insert(t) \/ \E id \in IDs : Remove(t, id)
      PROVE  PageOf(d)'
  BY <1>0, <1>4 DEF Insert, Remove
<1>5. CASE UNCHANGED vars
  BY <1>0, <1>5 DEF vars
<1> QED
  BY <1>1, <1>2, <1>3, <1>4, <1>5 DEF Next, Step

\* An answer without a token has shown every row its query matched, in the lists
\* of users, permissions and menus and for pages and tables of any size, though
\* rows come and go between the page and its count (list.go).  The list of roles
\* asks for more rows than it can get, so its pages never have a token.
THEOREM LastPageShowsTheRest ==
  ASSUME "role" \notin Tables
  PROVE  Spec => []NoTokenNothingLeft
<1>1. PagesTold => NoTokenNothingLeft
  BY DEF PagesTold, PageOf, NoTokenNothingLeft
<1>2. TypeOK /\ PagesTold /\ [Next]_vars => PagesTold'
  BY PagesToldStep
<1> QED
  BY <1>1, <1>2, PagesToldInit, PagingTyped, PTL DEF Spec

\* The list of roles never gives a token.
RolesHaveOnePage ==
    \A c \in Clients : list[c] = "role" => token[c] = NoToken

\* A page of any list is no longer than was asked for.
PageFits(c) == pc[c] = "count" => Cardinality(page[c]) <= PageSize(c)

RolesInv == RolesHaveOnePage /\ \A c \in Clients : PageFits(c)

LEMMA RolesInit == Init => RolesInv
BY DEF Init, RolesInv, RolesHaveOnePage, PageFits

LEMMA RolesStep == TypeOK /\ RolesInv /\ [Next]_vars => RolesInv'
<1> SUFFICES ASSUME TypeOK, RolesInv, [Next]_vars, NEW d \in Clients
             PROVE  (list[d] = "role" => token[d] = NoToken)' /\ PageFits(d)'
  BY DEF RolesInv, RolesHaveOnePage
<1>0. (list[d] = "role" => token[d] = NoToken) /\ PageFits(d)
  BY DEF RolesInv, RolesHaveOnePage
<1> USE DEF TypeOK, PageFits, PageSize
<1>1. ASSUME NEW c \in Clients, FirstPage(c) \/ NextPage(c) \/ ListFails(c)
      PROVE  (list[d] = "role" => token[d] = NoToken)' /\ PageFits(d)'
  BY <1>0, <1>1 DEF FirstPage, NextPage, ListFails, Goto
<1>2. ASSUME NEW c \in Clients, Find(c)
      PROVE  (list[d] = "role" => token[d] = NoToken)' /\ PageFits(d)'
  <2> DEFINE N == Newest(PageSize(c), Matching(c))
  <2>1. Cardinality(N) <= PageSize(c)
    BY PageFound
  <2>2. /\ page' = [page EXCEPT ![c] = N]
        /\ pc' = [pc EXCEPT ![c] = "count"]
        /\ UNCHANGED <<size, list, token>>
    BY <1>2 DEF Find, Goto
  <2> HIDE DEF N
  <2> QED
    BY <1>0, <2>1, <2>2
<1>3. ASSUME NEW c \in Clients, Count(c)
      PROVE  (list[d] = "role" => token[d] = NoToken)' /\ PageFits(d)'
  <2> DEFINE last == IF MayContinue(c) THEN LastRow(page[c]) ELSE NoToken
  <2>1. PageSize(c) \in Nat /\ Cardinality(page[c]) \in Nat
    BY PageSizeInRange, SizesAssumption, IDsAreFinite, MaxIDAssumption
  <2>2. Cardinality(page[c]) <= PageSize(c)
    BY <1>3 DEF RolesInv, Count
  <2>3. list[c] = "role" => ~ MayContinue(c)
    <3> HIDE DEF PageSize
    <3> QED
      BY <2>1, <2>2 DEF MayContinue
  <2>4. list[c] = "role" => last = NoToken
    BY <2>3
  <2>5. /\ token' = [token EXCEPT ![c] = last]
        /\ pc' = [pc EXCEPT ![c] = "page"]
        /\ UNCHANGED <<size, list, page>>
    BY <1>3 DEF Count, Goto
  <2> HIDE DEF last
  <2> QED
    BY <1>0, <2>4, <2>5
<1>4. ASSUME NEW t \in Tables, Insert(t) \/ \E id \in IDs : Remove(t, id)
      PROVE  (list[d] = "role" => token[d] = NoToken)' /\ PageFits(d)'
  BY <1>0, <1>4 DEF Insert, Remove
<1>5. CASE UNCHANGED vars
  BY <1>0, <1>5 DEF vars
<1> QED
  BY <1>1, <1>2, <1>3, <1>4, <1>5 DEF Next, Step

\* The list of roles asks whether a page is more than full (role/list.go), which
\* none can be: a client sees its first page and never gets a token for another,
\* for any page size and number of roles.
THEOREM NoSecondPageOfRoles == Spec => []RolesHaveOnePage
<1>1. RolesInv => RolesHaveOnePage
  BY DEF RolesInv
<1> QED
  BY <1>1, RolesInit, RolesStep, PagingTyped, PTL DEF Spec

-----------------------------------------------------------------------------
(* Why following the tokens comes to an end.                               *)

\* What a page holds is above the cursor it was asked with, and so is its token.
AboveOf(c) ==
    /\ pc[c] = "count" => \A id \in page[c] : id > cursor[c]
    /\ pc[c] = "page" /\ token[c] # NoToken => token[c] > cursor[c]

PagesAbove == \A c \in Clients : AboveOf(c)

LEMMA AboveInit == Init => PagesAbove
BY DEF Init, PagesAbove, AboveOf

LEMMA AboveStep == TypeOK /\ PagesAbove /\ [Next]_vars => PagesAbove'
<1> SUFFICES ASSUME TypeOK, PagesAbove, [Next]_vars, NEW d \in Clients
             PROVE  AboveOf(d)'
  BY DEF PagesAbove
<1>0. AboveOf(d)
  BY DEF PagesAbove
<1> USE DEF TypeOK, AboveOf
<1>1. ASSUME NEW c \in Clients, FirstPage(c) \/ NextPage(c) \/ ListFails(c)
      PROVE  AboveOf(d)'
  BY <1>0, <1>1 DEF FirstPage, NextPage, ListFails, Goto
<1>2. ASSUME NEW c \in Clients, Find(c) PROVE AboveOf(d)'
  <2> DEFINE N == Newest(PageSize(c), Matching(c))
  <2>1. \A id \in Matching(c) : id > cursor[c]
    <3>1. \A id \in IDs : id \in Nat /\ id > NoToken
      BY MaxIDAssumption DEF IDs, NoToken
    <3>2. Matching(c) \in SUBSET IDs
      BY MatchingTyped
    <3> QED
      BY <3>1, <3>2 DEF Matching
  <2>2. \A id \in N : id > cursor[c]
    BY <2>1 DEF Newest
  <2>3. /\ page' = [page EXCEPT ![c] = N]
        /\ pc' = [pc EXCEPT ![c] = "count"]
        /\ UNCHANGED <<cursor, token>>
    BY <1>2 DEF Find, Goto
  <2> HIDE DEF N
  <2> QED
    BY <1>0, <2>2, <2>3
<1>3. ASSUME NEW c \in Clients, Count(c) PROVE AboveOf(d)'
  <2> DEFINE last == IF MayContinue(c) THEN LastRow(page[c]) ELSE NoToken
  <2>1. MayContinue(c) => LastRow(page[c]) \in page[c]
    BY TokenOfPage
  <2>2. last # NoToken => last > cursor[c]
    BY <1>3, <2>1 DEF Count, PagesAbove
  <2>3. /\ token' = [token EXCEPT ![c] = last]
        /\ pc' = [pc EXCEPT ![c] = "page"]
        /\ UNCHANGED <<cursor, page>>
    BY <1>3 DEF Count, Goto
  <2> HIDE DEF last
  <2> QED
    BY <1>0, <2>2, <2>3
<1>4. ASSUME NEW t \in Tables, Insert(t) \/ \E id \in IDs : Remove(t, id)
      PROVE  AboveOf(d)'
  BY <1>0, <1>4 DEF Insert, Remove
<1>5. CASE UNCHANGED vars
  BY <1>0, <1>5 DEF vars
<1> QED
  BY <1>1, <1>2, <1>3, <1>4, <1>5 DEF Next, Step

\* A cursor a client sends is above the one before it.
CursorsGrow ==
    [][\A c \in Clients : cursor'[c] # cursor[c] => cursor'[c] > cursor[c]]_vars

\* Each page a client asks for starts above the one before (whr.Where and the page
\* token): with finitely many rows, the measure that brings PagesEnd to an end.
THEOREM FollowingGoesUp == Spec => CursorsGrow
<1>1. ASSUME PagesAbove, [Next]_vars, NEW c \in Clients, TypeOK
      PROVE  cursor'[c] # cursor[c] => cursor'[c] > cursor[c]
  <2>1. CASE \E d \in Clients : NextPage(d)
    BY <1>1, <2>1 DEF NextPage, PagesAbove, AboveOf, TypeOK
  <2>2. CASE UNCHANGED cursor
    BY <2>2
  <2> QED
    BY <1>1, <2>1, <2>2
    DEF Next, Step, FirstPage, Find, Count, ListFails, Insert, Remove, vars
<1>2. TypeOK /\ PagesAbove /\ [Next]_vars =>
        [\A c \in Clients : cursor'[c] # cursor[c] => cursor'[c] > cursor[c]]_vars
  BY <1>1
<1> QED
  BY <1>2, AboveInit, AboveStep, PagingTyped, PTL DEF Spec, CursorsGrow

-----------------------------------------------------------------------------
(* The staleness bound of PolicyCache, for any servers, rules and bound.   *)

\* The state a server starts from satisfies the bound: nothing is unseen.
LEMMA LagInit == CacheInit => LagInv
<1> SUFFICES ASSUME CacheInit PROVE LagInv
  OBVIOUS
<1>1. PICK stored \in SUBSET Rules : EnforcerInit(stored)
  BY DEF CacheInit
<1>2. CacheTypeOK
  BY <1>1 DEF CacheInit, EnforcerInit, CacheTypeOK, EnforcerTypeOK
<1>3. LagIsBounded /\ ReadLagIsBounded
  BY <1>1 DEF EnforcerInit, LagIsBounded, ReadLagIsBounded, Differ
<1> QED
  BY <1>2, <1>3 DEF LagInv

\* A call of a server keeps the bound: its own memory follows the table, and
\* the rules it wrote are recorded for everybody else.
LEMMA AddKeepsLag ==
  ASSUME LagInv, NEW s \in Servers, NEW new \in SUBSET Rules, AddRules(s, new)
  PROVE  LagInv'
<1> USE DEF LagInv, CacheTypeOK, EnforcerTypeOK
<1>1. CASE AddStored(s, new) /\ Record(s, new)
  <2>1. CacheTypeOK'
    BY <1>1 DEF AddStored, Record
  <2>2. LagIsBounded'
    BY <1>1 DEF AddStored, Record, LagIsBounded, Differ
  <2>3. ReadLagIsBounded'
    BY <1>1 DEF AddStored, Record, ReadLagIsBounded, Differ
  <2> QED
    BY <2>1, <2>2, <2>3
<1>2. CASE /\ AddRefused(s, new) \/ AddFails(s, new)
           /\ UNCHANGED <<unseen, unread, writes>>
  BY <1>2 DEF AddRefused, AddFails, LagIsBounded, ReadLagIsBounded, Differ
<1> QED
  BY <1>1, <1>2 DEF AddRules

LEMMA RemoveKeepsLag ==
  ASSUME LagInv, NEW s \in Servers, NEW old \in SUBSET Rules, RemoveRules(s, old)
  PROVE  LagInv'
<1> USE DEF LagInv, CacheTypeOK, EnforcerTypeOK
<1>1. CacheTypeOK'
  BY DEF RemoveRules, RemoveMatching, Record
<1>2. LagIsBounded'
  BY DEF RemoveRules, RemoveMatching, Record, LagIsBounded, Differ
<1>3. ReadLagIsBounded'
  BY DEF RemoveRules, RemoveMatching, Record, ReadLagIsBounded, Differ
<1> QED
  BY <1>1, <1>2, <1>3

\* The two halves of a reload, and a restart: what the read has missed becomes
\* what the memory has missed.
LEMMA ReloadKeepsLag ==
  ASSUME LagInv, NEW s \in Servers, Read(s) \/ Apply(s) \/ Restart(s)
  PROVE  LagInv'
<1> USE DEF LagInv, CacheTypeOK, EnforcerTypeOK
<1>1. CASE Read(s)
  BY <1>1 DEF Read, ReadPolicy, LagIsBounded, ReadLagIsBounded, Differ
<1>2. CASE Apply(s)
  BY <1>2 DEF Apply, ApplyPolicy, LagIsBounded, ReadLagIsBounded, Differ
<1>3. CASE Restart(s)
  BY <1>3 DEF Restart, StartEnforcer, LagIsBounded, ReadLagIsBounded, Differ
<1> QED
  BY <1>1, <1>2, <1>3

LEMMA LagStep == LagInv /\ [CacheNext]_cacheVars => LagInv'
<1> SUFFICES ASSUME LagInv, [CacheNext]_cacheVars PROVE LagInv'
  OBVIOUS
<1>1. CASE CacheNext
  <2> PICK s \in Servers :
        \/ \E touched \in SUBSET Rules \ {{}} :
              AddRules(s, touched) \/ RemoveRules(s, touched)
        \/ Read(s) \/ Apply(s) \/ Restart(s)
    BY <1>1 DEF CacheNext
  <2> QED
    BY AddKeepsLag, RemoveKeepsLag, ReloadKeepsLag
<1>2. CASE UNCHANGED cacheVars
  BY <1>2 DEF cacheVars, LagInv, CacheTypeOK, EnforcerTypeOK,
              LagIsBounded, ReadLagIsBounded, Differ
<1> QED
  BY <1>1, <1>2

\* Every variable of the policy store has its type (authz.go, NewAuthz).
THEOREM PolicyCacheTyped == CacheSpec => []CacheTypeOK
<1>1. LagInv => CacheTypeOK
  BY DEF LagInv
<1> QED
  BY <1>1, LagInit, LagStep, PTL DEF CacheSpec

\* A server's policy is never further from casbin_rule than the writes made
\* since the table was read for it (NewAuthz and its reload every 10 seconds).
THEOREM PolicyLagBounded ==
  CacheSpec => [](LagIsBounded /\ ReadLagIsBounded)
<1>1. LagInv => LagIsBounded /\ ReadLagIsBounded
  BY DEF LagInv
<1> QED
  BY <1>1, LagInit, LagStep, PTL DEF CacheSpec
=============================================================================
