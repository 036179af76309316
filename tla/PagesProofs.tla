---------------------------- MODULE PagesProofs ----------------------------
(***************************************************************************)
(* Theorems about Pages, for every page size, every statement and every    *)
(* entry that commits during a walk.                                       *)
(***************************************************************************)
EXTENDS Pages, TLAPS

\* The cursor is the lowest entry of the last page.
CursorIsLast ==
  pc = "walking" => cursor \in page /\ \A i \in page : i = cursor \/ Above(i, cursor)

\* What was shown is above what is shown next.
Descending == \A i \in earlier, j \in page : Above(i, j)

IInv == TypeOK /\ CursorIsLast /\ NothingSkipped /\ NothingTwice /\ Descending

-----------------------------------------------------------------------------
(* The order of the statement. *)

LEMMA RowsAreTimes ==
  ASSUME TypeOK
  PROVE  \A i \in Ids : rows[i] \in Int /\ i \in Int
<1>1. \A i \in Ids : rows[i] \in Times
  BY DEF TypeOK, Ids
<1>2. \A i \in Ids : i \in Int
  BY DEF Ids
<1> QED BY <1>1, <1>2, TimesAssumption

\* ORDER BY created_at DESC, id DESC is a strict order.
LEMMA AboveIsStrict ==
  ASSUME TypeOK
  PROVE  /\ \A i, j \in Ids : ~(Above(i, j) /\ (Above(j, i) \/ i = j))
         /\ \A i, j, k \in Ids : Above(i, j) /\ Above(j, k) => Above(i, k)
BY RowsAreTimes DEF Above

\* What commits later changes neither the entries nor their order.
LEMMA PostKeepsOrder ==
  ASSUME TypeOK, NEW t \in Times, Post(t)
  PROVE  /\ rows' \in Seq(Times) /\ Ids \subseteq Ids'
         /\ \A i, j \in Ids : Above(i, j)' <=> Above(i, j)
<1>1. /\ rows' \in Seq(Times) /\ Len(rows') = Len(rows) + 1 /\ Len(rows) \in Nat
      /\ \A i \in Ids : rows'[i] = rows[i]
  BY DEF TypeOK, Post, Ids
<1>2. Ids \subseteq Ids'
  BY <1>1 DEF Ids
<1> QED BY <1>1, <1>2 DEF Above

-----------------------------------------------------------------------------
(* One page. *)

\* What one SELECT returns, in terms of the rest of the statement: a part of it,
\* above what it leaves, and a cursor that is its last entry unless it leaves
\* nothing.
LEMMA PageOfRest ==
  ASSUME NEW limit \in Limits, NEW c, FetchPage(limit, c)
  PROVE  /\ page' \subseteq Rest(c)
         /\ \A i \in page' : \A j \in Rest(c) \ page' : Above(i, j)
         /\ \/ page' = Rest(c) /\ cursor' = 0 /\ pc' = "done"
            \/ /\ cursor' \in page' /\ cursor' # 0 /\ pc' = "walking"
               /\ \A i \in page' : i = cursor' \/ Above(i, cursor')
<1>1. page' \subseteq Rest(c) /\ \A i \in page' : \A j \in Rest(c) \ page' : Above(i, j)
  BY DEF FetchPage, Firsts
<1>2. CASE page' = Rest(c)
  <2>1. cursor' = 0
    BY <1>2 DEF FetchPage, NextCursor
  <2> QED BY <1>1, <1>2, <2>1 DEF FetchPage
<1>3. CASE page' # Rest(c)
  <2>1. cursor' \in page' /\ \A i \in page' : i = cursor' \/ Above(i, cursor')
    BY <1>3 DEF FetchPage, NextCursor
  <2>2. cursor' # 0
    BY <1>1, <2>1 DEF Rest, Ids
  <2> QED BY <1>1, <2>1, <2>2 DEF FetchPage
<1> QED BY <1>2, <1>3

LEMMA FetchTyped ==
  ASSUME TypeOK, NEW limit \in Limits, NEW c, FetchPage(limit, c),
         there' \subseteq Ids, earlier' \subseteq Ids
  PROVE  /\ TypeOK' /\ CursorIsLast'
         /\ Ids' = Ids /\ \A i, j : Above(i, j)' <=> Above(i, j)
<1>1. rows' = rows
  BY DEF FetchPage
<1>2. Ids' = Ids /\ \A i, j : Above(i, j)' <=> Above(i, j)
  BY <1>1 DEF Ids, Above
<1>3. page' \subseteq Ids
  BY PageOfRest DEF Rest
<1>4. TypeOK'
  BY <1>1, <1>2, <1>3, PageOfRest DEF TypeOK
<1>5. CursorIsLast'
  BY <1>2, PageOfRest DEF CursorIsLast
<1> QED BY <1>2, <1>4, <1>5

-----------------------------------------------------------------------------
(* The steps. *)

LEMMA PostKeeps ==
  ASSUME IInv, NEW t \in Times, Post(t)
  PROVE  IInv'
<1>1. UNCHANGED walk
  BY DEF Post
<1>2. TypeOK'
  BY <1>1, PostKeepsOrder DEF IInv, TypeOK, walk
<1>3. CursorIsLast'
  BY <1>1, PostKeepsOrder DEF IInv, TypeOK, walk, CursorIsLast
<1>4. NothingSkipped'
  <2>1. \A i \in there : Past(cursor, i) => Past(cursor, i)'
    BY <1>1, PostKeepsOrder DEF IInv, TypeOK, walk, Past
  <2> QED BY <1>1, <2>1 DEF IInv, walk, NothingSkipped
<1>5. NothingTwice'
  BY <1>1 DEF IInv, walk, NothingTwice
<1>6. Descending'
  BY <1>1, PostKeepsOrder DEF IInv, TypeOK, walk, Descending
<1> QED BY <1>2, <1>3, <1>4, <1>5, <1>6 DEF IInv

LEMMA FirstPageKeeps ==
  ASSUME IInv, NEW limit \in Limits, FirstPage(limit)
  PROVE  IInv'
<1>1. TypeOK /\ FetchPage(limit, 0) /\ there' = Ids /\ earlier' = {} /\ Rest(0) = Ids
  BY DEF IInv, FirstPage, Rest, Past
<1>2. TypeOK' /\ CursorIsLast' /\ \A i, j : Above(i, j)' <=> Above(i, j)
  BY <1>1, FetchTyped
<1>3. NothingSkipped'
  BY <1>1, <1>2, PageOfRest DEF NothingSkipped, Past
<1>4. NothingTwice' /\ Descending'
  BY <1>1 DEF NothingTwice, Descending
<1> QED BY <1>2, <1>3, <1>4 DEF IInv

LEMMA NextPageKeeps ==
  ASSUME IInv, NEW limit \in Limits, NextPage(limit)
  PROVE  IInv'
<1>1. /\ TypeOK /\ FetchPage(limit, cursor)
      /\ there' = there /\ earlier' = earlier \cup page
      /\ earlier' \subseteq Ids /\ there' \subseteq Ids
      /\ cursor \in page /\ cursor \in Ids /\ cursor # 0
  BY DEF IInv, TypeOK, NextPage, CursorIsLast, Ids
<1>2. /\ TypeOK' /\ CursorIsLast' /\ Ids' = Ids
      /\ \A i, j : Above(i, j)' <=> Above(i, j)
  BY <1>1, FetchTyped
\* Everything shown so far is the cursor or above it.
<1>3. \A i \in earlier' : i = cursor \/ Above(i, cursor)
  BY <1>1 DEF IInv, Descending, CursorIsLast, NextPage
\* Everything on the new page is below it.
<1>4. \A j \in page' : j \in Ids /\ Above(cursor, j)
  BY <1>1, PageOfRest DEF Rest, Past
<1>5. NothingTwice'
  BY <1>1, <1>3, <1>4, AboveIsStrict DEF NothingTwice
<1>6. Descending'
  <2>1. \A i \in earlier', j \in page' : Above(i, j)
    BY <1>1, <1>3, <1>4, AboveIsStrict
  <2> QED BY <1>2, <2>1 DEF Descending
<1>7. NothingSkipped'
  <2> SUFFICES ASSUME NEW i \in there, i \notin earlier \cup page, i \notin page'
               PROVE  pc' = "walking" /\ Past(cursor, i)'
    BY <1>1 DEF NothingSkipped
  <2>1. i \in Rest(cursor) \ page'
    BY <1>1 DEF IInv, NothingSkipped, Rest, TypeOK
  <2>2. cursor' \in page' /\ pc' = "walking" /\ Above(cursor', i)
    BY <1>1, <2>1, PageOfRest
  <2> QED BY <1>2, <2>2 DEF Past
<1> QED BY <1>2, <1>5, <1>6, <1>7 DEF IInv

-----------------------------------------------------------------------------
(* The inductive invariant and what it says. *)

\* A page ends where the next one begins: the cursor is the lowest entry shown,
\* everything shown is above what follows, and nothing is left between.
THEOREM WalkInvariant == Spec => []IInv
<1>1. Init => IInv
  BY SeededAssumption
  DEF Init, IInv, TypeOK, Ids, CursorIsLast, NothingSkipped, NothingTwice, Descending
<1>2. IInv /\ [Next]_vars => IInv'
  <2> SUFFICES ASSUME IInv, [Next]_vars PROVE IInv'
    OBVIOUS
  <2>1. CASE UNCHANGED vars
    BY <2>1 DEF vars, walk, IInv, TypeOK, Ids, CursorIsLast, NothingSkipped, NothingTwice,
                Descending, Above, Past
  <2> QED BY <2>1, PostKeeps, FirstPageKeeps, NextPageKeeps DEF Next
<1> QED BY <1>1, <1>2, PTL DEF Spec

\* Every reachable walk is well typed, and it goes on exactly while there is a cursor.
THEOREM PagesTyped == Spec => []TypeOK
<1>1. IInv => TypeOK
  BY DEF IInv
<1> QED BY <1>1, WalkInvariant, PTL

\* A walk loses no entry that was there when it began, for every page size.
THEOREM NoneSkipped == Spec => []NothingSkipped
<1>1. IInv => NothingSkipped
  BY DEF IInv
<1> QED BY <1>1, WalkInvariant, PTL

\* No entry is on two pages of a walk.
THEOREM NoneTwice == Spec => []NothingTwice
<1>1. IInv => NothingTwice
  BY DEF IInv
<1> QED BY <1>1, WalkInvariant, PTL

\* The pages of a walk are one list in the order of the statement.
THEOREM OneList == Spec => []NewestFirst
<1>1. IInv => NewestFirst
  BY DEF IInv, Descending, Above, NewestFirst
<1> QED BY <1>1, WalkInvariant, PTL

=============================================================================
