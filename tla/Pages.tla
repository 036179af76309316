-------------------------------- MODULE Pages --------------------------------
(***************************************************************************)
(* statement_service.statement_page: a client walks the statement of its   *)
(* wallet page by page, each with the cursor the one before returned,      *)
(* while transfers commit new entries.                                     *)
(*                                                                         *)
(* An entry is its id, the place in `rows`: the ids of one wallet grow in  *)
(* commit order, because they are drawn under the wallet lock.  created_at *)
(* is the start of the transaction and may be any time (Transfers).  A     *)
(* page is the set of the ids it shows: what one SELECT returns.           *)
(***************************************************************************)
EXTENDS Integers, FiniteSets, Sequences

CONSTANTS
  Times,     \* values of created_at
  Seeded,    \* created_at of the entries there are at first, in id order
  MaxRows,   \* bound: entries of the wallet
  Limits,    \* values of the query parameter limit
  MAX_PAGE   \* the largest page

ASSUME TimesAssumption == Times \subseteq Int
ASSUME SeededAssumption == Seeded \in Seq(Times)
ASSUME LimitsAssumption == Limits \subseteq Int
ASSUME MaxPageAssumption == MAX_PAGE \in Nat \ {0}

VARIABLES
  rows,     \* committed entries of the wallet: created_at of each, in id order
  pc,       \* "walking" while the last page had a next_cursor
  there,    \* ids that were there when the first page was read
  earlier,  \* ids on the pages before the last
  page,     \* ids on the last page
  cursor    \* the entry next_cursor names, 0 for no cursor

walk == <<pc, there, earlier, page, cursor>>
vars == <<rows, walk>>

Ids == 1..Len(rows)

TypeOK ==
  /\ rows \in Seq(Times)
  /\ pc \in {"idle", "walking", "done"}
  /\ there \subseteq Ids /\ earlier \subseteq Ids /\ page \subseteq Ids
  /\ cursor \in page \cup {0}
  /\ pc = "walking" <=> cursor # 0

Init ==
  /\ rows = Seeded
  /\ pc = "idle" /\ there = {} /\ earlier = {} /\ page = {} /\ cursor = 0

\* A transfer of the wallet commits.
Post(t) ==
  /\ Len(rows) < MaxRows
  /\ rows' = Append(rows, t)
  /\ UNCHANGED walk

\* ORDER BY created_at DESC, id DESC
Above_ById(i, j) == i > j \* mutant
Above(i, j) == rows[i] > rows[j] \/ (rows[i] = rows[j] /\ i > j)

\* The predicate (created_at, id) < (:cursor_ts, :cursor_id).
Past_TimeOnly(c, i) == c = 0 \/ rows[i] < rows[c] \* mutant
Past_Inclusive(c, i) == c = 0 \/ i = c \/ Above(c, i) \* mutant
Past(c, i) == c = 0 \/ Above(c, i)

Rest(c) == {i \in Ids : Past(c, i)}

Clamp(limit) == IF limit < 1 THEN 1 ELSE IF limit > MAX_PAGE THEN MAX_PAGE ELSE limit

\* The first n of S in the order of the statement.
Firsts(S, n) ==
  {P \in SUBSET S :
     /\ Cardinality(P) = IF Cardinality(S) < n THEN Cardinality(S) ELSE n
     /\ \A i \in P : \A j \in S \ P : Above(i, j)}

\* One extra row tells whether there is a next page; the cursor is the last
\* row that is shown.
NextCursor_Extra(S, P) == \* mutant: the cursor is the extra row
  IF P = S THEN {0} ELSE {l \in S \ P : \A i \in S \ P : i = l \/ Above(l, i)}
NextCursor(S, P) ==
  IF P = S THEN {0} ELSE {l \in P : \A i \in P : i = l \/ Above(i, l)}

FetchPage(limit, c) ==
  /\ page' \in Firsts(Rest(c), Clamp(limit))
  /\ cursor' \in NextCursor(Rest(c), page')
  /\ pc' = IF cursor' = 0 THEN "done" ELSE "walking"
  /\ UNCHANGED rows

\* No cursor, or one that decode_cursor cannot read: page one.
FirstPage(limit) ==
  /\ FetchPage(limit, 0)
  /\ there' = Ids /\ earlier' = {}

NextPage(limit) ==
  /\ pc = "walking"
  /\ FetchPage(limit, cursor)
  /\ earlier' = earlier \cup page
  /\ UNCHANGED there

Next ==
  \/ \E t \in Times : Post(t)
  \/ \E n \in Limits : FirstPage(n) \/ NextPage(n)

Spec == Init /\ [][Next]_vars

-----------------------------------------------------------------------------
(* Correctness. *)

\* "No row is ever skipped": between what was shown and what is still to come
\* no entry falls through that was there when the walk began, and at its end
\* all of them were shown, also those that share a created_at, whatever
\* committed between the pages and with whatever created_at.
NothingSkipped ==
  \A i \in there : i \in earlier \cup page \/ (pc = "walking" /\ Past(cursor, i))

\* "... or shown twice."
NothingTwice == earlier \cap page = {}

\* The pages one after the other are one list, newest first: an entry that
\* commits during the walk with an early created_at is shown in its place or
\* not at all.
NewestFirst ==
  \A i \in earlier, j \in page : rows[i] > rows[j] \/ (rows[i] = rows[j] /\ i > j)

=============================================================================
