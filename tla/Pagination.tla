----------------------------- MODULE Pagination -----------------------------
(***************************************************************************)
(* cursor_paginate (core/paginator.py) as a client uses it: page by page,  *)
(* the cursor being the last row received, until a page says that there is *)
(* no more.  It serves the sidebar of sessions, newest activity first with *)
(* sessions that have none last, and the messages of a session, oldest     *)
(* first.  Between two pages sessions are used, created, deleted and       *)
(* purged.                                                                 *)
(***************************************************************************)
EXTENDS Integers, FiniteSets

CONSTANTS
  Ids,           \* primary keys, ordered as integers
  Keys,          \* bound: values of the sort column; the greatest is the present
  NoKey,         \* the sort column is NULL
  Sizes,         \* page sizes the client asks for
  NoCursor

ASSUME PaginationAssumption ==
  /\ Ids \subseteq Int /\ IsFiniteSet(Ids) /\ NoCursor \notin Ids
  /\ Keys \subseteq Int /\ NoKey \notin Keys
  /\ \E k \in Keys : \A l \in Keys : l <= k
  /\ Sizes \subseteq Nat \ {0}

VARIABLES
  row,           \* the table
  walk,          \* the client: direction, cursor, and whether it goes on
  shown,         \* history: how often each row was received (2: more than once)
  steady,        \* history: rows that were there all the time and left alone
  lost           \* history: the cursor's row was used or purged under the walk

paginationVars == <<row, walk, shown, steady, lost>>

-----------------------------------------------------------------------------
\* absent: no such row; hidden: excluded by the query, as a soft-deleted session is
Row == [state : {"absent", "hidden", "listed"}, key : Keys \cup {NoKey}]
Walk == [descending : BOOLEAN, cursor : Ids \cup {NoCursor}, more : BOOLEAN]

PaginationTypeOK ==
  /\ row \in [Ids -> Row]
  /\ walk \in Walk
  /\ shown \in [Ids -> 0..2]
  /\ steady \subseteq Ids
  /\ lost \in BOOLEAN

Listed == {i \in Ids : row[i].state = "listed"}

PaginationInit ==
  /\ row \in [Ids -> {[state |-> "absent", key |-> NoKey]}
                       \cup [state : {"listed"}, key : Keys \cup {NoKey}]]
  /\ walk \in [descending : BOOLEAN, cursor : {NoCursor}, more : {TRUE}]
  /\ shown = [i \in Ids |-> 0]
  /\ steady = Listed
  /\ lost = FALSE

-----------------------------------------------------------------------------
(* cursor_paginate *)

Null(i) == row[i].key = NoKey
Tied(i, j) == row[i].key = row[j].key

\* ORDER BY sort_col DESC NULLS LAST, pk DESC, or sort_col ASC NULLS FIRST, pk ASC
Ascends(i, j) ==
  \/ Null(i) /\ ~Null(j)
  \/ Tied(i, j) /\ i < j
  \/ ~Null(i) /\ ~Null(j) /\ row[i].key < row[j].key
Precedes(i, j) == IF walk.descending THEN Ascends(j, i) ELSE Ascends(i, j)

\* The WHERE clause for a cursor whose row was found, which is written apart from the order.
FollowsDescending(i, c) ==
  IF Null(c) THEN Null(i) /\ i < c
  ELSE \/ ~Null(i) /\ row[i].key < row[c].key
       \/ Tied(i, c) /\ i < c
       \/ Null(i)
FollowsAscending(i, c) ==
  IF Null(c) THEN (Null(i) /\ i > c) \/ ~Null(i)
  ELSE \/ ~Null(i) /\ row[i].key > row[c].key
       \/ Tied(i, c) /\ i > c

\* Mutant: rows that tie with the cursor are taken for rows already received.
FollowsUntied(i) ==
  \/ walk.cursor = NoCursor
  \/ row[walk.cursor].state = "absent"
  \/ Precedes(walk.cursor, i) /\ ~Tied(walk.cursor, i)

\* Without a cursor, or when its row is gone, the first page.
Follows(i) ==
  \/ walk.cursor = NoCursor
  \/ row[walk.cursor].state = "absent"
  \/ IF walk.descending THEN FollowsDescending(i, walk.cursor)
     ELSE FollowsAscending(i, walk.cursor)

Found == {i \in Listed : Follows(i)}
Items(size) == {i \in Found : Cardinality({j \in Found : Precedes(j, i)}) < size}
HasMore(size) == Cardinality(Found) > size
Last(items) == CHOOSE i \in items : \A j \in items \ {i} : Precedes(j, i)

\* The next page; the client stops when has_more is false.
NextPage(size) ==
  /\ walk.more
  /\ walk' = [walk EXCEPT
       !.more = HasMore(size),
       !.cursor = IF HasMore(size) THEN Last(Items(size)) ELSE @]
  /\ shown' = [i \in Ids |->
       IF i \in Items(size) /\ shown[i] < 2 THEN shown[i] + 1 ELSE shown[i]]
  /\ UNCHANGED <<row, steady, lost>>

-----------------------------------------------------------------------------
(* What happens to the table meanwhile *)

Now == CHOOSE k \in Keys : \A l \in Keys : l <= k

Write(i, new, losesCursor) ==
  /\ walk.more
  /\ row' = [row EXCEPT ![i] = new]
  /\ steady' = steady \ {i}
  /\ lost' = (lost \/ (losesCursor /\ walk.cursor = i))
  /\ UNCHANGED <<walk, shown>>

\* A new session or message.
Create(i) ==
  /\ row[i].state = "absent"
  /\ Write(i, [state |-> "listed", key |-> Now], TRUE)

\* A refinement sets last_message_at.
Use(i) ==
  /\ walk.descending
  /\ row[i].state = "listed"
  /\ Write(i, [state |-> "listed", key |-> Now], TRUE)

\* delete_session: the row stays, and so does its place as a cursor.
Hide(i) ==
  /\ walk.descending
  /\ row[i].state = "listed"
  /\ Write(i, [row[i] EXCEPT !.state = "hidden"], FALSE)

\* purge_soft_deleted, of sessions or of a purged session's messages.
Purge(i) ==
  /\ row[i].state = IF walk.descending THEN "hidden" ELSE "listed"
  /\ Write(i, [state |-> "absent", key |-> NoKey], TRUE)

PaginationNext ==
  \/ \E size \in Sizes : NextPage(size)
  \/ \E i \in Ids : Create(i) \/ Use(i) \/ Hide(i) \/ Purge(i)

PaginationSpec == PaginationInit /\ [][PaginationNext]_paginationVars

-----------------------------------------------------------------------------
(* Properties *)

\* "Safe for nullable sort values and duplicate sort values": whatever is created, used,
\* deleted and purged between the pages, a row that is left alone is received exactly once by
\* the end of the walk and never twice before, unless the very row that is the cursor was used
\* or purged.
WalkShowsOnce ==
  ~lost => \A i \in steady :
    /\ shown[i] <= 1
    /\ ~walk.more => shown[i] = 1
=============================================================================
