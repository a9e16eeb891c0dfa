----------------------------- MODULE Pagination -----------------------------
(***************************************************************************)
(* The pages of GET /api/explorer over a table that changes between them:  *)
(* SearchEntries reads the rows of a window chunk by chunk                 *)
(* (src/internal/storage/sqlite/sqlite.go), paginateResponse cuts a page   *)
(* from what it found (src/internal/explorer/service.go), and the next     *)
(* page continues behind the cursor (src/internal/explorer/cursor.go).     *)
(*                                                                         *)
(* Entries are those in the window.  A search reads all its chunks under   *)
(* the store's mutex: writes and clean-ups fall between searches.  What    *)
(* the code sorts is a set here, in the order of IsAfterCursor.            *)
(***************************************************************************)
EXTENDS Integers, FiniteSets, Sequences

CONSTANTS
  Rows,
  Stamp,      \* time of each entry
  Id,         \* order of the insert IDs
  Hits,       \* entries the query matches
  Chunk,      \* searchChunkSize
  MaxEntries, \* explorer.MaxEntries
  Limit,      \* the page size, between 1 and 1000
  NoPlace

PaginationAssumption ==
  /\ IsFiniteSet(Rows) /\ Hits \subseteq Rows
  /\ Stamp \in [Rows -> Nat] /\ Id \in [Rows -> Nat]
  /\ NoPlace \notin Rows /\ NoPlace \notin {"asc", "desc"}
  /\ \A d, e \in Rows : Id[d] = Id[e] => d = e
  /\ Chunk \in Nat \ {0} /\ MaxEntries \in Nat \ {0} /\ Limit \in Nat \ {0}

VARIABLES
  stored,    \* the rows of the table logs
  searching, \* of SearchEntries: idle, reading its chunks, or read
  found,     \* its entries
  last,      \* lastTimestamp and lastInsertID, or NoPlace without hasCursor
  truncated,
  order,     \* the sort of the walk through the pages, or NoPlace
  cursor,    \* the page token: of which entry, or NoPlace
  pages,     \* the pages so far
  kept,      \* history: what was stored all the time since the first page
  cut,       \* history: was an answer marked truncated,
  partial    \* and was one marked approximate?

reading  == <<searching, found, last, truncated>>
walk     == <<order, cursor, pages, kept, cut, partial>>
walkVars == <<stored, reading, walk>>

Orders == {"asc", "desc"}

WalkInit ==
  /\ stored \in SUBSET Rows
  /\ searching = "idle" /\ found = {} /\ last = NoPlace /\ truncated = FALSE
  /\ order = NoPlace /\ cursor = NoPlace /\ pages = <<>> /\ kept = {}
  /\ cut = FALSE /\ partial = FALSE
-----------------------------------------------------------------------------
\* IsAfterCursor, and the condition of the next chunk.
IsAfterCursor(e, c, sort) ==
  IF Stamp[e] = Stamp[c] THEN IF sort = "asc" THEN Id[e] > Id[c] ELSE Id[e] < Id[c]
  ELSE IF sort = "asc" THEN Stamp[e] > Stamp[c] ELSE Stamp[e] < Stamp[c]

\* What comes before e in S.
Earlier(e, S, sort) == {d \in S : IsAfterCursor(e, d, sort)}

\* The first n of S, and the last one of all.
First(n, S, sort) == {e \in S : Cardinality(Earlier(e, S, sort)) < n}

Final(S, sort) == CHOOSE e \in S : \A d \in S : d = e \/ IsAfterCursor(e, d, sort)

\* What of S lies behind the cursor c.
Behind(c, S, sort) == {e \in S : c = NoPlace \/ IsAfterCursor(e, c, sort)}

\* A call of SearchEntries begins and ends with its own variables.
Begin == searching = "idle" /\ searching' = "reading" /\ UNCHANGED <<found, last, truncated>>

End == searching' = "idle" /\ found' = {} /\ last' = NoPlace /\ truncated' = FALSE

\* Slip: a chunk that is full is taken for the last one.
ReadAll ==
  LET rows == First(Chunk, stored, order)
  IN /\ searching = "reading" /\ searching' = "read"
     /\ found' = First(MaxEntries, rows \cap Hits, order)
     /\ truncated' = (Cardinality(rows \cap Hits) > MaxEntries)
     /\ UNCHANGED <<stored, last, walk>>

\* One chunk of SearchEntries: the rows behind the last one, up to Chunk of them,
\* of which those that match are kept until MaxEntries of them are found.
ReadChunk ==
  LET rows == First(Chunk, Behind(last, stored, order), order)
      hits == found \cup (rows \cap Hits)
  IN /\ searching = "reading"
     /\ found' = First(MaxEntries, hits, order)
     /\ last' = IF rows = {} THEN last ELSE Final(rows, order)
     /\ truncated' = (Cardinality(hits) > MaxEntries)
     /\ searching' = IF truncated' \/ Cardinality(rows) < Chunk THEN "read" ELSE "reading"
     /\ UNCHANGED <<stored, walk>>

\* The request is given up, or a row or the containers cannot be read.
Fail ==
  /\ searching # "idle" /\ End
  /\ order' = IF pages = <<>> THEN NoPlace ELSE order
  /\ UNCHANGED <<stored, cursor, pages, kept, cut, partial>>

\* Slip: the cursor's entry is looked up, and the page begins where it is.
FromCursor == {e \in found : cursor = NoPlace \/ e = cursor \/ IsAfterCursor(e, cursor, order)}

\* paginateResponse: what follows the cursor.
Remaining == Behind(cursor, found, order)

\* Slip: there are further pages only when another one is full.
TokenIfFull(rest) ==
  IF Cardinality(rest) >= 2 * Limit THEN Final(First(Limit, rest, order), order) ELSE NoPlace

\* Slip: the last page names a next one.
TokenOfAny(rest) == IF rest = {} THEN NoPlace ELSE Final(First(Limit, rest, order), order)

\* nextPageToken.
NextToken(rest) ==
  IF Cardinality(rest) > Limit THEN Final(First(Limit, rest, order), order) ELSE NoPlace

\* searchStore, whatever it found.
Approximate == FALSE

\* searchStore and paginateResponse: one page.
AnswerPage ==
  /\ searching = "read" /\ End
  /\ pages' = Append(pages, First(Limit, Remaining, order))
  /\ cursor' = NextToken(Remaining)
  /\ cut' = (cut \/ truncated) /\ partial' = (partial \/ Approximate)
  /\ UNCHANGED <<stored, order, kept>>
-----------------------------------------------------------------------------
FirstPage(sort) ==
  /\ order = NoPlace /\ order' = sort
  /\ Begin
  /\ kept' = stored \cap Hits
  /\ UNCHANGED <<stored, cursor, pages, cut, partial>>

NextPage == cursor # NoPlace /\ Begin /\ UNCHANGED <<stored, walk>>

\* WriteBatch, of entries of any age.
WriteRow(e) ==
  /\ searching = "idle"
  /\ e \notin stored /\ stored' = stored \cup {e}
  /\ UNCHANGED <<reading, walk>>

\* Cleanup removes what is older.
Cleanup(before) ==
  /\ searching = "idle"
  /\ \E e \in stored : Stamp[e] < before
  /\ stored' = {e \in stored : Stamp[e] >= before} /\ kept' = kept \cap stored'
  /\ UNCHANGED <<reading, order, cursor, pages, cut, partial>>

WalkNext ==
  \/ \E sort \in Orders : FirstPage(sort)
  \/ NextPage
  \/ ReadChunk
  \/ Fail
  \/ AnswerPage
  \/ \E e \in Rows : WriteRow(e) \/ Cleanup(Stamp[e])

WalkSpec == WalkInit /\ [][WalkNext]_walkVars
-----------------------------------------------------------------------------
\* The variables have their types, and only a full page names a next one.
WalkTypeOK ==
  /\ stored \subseteq Rows /\ searching \in {"idle", "reading", "read"}
  /\ found \subseteq Hits /\ last \in Rows \cup {NoPlace} /\ truncated \in BOOLEAN
  /\ order \in Orders \cup {NoPlace} /\ cursor \in Rows \cup {NoPlace}
  /\ pages \in Seq(SUBSET Hits) /\ kept \subseteq Hits \cap stored
  /\ cut \in BOOLEAN /\ partial \in BOOLEAN
  /\ \A i \in 1 .. Len(pages) : Cardinality(pages[i]) <= Limit
  /\ cursor # NoPlace => pages # <<>> /\ Cardinality(pages[Len(pages)]) = Limit

\* Reading chunk by chunk finds what one reading of the window would: the first
\* MaxEntries matches in order, marked when there are more, and no row is read
\* twice (SearchEntries).
ChunksAreWindow ==
  /\ searching = "read" =>
       /\ found = First(MaxEntries, stored \cap Hits, order)
       /\ truncated = (Cardinality(stored \cap Hits) > MaxEntries)
  /\ searching = "reading" => found \cap Behind(last, stored, order) = {}

\* No entry is on two pages, and later pages continue the order, whatever is
\* written and removed between them (IsAfterCursor, paginateResponse).
PagesContinue ==
  \A i, j \in 1 .. Len(pages) : i < j =>
    \A d \in pages[i], e \in pages[j] : IsAfterCursor(e, d, order)

Listed == UNION {pages[i] : i \in 1 .. Len(pages)}

\* A walk to the last page has listed what was there all the time, unless an
\* answer said that it was truncated.
NothingSkipped ==
  pages # <<>> /\ cursor = NoPlace /\ ~cut => kept \subseteq Listed

\* The walk through the pages is that of one list.
WalkSound == WalkTypeOK /\ ChunksAreWindow /\ PagesContinue /\ NothingSkipped

\* An answer that a limit cut short says that it is approximate (searchStore).
LimitIsTold == cut => partial
=============================================================================
