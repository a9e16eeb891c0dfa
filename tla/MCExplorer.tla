----------------------------- MODULE MCExplorer -----------------------------
(***************************************************************************)
(* Instances of Explorer for TLC.  What the user may do makes the state    *)
(* space, so one run looks at five sessions of different gestures and      *)
(* bounds, one after another; Spec has every gesture and bounds that hold  *)
(* all of theirs.                                                          *)
(***************************************************************************)
EXTENDS Explorer

CONSTANTS q1, q2

VARIABLE session

\* q1 matches every entry, q2 those after the first; q2 lists the oldest first.
MCMatching == [q \in Searches |-> IF q = q1 THEN Entries ELSE Entries \ {1}]

Two == [q \in Searches |-> Matching[q] \ {3}]

\* Searches, pages and the live tail.
Searching == INSTANCE Explorer WITH
  MaxEntries <- 2, Matching <- Two, EntryLimit <- 2, Resolutions <- {24},
  Gestures <- {"run", "type", "more", "live"}

\* The pages of a search, newest or oldest first, that the tail runs ahead of.
Paging == INSTANCE Explorer WITH
  Resolutions <- {24}, Gestures <- {"more", "live", "refresh"}

\* Back and Forward between an open page, filters and displays.
Going == INSTANCE Explorer WITH
  MaxEntries <- 2, Matching <- Two, EntryLimit <- 1, Resolutions <- {24},
  Gestures <- {"filter", "history", "boot", "detail", "display"}

\* The drawer of an entry, under all that searches again.
Reading == INSTANCE Explorer WITH
  MaxEntries <- 2, Matching <- Two, EntryLimit <- 1, Resolutions <- {24},
  Gestures <- {"detail", "field", "range", "form", "library", "custom", "cancel"}

\* What is recorded as recent, while the window's width changes.
Recording == INSTANCE Explorer WITH
  Gestures <- {"filter", "refresh", "more", "resize", "display"}

SessionInit ==
  \/ session = "searching" /\ Searching!Init
  \/ session = "paging" /\ Paging!Init
  \/ session = "going" /\ Going!Init
  \/ session = "reading" /\ Reading!Init
  \/ session = "recording" /\ Recording!Init

SessionNext ==
  /\ UNCHANGED session
  /\ \/ session = "searching" /\ Searching!Next
     \/ session = "paging" /\ Paging!Next
     \/ session = "going" /\ Going!Next
     \/ session = "reading" /\ Reading!Next
     \/ session = "recording" /\ Recording!Next

SessionSpec == SessionInit /\ [][SessionNext]_<<session, vars>>
=============================================================================
