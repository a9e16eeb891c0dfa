------------------------------- MODULE WebApp -------------------------------
(***************************************************************************)
(* The pages and dialogs of the web application beside the explorer's      *)
(* search: they run on one thread and share no state (src/web/src/app,     *)
(* src/web/src/features).  What is asked of several of them is asked here. *)
(***************************************************************************)
EXTENDS AlertsPage, NodesPage, Overlays, TimelineDrag, EntryList, QueryLibrary, QueryEditor

\* Used one request at a time, the page of the alert policies stays in step with
\* the Hub.  Beside an entry's detail, previous and next are offered exactly
\* where there is an entry, and the page is locked only while one is selected,
\* under the live entries that move it.  What is in the editor is what will be
\* saved and run; a value is only ever put behind the field it is a value of and
\* an operator; a suggestion on offer replaces words and blanks of one line only.
PagesAgree ==
  /\ TypeOK /\ InStep
  /\ ListTypeOK /\ NeighboursOffered /\ LockedWhileSelected
  /\ EditorTypeOK /\ DraftIsText /\ ValueOfItsField /\ TakesOnlyTheWord

\* The tabs and their open libraries agree with the storage about what is saved,
\* up to events that are due; no query is in the history twice.
LibraryAgrees == LibraryTypeOK /\ SavedIsStored /\ LibraryShowsSaved /\ RecentOnce

\* Saving and redrawing disturb nothing else: a saved query is lost only by its
\* deletion, or at the end of a full list; live updates keep what is expanded
\* and the raw detail, and expanding an entry does that to no other.
NothingForgotten == SavedUntilDeleted /\ LiveKeepsOpened /\ ExpandsOne
=============================================================================
