------------------------------ MODULE EntryList ------------------------------
(***************************************************************************)
(* The list of entries and the detail drawer as drawn                      *)
(* (src/web/src/features/logs, src/web/src/app/bootstrap.ts).              *)
(*                                                                         *)
(* Every live entry and every answer draws the whole list again.  What the *)
(* user opened in it, the keyboard's place in it and the drawer's buttons  *)
(* must survive that.  Entries are numbers, newer ones greater; the newest *)
(* is listed first.                                                        *)
(***************************************************************************)
EXTENDS Places, Sequences, SequencesExt

CONSTANTS
  MaxEntry,  \* bound: entries are 1 .. MaxEntry
  Limit      \* entryLimit of the response

ASSUME EntryListAssumption == MaxEntry \in Nat \ {0} /\ Limit \in Nat \ {0}

VARIABLES
  entries,   \* state.entries, and the rows drawn
  expanded,  \* state.expandedEntries: all ("*"), or some
  settings,  \* what the drawing depends on: highlight, summary fields, language
  inline,    \* the expanded entries drawn: is the raw JSON shown?
  selected,  \* state.selectedId, 0 for none
  drawer,    \* is the dialog open?
  locked,    \* class drawer-open: the page does not scroll
  detail,    \* what the drawer shows
  back,      \* detailReturnFocusId
  focus,     \* the row that has the focus, 0 if it is elsewhere
  row        \* history: the row the user's focus was on last, while it is listed

listVars == <<entries, expanded, settings, inline, selected, drawer, locked, detail, back,
              focus, row>>

EntryIds == 1 .. MaxEntry

IsExpanded(x, id) == x.all \/ id \in x.ids

NoDetail == [id |-> 0, raw |-> FALSE, settings |-> FALSE, first |-> FALSE, last |-> FALSE]

Index(list, id) == CHOOSE i \in DOMAIN list : list[i] = id

StillListed(id, list) == IF id \in Range(list) THEN id ELSE 0

Newest(ids) == Falling(ids)

\* Slip: inline entries are drawn anew each time.
RenderEntriesAnew(list, x, s) ==
  [id \in {i \in Range(list) : IsExpanded(x, i)} |-> FALSE]

\* renderEntries: an entry drawn before with the same settings keeps its node.
RenderEntries(list, x, s) ==
  [id \in {i \in Range(list) : IsExpanded(x, i)} |->
     IF id \in DOMAIN inline /\ s = settings THEN inline[id] ELSE FALSE]

\* Slip: a body that is kept keeps its buttons, too.
RenderDetailStale(list, sel, s) ==
  IF sel \notin Range(list) THEN NoDetail
  ELSE IF detail.id = sel /\ detail.settings = s THEN detail
  ELSE [id |-> sel, raw |-> FALSE, settings |-> s, first |-> Head(list) = sel,
        last |-> Last(list) = sel]

\* renderDetail: the body is kept while entry and settings are the same; the
\* previous and next buttons are disabled at the ends.
RenderDetail(list, sel, s) ==
  IF sel \notin Range(list) THEN NoDetail
  ELSE [id |-> sel, raw |-> detail.id = sel /\ detail.settings = s /\ detail.raw,
        settings |-> s, first |-> Head(list) = sel, last |-> Last(list) = sel]

ListInit ==
  /\ entries = <<>> /\ inline = <<>>
  /\ expanded \in {[all |-> a, ids |-> {}] : a \in BOOLEAN} \cup {[all |-> FALSE, ids |-> {1}]}
  /\ settings = FALSE
  /\ selected \in {0, 1} /\ drawer = FALSE /\ locked = FALSE /\ detail = NoDetail
  /\ back = 0 /\ focus = 0 /\ row = 0
-----------------------------------------------------------------------------
(* Rendering from outside. *)

\* Rows are new elements: the focus that was on one is lost.
Draw(list, x, s) ==
  /\ entries' = list /\ expanded' = x /\ settings' = s
  /\ inline' = RenderEntries(list, x, s)

\* Slip: the list grows beyond the limit.
LiveEntryUntrimmed(new) ==
  LET list == Newest(Range(entries) \cup {new})
  IN  /\ new \notin Range(entries)
      /\ Draw(list, expanded, settings)
      /\ detail' = RenderDetail(list, selected, settings)
      /\ focus' = 0
      /\ UNCHANGED <<selected, drawer, locked, back, row>>

\* appendTailEntry.  renderDetail closes the dialog of an entry that was
\* trimmed, and leaves selectedId and the class.
LiveEntry(new) ==
  LET list == Newest(Range(entries) \cup {new})
      kept == SubSeq(list, 1, IF Len(list) <= Limit THEN Len(list) ELSE Limit)
  IN  /\ new \notin Range(entries)
      /\ Draw(kept, expanded, settings)
      /\ detail' = RenderDetail(kept, selected, settings)
      /\ drawer' = (drawer /\ selected \in Range(kept))
      /\ focus' = 0 /\ row' = StillListed(row, kept)
      /\ UNCHANGED <<selected, locked, back>>

\* The success of loadExplorer: an entry that is selected and not there is
\* given up (the drawer closes as it is), one that is there is opened.
AnswerArrives(list) ==
  LET there == selected \in Range(list)
  IN  /\ Draw(list, expanded, settings)
      /\ selected' = IF there THEN selected ELSE 0
      /\ drawer' = (there \/ (drawer /\ selected = 0))
      /\ locked' = (there \/ (locked /\ selected = 0))
      /\ detail' = IF there THEN RenderDetail(list, selected, settings) ELSE detail
      /\ back' = IF there \/ selected # 0 THEN selected' ELSE back
      /\ focus' = 0 /\ row' = StillListed(row, list)
-----------------------------------------------------------------------------
(* The keyboard, while no drawer is open. *)

Target(delta) ==
  LET at == IF focus # 0 THEN Index(entries, focus)
            ELSE IF selected \in Range(entries) THEN Index(entries, selected) ELSE 1
      to == IF delta > 0 THEN at + 1 ELSE IF at = 1 THEN 1 ELSE at - 1
  IN  entries[IF to > Len(entries) THEN Len(entries) ELSE to]

\* moveEntryFocus
Goes(to) ==
  /\ entries # <<>> /\ ~drawer
  /\ focus' = to /\ row' = to
  /\ UNCHANGED <<entries, expanded, settings, inline, selected, drawer, locked, detail, back>>

\* j and k work anywhere, the arrows in the list.
MoveDown == entries # <<>> /\ Goes(Target(1))
MoveUp == entries # <<>> /\ Goes(Target(0))

\* Home and End work in the list.
MoveToEnd == focus # 0 /\ (Goes(Head(entries)) \/ Goes(Last(entries)))
-----------------------------------------------------------------------------
(* The mouse. *)

OpenDetail(id) ==
  /\ selected' = id /\ back' = id /\ drawer' = TRUE /\ locked' = TRUE
  /\ detail' = RenderDetail(entries, id, settings)
  /\ focus' = 0 /\ row' = 0
  /\ UNCHANGED <<entries, expanded, settings, inline>>

ClickRow(id) == ~drawer /\ OpenDetail(id)

Previous == drawer /\ ~detail.first /\ OpenDetail(entries[Index(entries, detail.id) - 1])

NextEntry == drawer /\ ~detail.last /\ OpenDetail(entries[Index(entries, detail.id) + 1])

\* Slip: the page stays locked.
CloseDetailLocked ==
  /\ drawer
  /\ drawer' = FALSE /\ selected' = 0 /\ detail' = NoDetail /\ back' = 0
  /\ focus' = IF back \in Range(entries) THEN back ELSE 0
  /\ row' = focus'
  /\ UNCHANGED <<entries, expanded, settings, inline, locked>>

\* The focus goes back to the row, if it is still listed.
CloseDetail ==
  /\ drawer
  /\ drawer' = FALSE /\ locked' = FALSE /\ selected' = 0 /\ detail' = NoDetail /\ back' = 0
  /\ focus' = IF back \in Range(entries) THEN back ELSE 0
  /\ row' = focus'
  /\ UNCHANGED <<entries, expanded, settings, inline>>

\* The fields or the raw JSON of the drawer's entry, or of one in the list.
DetailRaw ==
  /\ drawer
  /\ detail' = [detail EXCEPT !.raw = ~@] /\ focus' = 0 /\ row' = 0
  /\ UNCHANGED <<entries, expanded, settings, inline, selected, drawer, locked, back>>

InlineRaw(id) ==
  /\ ~drawer /\ id \in DOMAIN inline
  /\ inline' = [inline EXCEPT ![id] = ~@] /\ focus' = 0 /\ row' = 0
  /\ UNCHANGED <<entries, expanded, settings, selected, drawer, locked, detail, back>>

Redraws(x, s) ==
  /\ Draw(entries, x, s) /\ focus' = 0 /\ row' = 0
  /\ UNCHANGED <<selected, locked, back>>

\* Slip: an entry of "all" is added to the list of its exceptions.
TogglesOfAll(id) ==
  [all |-> FALSE, ids |-> IF id \in expanded.ids THEN expanded.ids \ {id}
                          ELSE expanded.ids \cup {id}]

\* Out of "all", the listed entries but this one stay.
Toggles(id) ==
  [all |-> FALSE,
   ids |-> IF expanded.all THEN Range(entries) \ {id}
           ELSE IF id \in expanded.ids THEN expanded.ids \ {id}
           ELSE expanded.ids \cup {id}]

ToggleExpand(id) ==
  /\ ~drawer /\ Redraws(Toggles(id), settings) /\ UNCHANGED <<drawer, detail>>

\* Expand all, collapse all.
ExpandAll(all) ==
  /\ ~drawer /\ Redraws([all |-> all, ids |-> {}], settings)
  /\ detail' = RenderDetail(entries, selected, settings) /\ drawer' = drawer

\* Highlighting redraws the list only; choosing summary fields in an entry, or
\* the language, the detail as well.
Highlight ==
  /\ ~drawer /\ Redraws(expanded, ~settings) /\ UNCHANGED <<drawer, detail>>

ChooseSummary ==
  /\ drawer \/ inline # <<>>
  /\ Redraws(expanded, ~settings)
  /\ detail' = RenderDetail(entries, selected, ~settings)
  /\ drawer' = (drawer /\ detail'.id # 0)

Pages == {Newest(ids) : ids \in {s \in SUBSET EntryIds : Cardinality(s) <= Limit}}

ListNext ==
  \/ \E new \in EntryIds : LiveEntry(new)
  \/ \E list \in Pages : AnswerArrives(list)
  \/ MoveDown \/ MoveUp \/ MoveToEnd
  \/ Previous \/ NextEntry \/ CloseDetail \/ DetailRaw
  \/ \E id \in Range(entries) : ClickRow(id) \/ InlineRaw(id) \/ ToggleExpand(id)
  \/ \E all \in BOOLEAN : ExpandAll(all)
  \/ Highlight \/ ChooseSummary

ListSpec == ListInit /\ [][ListNext]_listVars
-----------------------------------------------------------------------------
(* Type invariant. *)
ListTypeOK ==
  /\ entries \in Seq(EntryIds) /\ Len(entries) <= Limit
  /\ expanded \in [all : BOOLEAN, ids : SUBSET EntryIds] /\ settings \in BOOLEAN
  /\ inline \in [{id \in Range(entries) : IsExpanded(expanded, id)} -> BOOLEAN]
  /\ selected \in 0 .. MaxEntry /\ drawer \in BOOLEAN /\ locked \in BOOLEAN
  /\ detail.id \in 0 .. MaxEntry /\ back \in 0 .. MaxEntry
  /\ focus \in {0} \cup Range(entries) /\ row \in 0 .. MaxEntry

\* Test: "live updates preserve raw detail and inline expansion": for every
\* entry that stays in the list.
LiveKeepsOpened ==
  [][(\E new \in EntryIds : LiveEntry(new)) =>
        /\ \A id \in DOMAIN inline \cap Range(entries') :
             id \in DOMAIN inline' /\ inline'[id] = inline[id]
        /\ drawer' => drawer /\ detail'.raw = detail.raw]_listVars

\* Previous and next are offered exactly where there is an entry, however the
\* list has changed under the open drawer.
NeighboursOffered ==
  drawer => /\ detail.id = selected /\ selected \in Range(entries)
            /\ detail.first <=> Index(entries, selected) = 1
            /\ detail.last <=> Index(entries, selected) = Len(entries)

\* Expanding or collapsing an entry does that to no other, also after all were
\* expanded.
ExpandsOne ==
  [][\A id \in EntryIds : ToggleExpand(id) =>
       \A other \in Range(entries) :
         IsExpanded(expanded', other) <=> (IsExpanded(expanded, other) # (other = id))]_listVars

\* The page is locked only while an entry is selected.
LockedWhileSelected == (drawer => locked) /\ (locked => selected # 0)

\* README: "j / ArrowDown: Move to the next log row": from the row the focus
\* was on last.
MovesToNextRow ==
  [][MoveDown /\ row # 0 /\ row # Last(entries) =>
       focus' = entries[Index(entries, row) + 1]]_listVars
=============================================================================
