---------------------------- MODULE QueryLibrary ----------------------------
(***************************************************************************)
(* Saved and recent queries (src/web/src/features/workspace).              *)
(*                                                                         *)
(* Every tab of the browser keeps its own copy of the two lists, writes    *)
(* them whole to the storage they share, and hears of the others' writes   *)
(* to the saved list later.  The open library is a drawing of the copy.    *)
(***************************************************************************)
EXTENDS Places, Sequences, SequencesExt

CONSTANTS
  Tabs,          \* the pages open in one browser
  Snapshots,     \* what a snapshot of the search can be
  SavedLimit,    \* 100 in the code
  RecentLimit,   \* 50 in the code
  MaxId,         \* bound: items ever made
  StorageFails   \* may localStorage refuse to write?

ASSUME QueryLibraryAssumption ==
  /\ SavedLimit \in Nat \ {0} /\ RecentLimit \in Nat \ {0} /\ MaxId \in Nat
  /\ StorageFails \in BOOLEAN

VARIABLES
  store,    \* localStorage: the two lists
  lists,    \* saved and recent of each tab
  notified, \* the tabs to which a storage event for the saved list is due
  form,     \* the search in the form of each tab
  loading,  \* is it under way?
  open,     \* the dialog that is open: "none", "library" or "save"
  tab,      \* libraryTab
  items,    \* the list the open library was drawn from, and its handlers use
  asking,   \* the item the browser asks whether to delete; 0 otherwise
  ids       \* items made so far

libraryVars == <<store, lists, notified, form, loading, open, tab, items, asking, ids>>

Kinds == {"saved", "recent"}

First(limit, list) == SubSeq(list, 1, IF Len(list) <= limit THEN Len(list) ELSE limit)

Has(list, id) == \E i \in DOMAIN list : list[i].id = id

\* Slip: everything with the same query goes.
WithoutQuery(list, id) ==
  Kept(list, {i \in DOMAIN list : \A old \in Range(list) : old.id = id => old.query # list[i].query})

Without(list, id) == Kept(list, {i \in DOMAIN list : list[i].id # id})

\* Slip: a query that is asked again is listed again.
RecentTwice(list, item) == First(RecentLimit, <<item>> \o list)

\* The new list of recordQuery: a query that is asked again moves to the front.
Recent(list, item) ==
  First(RecentLimit, <<item>> \o Kept(list, {i \in DOMAIN list : list[i].query # item.query}))

\* What renderLibrary draws in a tab, from its copies.
Drawn(copy, which) == IF which \in Kinds THEN copy[which] ELSE <<>>

Empty == [kind \in Kinds |-> <<>>]

LibraryInit ==
  /\ store = Empty /\ lists = [t \in Tabs |-> Empty]
  /\ notified = {} /\ form \in [Tabs -> Snapshots] /\ loading = [t \in Tabs |-> TRUE]
  /\ open = [t \in Tabs |-> "none"] /\ tab = [t \in Tabs |-> "recent"]
  /\ items = [t \in Tabs |-> <<>>] /\ asking = [t \in Tabs |-> 0] /\ ids = 0
-----------------------------------------------------------------------------
\* persist: the other tabs get an event if the saved list has changed.
Persist(t, kind, list, fails) ==
  /\ fails => StorageFails
  /\ store' = IF fails THEN store ELSE [store EXCEPT ![kind] = list]
  /\ notified' = IF ~fails /\ kind = "saved" /\ list # store.saved
                 THEN notified \cup (Tabs \ {t}) ELSE notified

\* Slip: the copy in memory is the new one even if the storage refused it.
WriteAnyway(t, kind, list, fails) ==
  /\ Persist(t, kind, list, fails)
  /\ lists' = [lists EXCEPT ![t][kind] = list]

\* A list that the user changes is the tab's when it has been written.
Write(t, kind, list, fails) ==
  /\ Persist(t, kind, list, fails)
  /\ lists' = IF fails THEN lists ELSE [lists EXCEPT ![t][kind] = list]

\* Nothing of a tab runs while the browser asks for a confirmation in it.
Runs(t) == asking[t] = 0

NewItem(q) == [id |-> ids + 1, query |-> q]

\* The search changes by what the page offers while no dialog is open.
Search(t, q) ==
  /\ Runs(t) /\ open[t] = "none"
  /\ form' = [form EXCEPT ![t] = q] /\ loading' = [loading EXCEPT ![t] = TRUE]
  /\ UNCHANGED <<store, lists, notified, open, tab, items, asking, ids>>

\* An answer is recorded, in memory at least.  The library is not drawn again,
\* should it be open.
RecordQuery(t, fails) ==
  /\ Runs(t) /\ loading[t] /\ ids < MaxId
  /\ loading' = [loading EXCEPT ![t] = FALSE]
  /\ ids' = ids + 1
  /\ lists' = [lists EXCEPT ![t].recent = Recent(@, NewItem(form[t]))]
  /\ Persist(t, "recent", lists'[t].recent, fails)
  /\ UNCHANGED <<form, open, tab, items, asking>>

\* A load that fails is not recorded.
LoadFails(t) ==
  /\ Runs(t) /\ loading[t] /\ loading' = [loading EXCEPT ![t] = FALSE]
  /\ UNCHANGED <<store, lists, notified, form, open, tab, items, asking, ids>>

\* showLibrary, and the tabs of the dialog: both draw the list.
ShowLibrary(t, which) ==
  /\ Runs(t)
  /\ \/ open[t] = "none" /\ which = tab[t]
     \/ open[t] = "library" /\ which # tab[t]
  /\ open' = [open EXCEPT ![t] = "library"] /\ tab' = [tab EXCEPT ![t] = which]
  /\ items' = [items EXCEPT ![t] = Drawn(lists[t], which)]
  /\ UNCHANGED <<store, lists, notified, form, loading, asking, ids>>

\* "Run" and "Load" of an item; "Load" does not start a search.
UseItem(t, id, run) ==
  /\ Runs(t) /\ open[t] = "library"
  /\ \/ tab[t] = "suggested" /\ form' \in {[form EXCEPT ![t] = q] : q \in Snapshots}
     \/ \E item \in Range(items[t]) :
          item.id = id /\ form' = [form EXCEPT ![t] = item.query]
  /\ open' = [open EXCEPT ![t] = "none"]
  /\ loading' = [loading EXCEPT ![t] = loading[t] \/ run]
  /\ UNCHANGED <<store, lists, notified, tab, items, asking, ids>>

\* "Delete" asks first, in a dialog of the browser that stops the page.
AskDelete(t, id) ==
  /\ Runs(t) /\ open[t] = "library" /\ tab[t] # "suggested" /\ Has(items[t], id)
  /\ asking' = [asking EXCEPT ![t] = id]
  /\ UNCHANGED <<store, lists, notified, form, loading, open, tab, items, ids>>

\* What is written is the list that was drawn, without the item.
ConfirmDelete(t, fails) ==
  LET next == Without(items[t], asking[t])
  IN  /\ asking[t] # 0
      /\ Write(t, tab[t], next, fails)
      /\ items' = IF fails THEN items ELSE [items EXCEPT ![t] = next]
      /\ asking' = [asking EXCEPT ![t] = 0]
      /\ UNCHANGED <<form, loading, open, tab, ids>>

DismissDelete(t) ==
  /\ asking[t] # 0 /\ asking' = [asking EXCEPT ![t] = 0]
  /\ UNCHANGED <<store, lists, notified, form, loading, open, tab, items, ids>>

OpenSave(t) ==
  /\ Runs(t) /\ open[t] = "none" /\ open' = [open EXCEPT ![t] = "save"]
  /\ UNCHANGED <<store, lists, notified, form, loading, tab, items, asking, ids>>

\* saveQuery: the dialog stays open when the storage refuses.
SaveQuery(t, fails) ==
  /\ Runs(t) /\ open[t] = "save" /\ ids < MaxId
  /\ ids' = ids + 1
  /\ Write(t, "saved", First(SavedLimit, <<NewItem(form[t])>> \o lists[t].saved), fails)
  /\ open' = [open EXCEPT ![t] = IF fails THEN "save" ELSE "none"]
  /\ UNCHANGED <<form, loading, tab, items, asking>>

CloseLibraryDialog(t) ==
  /\ Runs(t) /\ open[t] # "none" /\ open' = [open EXCEPT ![t] = "none"]
  /\ UNCHANGED <<store, lists, notified, form, loading, tab, items, asking, ids>>

\* Slip: the open library shows the list as it was.
StorageEventSilent(t) ==
  /\ Runs(t) /\ t \in notified
  /\ notified' = notified \ {t} /\ lists' = [lists EXCEPT ![t].saved = store.saved]
  /\ UNCHANGED <<store, form, loading, open, tab, items, asking, ids>>

\* The storage listener.
StorageEvent(t) ==
  /\ Runs(t) /\ t \in notified
  /\ notified' = notified \ {t}
  /\ lists' = [lists EXCEPT ![t].saved = store.saved]
  /\ items' = IF open[t] = "library" THEN [items EXCEPT ![t] = Drawn(lists'[t], tab[t])]
              ELSE items
  /\ UNCHANGED <<store, form, loading, open, tab, asking, ids>>

\* The page is loaded again (setupWorkspace): with the search of its address.
Reload(t) ==
  /\ lists' = [lists EXCEPT ![t] = store] /\ notified' = notified \ {t}
  /\ loading' = [loading EXCEPT ![t] = TRUE] /\ open' = [open EXCEPT ![t] = "none"]
  /\ tab' = [tab EXCEPT ![t] = "recent"] /\ items' = [items EXCEPT ![t] = <<>>]
  /\ asking' = [asking EXCEPT ![t] = 0]
  /\ UNCHANGED <<store, form, ids>>

TabNext(t) ==
  \/ \E q \in Snapshots : Search(t, q)
  \/ \E fails \in BOOLEAN : RecordQuery(t, fails) \/ ConfirmDelete(t, fails) \/ SaveQuery(t, fails)
  \/ LoadFails(t) \/ DismissDelete(t) \/ OpenSave(t) \/ CloseLibraryDialog(t)
  \/ \E which \in Kinds \cup {"suggested"} : ShowLibrary(t, which)
  \/ \E id \in 1 .. MaxId : AskDelete(t, id) \/ \E run \in BOOLEAN : UseItem(t, id, run)
  \/ StorageEvent(t) \/ Reload(t)

LibraryNext == \E t \in Tabs : TabNext(t)

LibrarySpec == LibraryInit /\ [][LibraryNext]_libraryVars
-----------------------------------------------------------------------------
(* Properties. *)

Item == [id : 1 .. MaxId, query : Snapshots]

List(kind) == {list \in Seq(Item) : Len(list) <= IF kind = "saved" THEN SavedLimit ELSE RecentLimit}

\* Type invariant.
LibraryTypeOK ==
  /\ \A kind \in Kinds : store[kind] \in List(kind) /\ \A t \in Tabs : lists[t][kind] \in List(kind)
  /\ notified \subseteq Tabs /\ form \in [Tabs -> Snapshots] /\ loading \in [Tabs -> BOOLEAN]
  /\ open \in [Tabs -> {"none", "library", "save"}] /\ tab \in [Tabs -> Kinds \cup {"suggested"}]
  /\ \A t \in Tabs : items[t] \in Seq(Item)
  /\ asking \in [Tabs -> 0 .. MaxId] /\ ids \in 0 .. MaxId

\* The tabs agree with the storage about what is saved, up to the events that
\* are due, also when the storage refuses a write.
SavedIsStored == \A t \in Tabs \ notified : lists[t].saved = store.saved

\* The open library shows what is saved, whichever tab saved it.
LibraryShowsSaved ==
  \A t \in Tabs : open[t] = "library" /\ tab[t] = "saved" => items[t] = lists[t].saved

\* No query is in the history twice.
RecentOnce ==
  \A t \in Tabs : \A i, j \in DOMAIN lists[t].recent :
    lists[t].recent[i].query = lists[t].recent[j].query => i = j

\* What leaves the stored list of saved queries.
Leaves(kind, id) == Has(store[kind], id) /\ ~Has(store'[kind], id)

\* A saved query is lost only by its deletion, or at the end of a full list, in
\* every tab that has heard of it.
KeepsSaved ==
  \A id \in 1 .. MaxId : Leaves("saved", id) =>
    \/ Last(store.saved).id = id /\ Len(store.saved) = SavedLimit
    \/ \E t \in Tabs : lists'[t] # lists[t] /\ (t \in notified \/ asking[t] = id)
SavedUntilDeleted == [][KeepsSaved]_libraryVars

\* "Query saved in this browser", "Saved queries and history are stored in this
\* browser": one that is not deleted stays, whichever tab it was saved in.
SavedStaysSaved ==
  [][\A id \in 1 .. MaxId : Leaves("saved", id) =>
       \/ Last(store.saved).id = id /\ Len(store.saved) = SavedLimit
       \/ \E t \in Tabs : asking[t] = id]_libraryVars

\* The same of the history, in one tab: a query leaves it when it is deleted,
\* asked again, or the oldest of a full list.
HistoryStays ==
  [][\A id \in 1 .. MaxId : Leaves("recent", id) =>
       \/ Last(store.recent).id = id /\ Len(store.recent) = RecentLimit
       \/ \E t \in Tabs : asking[t] = id
       \/ \E i \in DOMAIN store.recent :
            store.recent[i].id = id /\ store'.recent # <<>>
            /\ Head(store'.recent).query = store.recent[i].query]_libraryVars
=============================================================================
