------------------------------ MODULE Explorer ------------------------------
(***************************************************************************)
(* The web application's Explorer page (src/web/src/app/bootstrap.ts,      *)
(* features/streaming, features/explorer, features/timeline/resolution.ts, *)
(* and the searches of features/workspace/controller.ts).                  *)
(*                                                                         *)
(* The page runs on one thread: a step is what one browser event does up   *)
(* to the next real wait (the answer of a fetch, a timer, an event of the  *)
(* EventSource).  What the user does between a request and its answer is   *)
(* what makes it hard.                                                     *)
(*                                                                         *)
(* A search stands for everything in the URL that decides the results:     *)
(* query, filters, time range and order.  A log entry is its place in the  *)
(* order of time.                                                          *)
(***************************************************************************)
EXTENDS Places, Sequences, SequencesExt

CONSTANTS
  Searches,
  Start,        \* the search of an URL without parameters
  Ascending,    \* the searches that list the oldest entry first
  Matching,     \* external: the entries that match each search
  MaxEntries,   \* bound: log entries written
  PageSize,     \* `limit' of buildExplorerURL
  EntryLimit,   \* entryLimit of the response
  Resolutions,  \* bucket counts the timeline's width may ask for
  Gestures,     \* bound: the kinds of gesture the user makes
  None

Entries == 1 .. MaxEntries

\* A page token is a cursor, whatever search it came from; `from' is history.
Token == [from : Searches, after : Entries]

\* What is kept of an answer beside its entries.
Response == [search : Searches, since : 0 .. MaxEntries, next : Token \cup {None},
             buckets : Resolutions]

ASSUME ExplorerAssumption ==
  /\ Start \in Searches /\ Ascending \subseteq Searches
  /\ MaxEntries \in Nat /\ PageSize \in Nat \ {0} /\ EntryLimit \in Nat \ {0}
  /\ Matching \in [Searches -> SUBSET (1 .. MaxEntries)]
  /\ None \notin Searches /\ None \notin Nat /\ None \notin Response
  /\ Resolutions # {}

VARIABLES
  stored,       \* external: entries 1 .. stored are in the Hub's store
  search,       \* query, searchText, node, ..., timeFrom, timeTo and sort
  live,
  pageToken,
  selected,     \* selectedId
  url,          \* the address bar
  other,        \* the history entry next to it, which Back or Forward returns to
  load,         \* the call of loadExplorer under way, and its request
  reload,       \* reloadRequested
  response,
  entries,
  tail,         \* tailSource
  spinner,      \* the initial loading indicator
  searchTimer, resizeTimer,
  ready,        \* has enableTimelineResolution run?
  buckets,      \* timelineBuckets
  drawer,       \* the entry in the open detail drawer, or None
  recent,       \* the searches in the list of recent queries
  asked,        \* history: the search last asked for and not cancelled
  answered,     \* history: the searches that were answered
  outcome,      \* history: how the last whole load ended
  origin,       \* history: the searches the shown entries come from
  strayed       \* history: how far the form has been led away from what was run

form    == <<search, live, pageToken, selected>>
browser == <<url, other>>
fetch   == <<load, reload, spinner, asked>>
shown   == <<response, entries, origin, outcome, answered>>
timers  == <<searchTimer, resizeTimer>>
chart   == <<ready, buckets>>
vars    == <<stored, form, browser, fetch, shown, tail, timers, chart, drawer, recent, strayed>>

URL == [search : Searches, live : BOOLEAN, pageToken : Token \cup {None},
        selected : Entries \cup {None}]

Address == [search |-> search, live |-> live, pageToken |-> pageToken, selected |-> selected]

Idle == [phase |-> "idle", append |-> FALSE, search |-> Start, pageToken |-> None,
         buckets |-> 0, since |-> 0, page |-> <<>>, next |-> None]

Loading == load.phase # "idle"

Closed == [open |-> FALSE, search |-> Start, since |-> 0]

Gesture(kind) == kind \in Gestures

\* What leads the form away from the results: a text that is being typed, a
\* search put in the form or taken back and not run, and a range chosen under
\* a load that goes on.
Typed  == 1
Unrun  == 2
Custom == 3

Stray(how) == strayed' = IF strayed < how THEN how ELSE strayed

\* The load a page boots with, at the address a.
FirstLoad(a) == [Idle EXCEPT !.phase = "sent", !.search = a.search, !.pageToken = a.pageToken,
                             !.buckets = buckets]

Init ==
  /\ stored \in 0 .. MaxEntries
  /\ url \in [search : Searches, live : BOOLEAN, pageToken : {None}, selected : {None}]
  /\ other = url
  /\ buckets \in Resolutions
  /\ recent = {} /\ answered = {} /\ strayed = 0
  /\ search = url.search /\ live = url.live /\ pageToken = None /\ selected = None
  /\ load = FirstLoad(url) /\ asked = url.search /\ reload = FALSE /\ spinner = "armed"
  /\ response = None /\ entries = <<>> /\ origin = {} /\ outcome = "none"
  /\ tail = Closed /\ searchTimer = FALSE /\ resizeTimer = FALSE
  /\ ready = FALSE /\ drawer = None
-----------------------------------------------------------------------------
(* External: the Hub's search and its pages. *)

InOrder(q, S) == IF q \in Ascending THEN Rising(S) ELSE Falling(S)

Beyond(q, t, e) == t = None \/ IF q \in Ascending THEN e > t.after ELSE e < t.after

Hits(q, t) == InOrder(q, {e \in Matching[q] : e <= stored /\ Beyond(q, t, e)})

Page(q, t) ==
  SubSeq(Hits(q, t), 1, IF Len(Hits(q, t)) < PageSize THEN Len(Hits(q, t)) ELSE PageSize)

NextToken(q, t) ==
  IF Len(Hits(q, t)) > PageSize THEN [from |-> q, after |-> Hits(q, t)[PageSize]] ELSE None
-----------------------------------------------------------------------------
(* What the handlers share. *)

\* syncURL() and syncURL("push"): the address bar follows the state; a push
\* leaves the address a behind in the history.
Replace == url' = Address' /\ UNCHANGED other

PushFrom(a) ==
  /\ url' = Address'
  /\ other' = IF Gesture("history") /\ url' # a THEN a ELSE other

CloseTail == tail' = Closed

\* startTail: nothing when live is off; the query is the state's at that moment.
StartTail(since) ==
  tail' = IF live' THEN [open |-> TRUE, search |-> search', since |-> since] ELSE Closed

\* The request the state asks for: buildExplorerURL at the moment of the call.
Request(append) ==
  [Idle EXCEPT !.phase = "sent", !.append = append, !.search = search',
               !.pageToken = pageToken', !.buckets = buckets']

NewLoad(append) ==
  /\ load' = Request(append)
  /\ spinner' = IF append \/ response' # None THEN "off" ELSE "armed"

\* Slip: a load asked for during another one is dropped.
LoadDroppingReload(append) ==
  /\ asked' = search' /\ UNCHANGED reload
  /\ IF Loading THEN UNCHANGED <<load, spinner>> ELSE NewLoad(append)

\* loadExplorer up to its first await.  During another load it only asks for
\* one more; the caller says what becomes of the tail.
LoadExplorer(append) ==
  /\ asked' = search'
  /\ IF Loading THEN reload' = TRUE /\ UNCHANGED <<load, spinner>>
     ELSE NewLoad(append) /\ UNCHANGED reload

CloseDetail == selected' = None /\ drawer' = None

KeepDetail == UNCHANGED <<selected, drawer>>

\* A gesture that changes the search and runs it from its first page.
RunFrom(a, q) ==
  /\ search' = q /\ pageToken' = None
  /\ PushFrom(a)
  /\ CloseTail /\ LoadExplorer(FALSE)
-----------------------------------------------------------------------------
(* Gestures that run a search. *)

\* runQuery, and resetFilters: a pending search is cancelled.
RunQuery(q) ==
  /\ Gesture("run")
  /\ UNCHANGED <<strayed, stored, live, shown, chart, resizeTimer, recent>> /\ KeepDetail
  /\ searchTimer' = FALSE
  /\ RunFrom(url, q)

\* The selects, the zoom buttons, the hour button, clearCustomRange, commit().
ChangeFilter(q) ==
  /\ Gesture("filter") /\ q # search
  /\ UNCHANGED <<strayed, stored, live, shown, chart, timers, recent>> /\ KeepDetail
  /\ RunFrom(url, q)

\* A click on a value of the fields panel or of an entry.
FieldFilter(q) ==
  /\ Gesture("field") /\ q # search
  /\ UNCHANGED <<strayed, stored, live, shown, chart, timers, recent>> /\ CloseDetail
  /\ RunFrom([Address EXCEPT !.selected = None], q)

\* applyCustomRange, a selection on the timeline, and setRange of the workspace.
SelectRange(q) ==
  /\ Gesture("range")
  /\ UNCHANGED <<strayed, stored, shown, chart, timers, recent>> /\ KeepDetail
  /\ live' = FALSE
  /\ RunFrom(url, q)

\* onContext: the logs around the selected entry.
ShowContext(q) ==
  /\ Gesture("range") /\ drawer # None
  /\ UNCHANGED <<strayed, stored, shown, chart, timers, recent>> /\ CloseDetail
  /\ live' = FALSE
  /\ RunFrom([Address EXCEPT !.selected = None], q)

\* applySnapshot: a query of the library, run or only loaded into the form.
UseSnapshot(q, run) ==
  /\ IF run THEN Gesture("library") ELSE Gesture("form")
  /\ UNCHANGED <<stored, chart, timers, recent, answered>> /\ CloseDetail
  /\ search' = q /\ live' = FALSE /\ pageToken' = None
  /\ response' = None /\ entries' = <<>> /\ origin' = {} /\ outcome' = "none"
  /\ PushFrom([Address EXCEPT !.selected = None])
  /\ CloseTail
  /\ IF run THEN LoadExplorer(FALSE) /\ UNCHANGED strayed ELSE Stray(Unrun) /\ UNCHANGED fetch

\* scheduleSearch: the text is in the state, and in the URL, at once.
ScheduleSearch(q) ==
  /\ Gesture("type") /\ q # search
  /\ UNCHANGED <<stored, live, pageToken, selected, fetch, shown, tail, resizeTimer, chart,
                 drawer, recent>>
  /\ search' = q /\ searchTimer' = TRUE /\ Stray(Typed)
  /\ Replace

SearchTimer ==
  /\ searchTimer
  /\ UNCHANGED <<strayed, stored, search, live, shown, resizeTimer, chart, recent>> /\ KeepDetail
  /\ searchTimer' = FALSE /\ pageToken' = None
  /\ Replace
  /\ CloseTail /\ LoadExplorer(FALSE)

\* "Custom" in the range select fills in the last five minutes and runs nothing.
ChooseCustom(q) ==
  /\ Gesture("custom") /\ q # search
  /\ UNCHANGED <<stored, live, pageToken, selected, browser, fetch, shown, tail, timers, chart,
                 drawer, recent>>
  /\ search' = q /\ Stray(Custom)

RefreshResults ==
  /\ Gesture("refresh")
  /\ UNCHANGED <<strayed, stored, search, live, shown, timers, chart, recent>> /\ KeepDetail
  /\ pageToken' = None
  /\ Replace
  /\ CloseTail /\ LoadExplorer(FALSE)

\* Slip: the response is taken for its token.
NextPageOfResponse ==
  /\ Gesture("more") /\ ~Loading
  /\ response # None /\ response.next # None
  /\ UNCHANGED <<strayed, stored, search, live, shown, tail, timers, chart, recent>> /\ KeepDetail
  /\ pageToken' = response
  /\ Replace
  /\ LoadExplorer(TRUE)

\* The button is disabled during a load.  An append leaves the tail open.
NextPage ==
  /\ Gesture("more") /\ ~Loading
  /\ response # None /\ response.next # None
  /\ UNCHANGED <<strayed, stored, search, live, shown, tail, timers, chart, recent>> /\ KeepDetail
  /\ pageToken' = response.next
  /\ Replace
  /\ LoadExplorer(TRUE)
-----------------------------------------------------------------------------
(* Other gestures. *)

\* setLive(!state.live)
ToggleLive ==
  /\ Gesture("live")
  /\ UNCHANGED <<strayed, stored, search, pageToken, selected, fetch, shown, timers, chart,
                 drawer, recent>>
  /\ live' = ~live
  /\ Replace
  /\ IF live' /\ response # None THEN StartTail(response.since)
     ELSE IF live' THEN UNCHANGED tail ELSE CloseTail

\* The abort reaches loadExplorer before any other event; an answer that has
\* arrived and only waits for the spinner's minimum time is not aborted.
CancelQuery ==
  /\ Gesture("cancel") /\ Loading
  /\ UNCHANGED <<stored, form, browser, response, entries, origin, answered, tail, timers, chart,
                 drawer, recent>>
  /\ Stray(Unrun)
  /\ reload' = FALSE /\ spinner' = "off" /\ asked' = load.search
  /\ IF load.phase \in {"sent", "answered"} THEN load' = Idle /\ outcome' = "cancelled"
     ELSE UNCHANGED <<load, outcome>>

\* popstate: the load closes the tail, and setLive opens one for the new
\* search at once, on the results of the old one.
GoBack ==
  /\ Gesture("history") /\ other # url
  /\ UNCHANGED <<strayed, stored, shown, timers, chart, recent>>
  /\ search' = other.search /\ live' = other.live
  /\ pageToken' = other.pageToken /\ selected' = other.selected
  /\ drawer' = IF selected' = None THEN None ELSE drawer
  /\ url' = Address' /\ other' = url
  /\ LoadExplorer(FALSE)
  /\ IF response # None THEN StartTail(response.since) ELSE CloseTail

\* The browser reloads the page (hydrateURL and the first load): nothing but
\* the addresses and what is in localStorage survives.
ReloadPage ==
  /\ Gesture("boot")
  /\ UNCHANGED <<strayed, stored, browser, buckets, recent, answered>>
  /\ search' = url.search /\ live' = url.live
  /\ pageToken' = url.pageToken /\ selected' = url.selected
  /\ load' = FirstLoad(url) /\ asked' = url.search /\ reload' = FALSE /\ spinner' = "armed"
  /\ response' = None /\ entries' = <<>> /\ origin' = {} /\ outcome' = "none"
  /\ tail' = Closed /\ searchTimer' = FALSE /\ resizeTimer' = FALSE
  /\ ready' = FALSE /\ drawer' = None

\* What only changes the display: commit(false) also drops the page token and
\* leaves a history entry, the plain buttons only bring the URL up to date.
ChangeDisplay(commit) ==
  /\ Gesture("display")
  /\ UNCHANGED <<strayed, stored, search, live, fetch, shown, tail, timers, chart,
                 recent>> /\ KeepDetail
  /\ IF commit THEN pageToken' = None /\ PushFrom(url) ELSE UNCHANGED pageToken /\ Replace

OpenDetail(e) ==
  /\ Gesture("detail") /\ e \in Range(entries) /\ e # drawer
  /\ UNCHANGED <<strayed, stored, search, live, pageToken, fetch, shown, tail, timers, chart, recent>>
  /\ selected' = e /\ drawer' = e
  /\ Replace

DismissDetail ==
  /\ drawer # None
  /\ UNCHANGED <<strayed, stored, search, live, pageToken, fetch, shown, tail, timers, chart, recent>>
  /\ CloseDetail
  /\ Replace

\* The width of the timeline asks for another number of buckets.
Resize(b) ==
  /\ Gesture("resize") /\ b # buckets
  /\ UNCHANGED <<strayed, stored, form, browser, fetch, shown, tail, searchTimer, ready, drawer,
                 recent>>
  /\ buckets' = b
  /\ resizeTimer' = (ready \/ resizeTimer)

ResizeTimer ==
  /\ resizeTimer
  /\ UNCHANGED <<strayed, stored, search, live, shown, searchTimer, chart, recent>> /\ KeepDetail
  /\ resizeTimer' = FALSE
  /\ IF response = None THEN UNCHANGED <<pageToken, browser, tail, fetch>>
     ELSE /\ pageToken' = None
          /\ Replace
          /\ CloseTail /\ LoadExplorer(FALSE)
-----------------------------------------------------------------------------
(* The answers, and how a load ends. *)

\* The Hub computes its answer; it arrives later.
HubAnswers ==
  /\ load.phase = "sent"
  /\ load' = [load EXCEPT !.phase = "answered", !.since = stored,
                          !.page = Page(load.search, load.pageToken),
                          !.next = NextToken(load.search, load.pageToken)]
  /\ UNCHANGED <<strayed, stored, form, browser, reload, spinner, asked, shown, tail, timers,
                 chart, drawer, recent>>

\* Slip: the reload goes on with the page that was being appended.
FinallyAppending(tailed) ==
  IF reload
  THEN NewLoad(load.append) /\ asked' = search' /\ reload' = FALSE /\ CloseTail
  ELSE load' = Idle /\ spinner' = "off" /\ UNCHANGED <<asked, reload>> /\ tail' = tailed

\* Slip: the request for a reload is not taken back.
FinallyForever(tailed) ==
  IF reload
  THEN NewLoad(FALSE) /\ asked' = search' /\ UNCHANGED reload /\ CloseTail
  ELSE load' = Idle /\ spinner' = "off" /\ UNCHANGED <<asked, reload>> /\ tail' = tailed

\* The finally block: a reload asked for meanwhile starts now, and closes the
\* tail; otherwise the tail is what the caller says.
Finally(tailed) ==
  IF reload
  THEN NewLoad(FALSE) /\ asked' = search' /\ reload' = FALSE /\ CloseTail
  ELSE load' = Idle /\ spinner' = "off" /\ UNCHANGED <<asked, reload>> /\ tail' = tailed

\* Slip: a search answered late is recorded as the one now in the form.
RecordedAlways(last) == IF ~load.append THEN recent \cup {search'} ELSE recent

Recorded(last) == IF last THEN recent \cup {search'} ELSE recent

\* Slip: the drawer stays although its entry is gone.
DrawerKept == IF selected' \in Range(entries') THEN selected' ELSE drawer

DrawerAfter == IF selected' \in Range(entries') THEN selected' ELSE None

NewTail == [open |-> TRUE, search |-> search', since |-> load.since]

\* Slip: the tail is opened although Streaming is off.
TailAlways(last) == IF last THEN NewTail ELSE tail

\* Slip: only the first load opens the tail.
TailOnce(last) == IF last /\ live' /\ ~ready THEN NewTail ELSE tail

TailAfter(last) == IF last /\ live' THEN NewTail ELSE tail

\* After the answer is in the state: recordQuery, openDetail, the timeline's
\* resolution and a new tail, unless it was an append or a reload is due.
Succeed ==
  LET last == ~load.append /\ ~reload IN
  /\ outcome' = IF load.append THEN outcome ELSE "ok"
  /\ recent' = Recorded(last)
  /\ ready' = (ready \/ last) /\ UNCHANGED buckets
  /\ drawer' = DrawerAfter
  /\ Finally(TailAfter(last))

Fail ==
  /\ outcome' = "failed"
  /\ entries' = IF ~load.append /\ response = None THEN <<>> ELSE entries
  /\ UNCHANGED <<response, origin, answered, recent, chart, drawer>>
  /\ Finally(tail)

\* What of a page is not listed yet.
Fresh(page) == Kept(page, {i \in DOMAIN page : page[i] \notin Range(entries)})

\* Slip: an appended page repeats what the tail has already shown.
ExtendedBlindly(page) == entries \o page

\* Slip: the older page is put in front.
ExtendedInFront(page) == Fresh(page) \o entries

Extended(page) == entries \o Fresh(page)

\* The answer replaces or extends the list.  While the spinner has not been
\* on the page for its minimum time, the rest of loadExplorer waits.
ReceiveAnswer ==
  /\ load.phase = "answered"
  /\ UNCHANGED <<strayed, stored, search, live, timers>>
  /\ response' = [search |-> load.search, since |-> load.since, next |-> load.next,
                  buckets |-> load.buckets]
  /\ entries' = IF load.append THEN Extended(load.page) ELSE load.page
  /\ origin' = (IF load.append THEN origin ELSE {}) \cup {load.search}
  /\ answered' = answered \cup {load.search}
  /\ pageToken' = IF load.append \/ load.pageToken # None THEN load.next ELSE None
  /\ selected' = IF selected \in Range(entries') THEN selected ELSE None
  /\ url' = IF load.append \/ load.pageToken # None \/ (selected' # None /\ spinner # "shown")
            THEN [Address' EXCEPT !.selected = selected] ELSE url
  /\ UNCHANGED other
  /\ IF spinner = "shown"
     THEN /\ load' = [load EXCEPT !.phase = "settling"]
          /\ drawer' = IF selected' = None THEN None ELSE drawer
          /\ UNCHANGED <<reload, spinner, asked, outcome, tail, chart, recent>>
     ELSE Succeed

ReceiveFailure ==
  /\ load.phase \in {"sent", "answered"}
  /\ UNCHANGED <<strayed, stored, form, browser, timers>>
  /\ IF spinner = "shown"
     THEN /\ load' = [load EXCEPT !.phase = "failing"]
          /\ UNCHANGED <<reload, spinner, asked, shown, tail, chart, drawer, recent>>
     ELSE Fail

\* settleInitialLoading has waited long enough.
Settle ==
  /\ load.phase \in {"settling", "failing"}
  /\ UNCHANGED <<strayed, stored, search, live, pageToken, selected, other, timers>>
  /\ IF load.phase = "failing" THEN UNCHANGED url /\ Fail
     ELSE /\ UNCHANGED <<response, entries, origin, answered>>
          /\ url' = IF selected # None THEN Address' ELSE url
          /\ Succeed

\* The indicator appears when the first load has taken 200 ms.
InitialLoadingTimer ==
  /\ spinner = "armed"
  /\ spinner' = IF Loading /\ response = None THEN "shown" ELSE "off"
  /\ UNCHANGED <<strayed, stored, form, browser, load, reload, asked, shown, tail, timers, chart,
                 drawer, recent>>
-----------------------------------------------------------------------------
(* The live tail. *)

\* External: a container writes a line.
LogWritten ==
  /\ stored < MaxEntries
  /\ stored' = stored + 1
  /\ UNCHANGED <<form, browser, fetch, shown, tail, timers, chart, drawer, recent, strayed>>

Inserted(e) ==
  IF e \in Range(entries) THEN entries ELSE InOrder(search, Range(entries) \cup {e})

\* The oldest end goes when the list is over the limit.
Trimmed(list) ==
  IF Len(list) <= EntryLimit THEN list
  ELSE IF search \in Ascending THEN SubSeq(list, Len(list) - EntryLimit + 1, Len(list))
  ELSE SubSeq(list, 1, EntryLimit)

\* appendTailEntry: the EventSource delivers an entry, perhaps once more after
\* it has reconnected.
TailEntry(e) ==
  /\ tail.open /\ e \in Matching[tail.search] /\ e <= stored /\ e > tail.since
  /\ entries' = Trimmed(Inserted(e))
  /\ origin' = origin \cup {tail.search}
  /\ drawer' = IF drawer # None /\ selected \in Range(entries') THEN selected ELSE None
  /\ UNCHANGED <<strayed, stored, form, browser, fetch, response, outcome, answered, tail,
                 timers, chart, recent>>
-----------------------------------------------------------------------------
RunsSearch(q) ==
  \/ RunQuery(q)
  \/ ChangeFilter(q)
  \/ FieldFilter(q)
  \/ SelectRange(q)
  \/ ShowContext(q)
  \/ \E run \in BOOLEAN : UseSnapshot(q, run)

User ==
  \/ \E q \in Searches : RunsSearch(q) \/ ScheduleSearch(q) \/ ChooseCustom(q)
  \/ RefreshResults
  \/ NextPage
  \/ ToggleLive
  \/ CancelQuery
  \/ GoBack
  \/ ReloadPage
  \/ \E commit \in BOOLEAN : ChangeDisplay(commit)
  \/ \E e \in Entries : OpenDetail(e)
  \/ DismissDetail
  \/ \E b \in Resolutions : Resize(b)

Runtime ==
  \/ SearchTimer
  \/ ResizeTimer
  \/ InitialLoadingTimer
  \/ ReceiveAnswer
  \/ Settle

World ==
  \/ HubAnswers
  \/ ReceiveFailure
  \/ LogWritten
  \/ \E e \in Entries : TailEntry(e)

Next == User \/ Runtime \/ World

\* The browser runs its timers and promises, and a request ends.
Fairness ==
  /\ WF_vars(SearchTimer) /\ WF_vars(ResizeTimer) /\ WF_vars(InitialLoadingTimer)
  /\ WF_vars(HubAnswers) /\ WF_vars(ReceiveAnswer) /\ WF_vars(Settle)

Spec == Init /\ [][Next]_vars

FairSpec == Spec /\ Fairness
-----------------------------------------------------------------------------
(* Type invariant. *)
TypeOK ==
  /\ stored \in 0 .. MaxEntries
  /\ search \in Searches /\ live \in BOOLEAN
  /\ pageToken \in Token \cup {None} /\ selected \in Entries \cup {None}
  /\ url \in URL /\ other \in URL
  /\ load \in [phase : {"idle", "sent", "answered", "settling", "failing"}, append : BOOLEAN,
               search : Searches, pageToken : Token \cup {None}, buckets : Resolutions \cup {0},
               since : 0 .. MaxEntries, page : Seq(Entries), next : Token \cup {None}]
  /\ reload \in BOOLEAN /\ spinner \in {"off", "armed", "shown"} /\ asked \in Searches
  /\ response \in Response \cup {None}
  /\ entries \in Seq(Entries) /\ origin \subseteq Searches /\ answered \subseteq Searches
  /\ outcome \in {"none", "ok", "failed", "cancelled"}
  /\ tail \in [open : BOOLEAN, search : Searches, since : 0 .. MaxEntries]
  /\ searchTimer \in BOOLEAN /\ resizeTimer \in BOOLEAN
  /\ ready \in BOOLEAN /\ buckets \in Resolutions
  /\ drawer \in Entries \cup {None} /\ recent \subseteq Searches /\ strayed \in 0 .. Custom

\* Nothing is under way, and the last whole load went well.
Settled == ~Loading /\ outcome = "ok" /\ ~searchTimer

\* However the answers of loads, reloads and pages interleave with what the
\* user asks meanwhile, the results on the page are those of the search asked
\* for last (loadExplorer and reloadRequested).
ShownIsAsked == Settled /\ response # None => response.search = asked

\* A list at rest never mixes the entries of two searches, wherever they came
\* from: a whole load, an appended page or the live tail.  (With a search in
\* the form whose run was cancelled, the tail follows the form.)
OneSearch == Settled /\ search = asked => origin \subseteq {asked}

\* An entry is listed once, although the pages and the tail both deliver it.
NoDuplicates == \A i, j \in DOMAIN entries : entries[i] = entries[j] => i = j

\* A list whose entries all come from searches with newest first is in that order,
\* whatever pages and live entries were put together.  (A search that is typed or
\* put in the form has an order of its own, which the next live entry is given.)
NewestFirstInOrder ==
  strayed < Typed /\ origin \cap Ascending = {} =>
    \A i, j \in DOMAIN entries : i < j => entries[i] > entries[j]

\* What a load, a page and the live tail make of the list.
ListsSound == TypeOK /\ NoDuplicates /\ NewestFirstInOrder

\* The EventSource is open only while Streaming is on, for every handler that
\* switches it off.
TailOnlyWhenLive == tail.open => live

\* Streaming and settled: the tail is open and belongs to the results.  (After
\* a failed or cancelled search it is not reopened.)
LiveWhenSettled ==
  Settled /\ live /\ search = asked /\ response # None => tail.open /\ tail.search = asked

\* The drawer of a page at rest shows the entry the URL names, and that entry
\* is in the list.
DrawerShowsSelected ==
  Settled /\ drawer # None => drawer = selected /\ selected \in Range(entries)

\* A query recorded as recent is one the page has shown the results of.
RecentWereAnswered == recent \subseteq answered

\* Stream and lists follow the search asked for.  A custom range or a query of the
\* library that is put in the form runs nothing: the tail that a load under way
\* opens then follows the form, and so does the next page.  A run that is cancelled
\* leaves its search in the form; a text is recorded as soon as an answer comes.
PageFollowsSearch ==
  /\ strayed < Custom => LiveWhenSettled
  /\ strayed < Unrun => OneSearch
  /\ strayed < Typed => RecentWereAnswered

\* README: lists are in the order asked for.  (With oldest first a live entry comes
\* before the pages that are still to be asked for.)
InTheOrderAsked ==
  Settled /\ response # None =>
    \A i, j \in DOMAIN entries :
      i < j => IF response.search \in Ascending THEN entries[i] < entries[j]
               ELSE entries[i] > entries[j]

\* README: "Keep the same search conditions, time range, and sort order when
\* requesting the next page."
TokenKeepsSearch ==
  load.phase = "sent" /\ load.pageToken # None => load.pageToken.from = load.search

\* README: changing the search "closes the current stream and reconnects from
\* a new search result".
TailFollowsResult == tail.open /\ response # None => tail.search = response.search

\* README: the timeline "splits the result range into 24-96 responsive buckets
\* based on the timeline width".
TimelineFitsWidth ==
  Settled /\ ~resizeTimer /\ response # None => response.buckets = buckets

\* Once the user leaves it alone the page comes to rest, and what was asked
\* during a load is not forgotten.
ComesToRest == <>[][~User]_vars => <>[](~Loading /\ ~searchTimer /\ ~resizeTimer /\ ~reload)
=============================================================================
