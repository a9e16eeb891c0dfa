--------------------------- MODULE ExplorerProofs ---------------------------
(***************************************************************************)
(* Five properties of the Explorer page, for every set of searches, any   *)
(* number of entries, page size and limit, and every set of gestures.      *)
(*                                                                         *)
(* A load is a record whose fields the actions change one by one; that it  *)
(* keeps that shape (LoadShape) is all the typing the first four need; the *)
(* order of the list needs all of it (TypeInv).                            *)
(***************************************************************************)
EXTENDS Explorer, PlacesProofs

LoadShape ==
  load = [phase |-> load.phase, append |-> load.append, search |-> load.search,
          pageToken |-> load.pageToken, buckets |-> load.buckets, since |-> load.since,
          page |-> load.page, next |-> load.next]

\* What a load will show: unless a reload is due, the search asked for.
LoadsAsked == Loading /\ ~reload => load.search = asked

\* A load that settles has put its answer in the state.
SettlesOwn == load.phase = "settling" /\ response # None => response.search = load.search

AtRest == ~Loading /\ outcome = "ok"

RestShowsAsked == AtRest /\ response # None => response.search = asked

\* The inductive strengthening of ShownIsAsked.
SearchInv == LoadShape /\ LoadsAsked /\ SettlesOwn /\ RestShowsAsked

\* The inductive strengthening of DrawerShowsSelected.
DrawerInv == AtRest /\ drawer # None => drawer = selected /\ selected \in Range(entries)

-----------------------------------------------------------------------------
\* A load that ends leaves the tail as it was, closes it, or opens it when
\* Streaming is on.
LEMMA FinallyTail ==
  ASSUME NEW tailed, Finally(tailed) PROVE tail' = Closed \/ tail' = tailed
<1>1. CASE reload
  BY <1>1 DEF Finally, CloseTail
<1>2. CASE ~reload
  BY <1>2 DEF Finally
<1>3. QED
  BY <1>1, <1>2

LEMMA SucceedTail ==
  ASSUME Succeed PROVE tail' = Closed \/ tail' = tail \/ live'
<1> DEFINE last == ~load.append /\ ~reload
           opened == [open |-> TRUE, search |-> search', since |-> load.since]
<1>1. Finally(IF last /\ live' THEN opened ELSE tail)
  BY DEF Succeed, NewTail, TailAfter
<1>2. tail' = Closed \/ tail' = (IF last /\ live' THEN opened ELSE tail)
  BY <1>1, FinallyTail
<1>3. QED
  BY <1>2

LEMMA FailTail == ASSUME Fail PROVE tail' = Closed \/ tail' = tail
BY FinallyTail DEF Fail

(* The live tail is open only while Streaming is on: bootstrap.ts closes it *)
(* in every handler that switches Streaming off, and startTail looks.       *)
THEOREM TailIsLive == Spec => []TailOnlyWhenLive
<1>1. Init => TailOnlyWhenLive
  BY DEF Init, TailOnlyWhenLive, Closed
<1>2. TailOnlyWhenLive /\ [Next]_vars => TailOnlyWhenLive'
  <2> SUFFICES ASSUME TailOnlyWhenLive, [Next]_vars PROVE TailOnlyWhenLive'
    OBVIOUS
  <2> USE DEF TailOnlyWhenLive, Closed, CloseTail, form, shown, timers, chart, browser, fetch
  <2>1. ASSUME NEW q \in Searches, RunQuery(q) PROVE TailOnlyWhenLive'
    BY <2>1 DEF RunQuery, RunFrom
  <2>2. ASSUME NEW q \in Searches, ChangeFilter(q) PROVE TailOnlyWhenLive'
    BY <2>2 DEF ChangeFilter, RunFrom
  <2>3. ASSUME NEW q \in Searches, FieldFilter(q) PROVE TailOnlyWhenLive'
    BY <2>3 DEF FieldFilter, RunFrom
  <2>4. ASSUME NEW q \in Searches, SelectRange(q) PROVE TailOnlyWhenLive'
    BY <2>4 DEF SelectRange, RunFrom
  <2>5. ASSUME NEW q \in Searches, ShowContext(q) PROVE TailOnlyWhenLive'
    BY <2>5 DEF ShowContext, RunFrom
  <2>6. ASSUME NEW q \in Searches, NEW run \in BOOLEAN, UseSnapshot(q, run) PROVE TailOnlyWhenLive'
    BY <2>6 DEF UseSnapshot
  <2>7. ASSUME NEW q \in Searches, ScheduleSearch(q) PROVE TailOnlyWhenLive'
    BY <2>7 DEF ScheduleSearch
  <2>8. ASSUME NEW q \in Searches, ChooseCustom(q) PROVE TailOnlyWhenLive'
    BY <2>8 DEF ChooseCustom
  <2>9. CASE RefreshResults
    BY <2>9 DEF RefreshResults
  <2>10. CASE NextPage
    BY <2>10 DEF NextPage
  <2>11. CASE ToggleLive
    BY <2>11 DEF ToggleLive, StartTail
  <2>12. CASE CancelQuery
    BY <2>12 DEF CancelQuery
  <2>13. CASE GoBack
    BY <2>13 DEF GoBack, StartTail
  <2>14. CASE ReloadPage
    BY <2>14 DEF ReloadPage
  <2>15. ASSUME NEW commit \in BOOLEAN, ChangeDisplay(commit) PROVE TailOnlyWhenLive'
    BY <2>15 DEF ChangeDisplay
  <2>16. ASSUME NEW e \in Entries, OpenDetail(e) PROVE TailOnlyWhenLive'
    BY <2>16 DEF OpenDetail
  <2>17. CASE DismissDetail
    BY <2>17 DEF DismissDetail
  <2>18. ASSUME NEW b \in Resolutions, Resize(b) PROVE TailOnlyWhenLive'
    BY <2>18 DEF Resize
  <2>19. CASE SearchTimer
    BY <2>19 DEF SearchTimer
  <2>20. CASE ResizeTimer
    <3>1. CASE response = None
      BY <2>20, <3>1 DEF ResizeTimer
    <3>2. CASE response # None
      BY <2>20, <3>2 DEF ResizeTimer
    <3>3. QED
      BY <3>1, <3>2
  <2>21. CASE InitialLoadingTimer
    BY <2>21 DEF InitialLoadingTimer
  <2>22. CASE ReceiveAnswer
    <3>1. live' = live /\ (tail' = tail \/ Succeed)
      BY <2>22 DEF ReceiveAnswer
    <3>2. QED
      BY <3>1, SucceedTail
  <2>23. CASE Settle
    <3>1. live' = live /\ (Fail \/ Succeed)
      BY <2>23 DEF Settle
    <3>2. QED
      BY <3>1, SucceedTail, FailTail
  <2>24. CASE HubAnswers
    BY <2>24 DEF HubAnswers
  <2>25. CASE ReceiveFailure
    <3>1. live' = live /\ (tail' = tail \/ Fail)
      BY <2>25 DEF ReceiveFailure
    <3>2. QED
      BY <3>1, FailTail
  <2>26. CASE LogWritten
    BY <2>26 DEF LogWritten
  <2>27. ASSUME NEW e \in Entries, TailEntry(e) PROVE TailOnlyWhenLive'
    BY <2>27 DEF TailEntry
  <2>28. CASE UNCHANGED vars
    BY <2>28 DEF vars
  <2>29. QED
    BY <2>1, <2>2, <2>3, <2>4, <2>5, <2>6, <2>7, <2>8, <2>9, <2>10, <2>11, <2>12, <2>13, <2>14,
       <2>15, <2>16, <2>17, <2>18, <2>19, <2>20, <2>21, <2>22, <2>23, <2>24, <2>25, <2>26, <2>27,
       <2>28 DEF Next, User, RunsSearch, Runtime, World
<1>3. QED
  BY <1>1, <1>2, PTL DEF Spec
-----------------------------------------------------------------------------
(* What is shown, and the drawer: one induction. *)

ExplorerInv == SearchInv /\ DrawerInv

LEMMA Frame ==
  ASSUME ExplorerInv, UNCHANGED <<load, reload, asked, response, outcome, drawer, selected, entries>>
  PROVE ExplorerInv'
BY DEF ExplorerInv, SearchInv, LoadShape, LoadsAsked, SettlesOwn, RestShowsAsked, DrawerInv, AtRest,
       Loading

\* A request keeps the invariant: either it starts a load of the search asked
\* for, or a reload is due.
LEMMA RequestKeeps ==
  ASSUME ExplorerInv, NEW append, LoadExplorer(append), response' \in {response, None}
  PROVE ExplorerInv'
<1>1. CASE Loading
  <2>1. load' = load /\ reload' = TRUE
    BY <1>1 DEF LoadExplorer
  <2>2. QED
    BY <1>1, <2>1 DEF ExplorerInv, SearchInv, LoadShape, LoadsAsked, SettlesOwn, RestShowsAsked,
                      DrawerInv, AtRest, Loading
<1>2. CASE ~Loading
  <2>1. load' = Request(append) /\ asked' = search'
    BY <1>2 DEF LoadExplorer, NewLoad
  <2>2. load'.phase = "sent" /\ load'.search = asked' /\ LoadShape'
    BY <2>1 DEF Request, Idle, LoadShape
  <2>3. QED
    BY <2>2 DEF ExplorerInv, SearchInv, LoadsAsked, SettlesOwn, RestShowsAsked, DrawerInv, AtRest,
                Loading
<1>3. QED
  BY <1>1, <1>2

\* So does the end of a load that was not in vain.
LEMMA EndKeeps ==
  ASSUME ExplorerInv, Loading, NEW tailed, Finally(tailed),
         outcome' = "ok" => \/ response' = None
                            \/ response'.search = load.search,
         outcome' = "ok" /\ drawer' # None => drawer' = selected' /\ selected' \in Range(entries')
  PROVE ExplorerInv'
<1>1. CASE reload
  <2>1. load' = Request(FALSE) /\ asked' = search'
    BY <1>1 DEF Finally, NewLoad
  <2>2. load'.phase = "sent" /\ load'.search = asked' /\ LoadShape'
    BY <2>1 DEF Request, Idle, LoadShape
  <2>3. QED
    BY <2>2 DEF ExplorerInv, SearchInv, LoadsAsked, SettlesOwn, RestShowsAsked, DrawerInv, AtRest,
                Loading
<1>2. CASE ~reload
  <2>1. load' = Idle /\ asked' = asked /\ load.search = asked
    BY <1>2 DEF Finally, ExplorerInv, SearchInv, LoadsAsked
  <2>2. load'.phase = "idle" /\ LoadShape'
    BY <2>1 DEF Idle, LoadShape
  <2>3. QED
    BY <2>1, <2>2 DEF ExplorerInv, SearchInv, LoadsAsked, SettlesOwn, RestShowsAsked, DrawerInv,
                      AtRest, Loading
<1>3. QED
  BY <1>1, <1>2

LEMMA SucceedKeeps ==
  ASSUME ExplorerInv, Loading, Succeed, response' = None \/ response'.search = load.search
  PROVE ExplorerInv'
<1>1. \E tailed : Finally(tailed)
  BY DEF Succeed, Recorded, DrawerAfter, NewTail, TailAfter
<1>2. drawer' # None => drawer' = selected' /\ selected' \in Range(entries')
  BY DEF Succeed, Recorded, DrawerAfter, NewTail, TailAfter
<1>3. QED
  BY <1>1, <1>2, EndKeeps

LEMMA FailKeeps == ASSUME ExplorerInv, Loading, Fail PROVE ExplorerInv'
<1>1. Finally(tail) /\ outcome' = "failed"
  BY DEF Fail
<1>2. QED
  BY <1>1, EndKeeps

\* A load that only moves on to another phase.
LEMMA PhaseKeeps ==
  ASSUME ExplorerInv, Loading, NEW phase, phase # "idle", LoadShape',
         load'.phase = phase, load'.search = load.search, UNCHANGED <<reload, asked>>,
         phase = "settling" /\ response' # None => response'.search = load.search
  PROVE ExplorerInv'
BY DEF ExplorerInv, SearchInv, LoadsAsked, SettlesOwn, RestShowsAsked, DrawerInv, AtRest, Loading

THEOREM ExplorerInvariant == Spec => []ExplorerInv
<1>1. Init => ExplorerInv
  BY DEF Init, ExplorerInv, SearchInv, LoadShape, LoadsAsked, SettlesOwn, RestShowsAsked, DrawerInv,
         AtRest, Loading, FirstLoad, Idle
<1>2. ExplorerInv /\ [Next]_vars => ExplorerInv'
  <2> SUFFICES ASSUME ExplorerInv, [Next]_vars PROVE ExplorerInv'
    OBVIOUS
  <2> USE DEF form, shown, timers, chart, browser, fetch, KeepDetail
  <2>1. ASSUME NEW q \in Searches, RunQuery(q) PROVE ExplorerInv'
    BY <2>1, RequestKeeps DEF RunQuery, RunFrom
  <2>2. ASSUME NEW q \in Searches, ChangeFilter(q) PROVE ExplorerInv'
    BY <2>2, RequestKeeps DEF ChangeFilter, RunFrom
  <2>3. ASSUME NEW q \in Searches, FieldFilter(q) PROVE ExplorerInv'
    BY <2>3, RequestKeeps DEF FieldFilter, RunFrom
  <2>4. ASSUME NEW q \in Searches, SelectRange(q) PROVE ExplorerInv'
    BY <2>4, RequestKeeps DEF SelectRange, RunFrom
  <2>5. ASSUME NEW q \in Searches, ShowContext(q) PROVE ExplorerInv'
    BY <2>5, RequestKeeps DEF ShowContext, RunFrom
  <2>6. ASSUME NEW q \in Searches, NEW run \in BOOLEAN, UseSnapshot(q, run) PROVE ExplorerInv'
    <3>1. CASE run
      BY <2>6, <3>1, RequestKeeps DEF UseSnapshot
    <3>2. CASE ~run
      BY <2>6, <3>2 DEF UseSnapshot, CloseDetail, ExplorerInv, SearchInv, LoadShape, LoadsAsked,
                        SettlesOwn, RestShowsAsked, DrawerInv, AtRest, Loading
    <3>3. QED
      BY <3>1, <3>2
  <2>7. ASSUME NEW q \in Searches, ScheduleSearch(q) PROVE ExplorerInv'
    BY <2>7, Frame DEF ScheduleSearch
  <2>8. ASSUME NEW q \in Searches, ChooseCustom(q) PROVE ExplorerInv'
    BY <2>8, Frame DEF ChooseCustom
  <2>9. CASE RefreshResults
    BY <2>9, RequestKeeps DEF RefreshResults
  <2>10. CASE NextPage
    BY <2>10, RequestKeeps DEF NextPage
  <2>11. CASE ToggleLive
    BY <2>11, Frame DEF ToggleLive
  <2>12. CASE CancelQuery
    <3> USE DEF ExplorerInv, SearchInv, LoadShape, LoadsAsked, SettlesOwn, RestShowsAsked, DrawerInv,
                AtRest, Loading
    <3>1. CASE load.phase \in {"sent", "answered"}
      BY <2>12, <3>1 DEF CancelQuery, Idle
    <3>2. CASE load.phase \notin {"sent", "answered"}
      BY <2>12, <3>2 DEF CancelQuery
    <3>3. QED
      BY <3>1, <3>2
  <2>13. CASE GoBack
    BY <2>13, RequestKeeps DEF GoBack
  <2>14. CASE ReloadPage
    BY <2>14 DEF ReloadPage, FirstLoad, Idle, ExplorerInv, SearchInv, LoadShape, LoadsAsked,
                 SettlesOwn,
                RestShowsAsked, DrawerInv, AtRest, Loading
  <2>15. ASSUME NEW commit \in BOOLEAN, ChangeDisplay(commit) PROVE ExplorerInv'
    BY <2>15, Frame DEF ChangeDisplay
  <2>16. ASSUME NEW e \in Entries, OpenDetail(e) PROVE ExplorerInv'
    BY <2>16 DEF OpenDetail, ExplorerInv, SearchInv, LoadShape, LoadsAsked, SettlesOwn,
                 RestShowsAsked,
                DrawerInv, AtRest, Loading
  <2>17. CASE DismissDetail
    BY <2>17 DEF DismissDetail, CloseDetail, ExplorerInv, SearchInv, LoadShape, LoadsAsked,
                 SettlesOwn,
                RestShowsAsked, DrawerInv, AtRest, Loading
  <2>18. ASSUME NEW b \in Resolutions, Resize(b) PROVE ExplorerInv'
    BY <2>18, Frame DEF Resize
  <2>19. CASE SearchTimer
    BY <2>19, RequestKeeps DEF SearchTimer
  <2>20. CASE ResizeTimer
    <3>1. CASE response = None
      BY <2>20, <3>1, Frame DEF ResizeTimer
    <3>2. CASE response # None
      BY <2>20, <3>2, RequestKeeps DEF ResizeTimer
    <3>3. QED
      BY <3>1, <3>2
  <2>21. CASE InitialLoadingTimer
    BY <2>21, Frame DEF InitialLoadingTimer
  <2>22. CASE ReceiveAnswer
    <3>1. Loading /\ response'.search = load.search
      BY <2>22 DEF ReceiveAnswer, Loading
    <3>2. CASE spinner = "shown"
      <4>1. load' = [load EXCEPT !.phase = "settling"] /\ UNCHANGED <<reload, asked>>
        BY <2>22, <3>2 DEF ReceiveAnswer
      <4>2. load'.phase = "settling" /\ load'.search = load.search /\ LoadShape'
        BY <4>1 DEF ExplorerInv, SearchInv, LoadShape
      <4>3. QED
        BY <3>1, <4>1, <4>2, PhaseKeeps
    <3>3. CASE spinner # "shown"
      BY <2>22, <3>1, <3>3, SucceedKeeps DEF ReceiveAnswer
    <3>4. QED
      BY <3>2, <3>3
  <2>23. CASE Settle
    <3>1. Loading
      BY <2>23 DEF Settle, Loading
    <3>2. CASE load.phase = "failing"
      BY <2>23, <3>1, <3>2, FailKeeps DEF Settle
    <3>3. CASE load.phase # "failing"
      <4>1. load.phase = "settling" /\ Succeed /\ response' = response
        BY <2>23, <3>3 DEF Settle
      <4>2. response = None \/ response.search = load.search
        BY <4>1 DEF ExplorerInv, SearchInv, SettlesOwn
      <4>3. QED
        BY <3>1, <4>1, <4>2, SucceedKeeps
    <3>4. QED
      BY <3>2, <3>3
  <2>24. CASE HubAnswers
    <3> DEFINE page == Page(load.search, load.pageToken)
               next == NextToken(load.search, load.pageToken)
    <3>1. load' = [load EXCEPT !.phase = "answered", !.since = stored, !.page = page, !.next = next]
      BY <2>24 DEF HubAnswers
    <3>2. Loading /\ UNCHANGED <<reload, asked>>
      BY <2>24 DEF HubAnswers, Loading
    <3> HIDE DEF page, next
    <3>3. load'.phase = "answered" /\ load'.search = load.search /\ LoadShape'
      BY <3>1 DEF ExplorerInv, SearchInv, LoadShape
    <3>4. QED
      BY <3>2, <3>3, PhaseKeeps
  <2>25. CASE ReceiveFailure
    <3>1. Loading
      BY <2>25 DEF ReceiveFailure, Loading
    <3>2. CASE spinner = "shown"
      <4>1. load' = [load EXCEPT !.phase = "failing"] /\ UNCHANGED <<reload, asked>>
        BY <2>25, <3>2 DEF ReceiveFailure
      <4>2. load'.phase = "failing" /\ load'.search = load.search /\ LoadShape'
        BY <4>1 DEF ExplorerInv, SearchInv, LoadShape
      <4>3. QED
        BY <3>1, <4>1, <4>2, PhaseKeeps
    <3>3. CASE spinner # "shown"
      BY <2>25, <3>1, <3>3, FailKeeps DEF ReceiveFailure
    <3>4. QED
      BY <3>2, <3>3
  <2>26. CASE LogWritten
    BY <2>26, Frame DEF LogWritten
  <2>27. ASSUME NEW e \in Entries, TailEntry(e) PROVE ExplorerInv'
    <3>1. UNCHANGED <<load, reload, asked, response, outcome, selected>>
      BY <2>27 DEF TailEntry
    <3>2. drawer' # None => drawer' = selected' /\ selected' \in Range(entries')
      BY <2>27, <3>1 DEF TailEntry
    <3>3. QED
      BY <3>1, <3>2 DEF ExplorerInv, SearchInv, LoadShape, LoadsAsked, SettlesOwn, RestShowsAsked,
                        DrawerInv, AtRest, Loading
  <2>28. CASE UNCHANGED vars
    BY <2>28, Frame DEF vars
  <2>29. QED
    BY <2>1, <2>2, <2>3, <2>4, <2>5, <2>6, <2>7, <2>8, <2>9, <2>10, <2>11, <2>12, <2>13, <2>14,
       <2>15, <2>16, <2>17, <2>18, <2>19, <2>20, <2>21, <2>22, <2>23, <2>24, <2>25, <2>26, <2>27,
       <2>28 DEF Next, User, RunsSearch, Runtime, World
<1>3. QED
  BY <1>1, <1>2, PTL DEF Spec

(* loadExplorer and reloadRequested: the results of a page at rest are those *)
(* of the search asked for last.                                             *)
THEOREM ShownStaysAsked == Spec => []ShownIsAsked
<1>1. ExplorerInv => ShownIsAsked
  BY DEF ExplorerInv, SearchInv, RestShowsAsked, AtRest, ShownIsAsked, Settled
<1>2. QED
  BY <1>1, ExplorerInvariant, PTL

(* openDetail and what closes the drawer: on a page at rest it shows the     *)
(* selected entry, and that entry is in the list.                            *)
THEOREM DrawerStaysSelected == Spec => []DrawerShowsSelected
<1>1. ExplorerInv => DrawerShowsSelected
  BY DEF ExplorerInv, DrawerInv, AtRest, DrawerShowsSelected, Settled
<1>2. QED
  BY <1>1, ExplorerInvariant, PTL
-----------------------------------------------------------------------------
(* The stream, the list and the recent searches follow the form: a second  *)
(* induction, on top of ExplorerInv.                                       *)

\* The list is at rest, or it only gets one more page.
ListStands == ~Loading \/ (load.append /\ ~reload)

\* A page that is appended to no list (a query of the library was put in the
\* form meanwhile) does not make the list one of results.
AppendsToResults == Loading /\ load.append /\ response = None => outcome # "ok"

\* A page to append finds the results shown, and ends without the spinner.
AppendUnhidden == Loading /\ load.append => spinner = "off" /\ load.phase \in {"sent", "answered"}

TailFits ==
  ListStands /\ outcome = "ok" /\ live /\ response # None /\ ~searchTimer =>
    tail.open /\ tail.search = search

\* The inductive strengthening of LiveWhenSettled.
StreamInv == AppendUnhidden /\ AppendsToResults /\ TailFits

\* What is in the form was asked for, unless it is still being typed.
FormAsked == ~searchTimer => search = asked

TailOfForm == ~searchTimer /\ tail.open => tail.search = search

ListOfForm ==
  /\ ~searchTimer
  /\ \/ ListStands /\ outcome = "ok"
     \/ load.phase = "settling" /\ ~load.append /\ ~reload
  => origin \subseteq {search}

\* The inductive strengthening of OneSearch.
ListInv == FormAsked /\ TailOfForm /\ ListOfForm

\* The inductive strengthening of RecentWereAnswered.
RecordInv ==
  /\ load.phase = "settling" => load.search \in answered
  /\ ~searchTimer
  /\ RecentWereAnswered

NothingCustom == strayed < Custom

NothingUnrun == strayed < Unrun

NothingTyped == strayed < Typed

FollowInv ==
  /\ strayed \in 0 .. Custom
  /\ NothingCustom => StreamInv
  /\ NothingUnrun => ListInv
  /\ NothingTyped => RecordInv

LEMMA StrayedFurther ==
  ASSUME strayed \in 0 .. Custom
  PROVE  (NothingTyped => NothingUnrun) /\ (NothingUnrun => NothingCustom)
BY DEF NothingTyped, NothingUnrun, NothingCustom, Typed, Unrun, Custom

LEMMA StrayedAsBefore ==
  ASSUME UNCHANGED strayed
  PROVE  UNCHANGED <<NothingTyped, NothingUnrun, NothingCustom>>
BY DEF NothingTyped, NothingUnrun, NothingCustom

\* A gesture that leads the form away.
LEMMA Strays ==
  ASSUME strayed \in 0 .. Custom, NEW how \in {Typed, Unrun, Custom}, Stray(how)
  PROVE  /\ strayed' \in 0 .. Custom /\ ~NothingTyped'
         /\ NothingUnrun' => NothingUnrun /\ how = Typed
         /\ NothingCustom' => NothingCustom /\ how # Custom
BY DEF Stray, NothingTyped, NothingUnrun, NothingCustom, Typed, Unrun, Custom

LEMMA FollowFrame ==
  ASSUME FollowInv,
         UNCHANGED <<load, reload, asked, response, outcome, origin, answered, recent, tail, search,
                     live, searchTimer, spinner, strayed>>
  PROVE FollowInv'
BY StrayedAsBefore DEF FollowInv, StreamInv, AppendUnhidden, AppendsToResults, TailFits, ListInv,
                       FormAsked,
       TailOfForm, ListOfForm, RecordInv, RecentWereAnswered, ListStands, Loading

\* A whole search, asked for while the tail is closed or opened anew.
LEMMA SearchFollows ==
  ASSUME FollowInv, LoadExplorer(FALSE), NEW since, CloseTail \/ StartTail(since),
         searchTimer' \in {searchTimer, FALSE}, UNCHANGED <<answered, recent, strayed>>,
         \/ UNCHANGED <<response, outcome, origin>>
         \/ response' = None /\ outcome' = "none"
  PROVE FollowInv'
<1>0. strayed \in 0 .. Custom /\ UNCHANGED <<strayed, NothingTyped, NothingUnrun, NothingCustom>>
  BY StrayedAsBefore DEF FollowInv
<1>1. asked' = search' /\ (tail'.open => tail'.search = search')
  BY DEF LoadExplorer, CloseTail, StartTail, Closed
<1>2. CASE Loading
  <2>1. reload' /\ UNCHANGED <<load, spinner>>
    BY <1>2 DEF LoadExplorer
  <2>2. ~ListStands'
    BY <1>2, <2>1 DEF ListStands, Loading
  <2>3. NothingCustom => AppendUnhidden' /\ AppendsToResults'
    BY <1>2, <2>1 DEF FollowInv, StreamInv, ListStands, Loading, AppendUnhidden, AppendsToResults
  <2>4. NothingCustom => TailFits'
    BY <2>2 DEF TailFits
  <2>5. ListInv'
    BY <1>1, <2>1, <2>2 DEF ListInv, FormAsked, TailOfForm, ListOfForm
  <2>6. NothingTyped => RecordInv'
    BY <2>1 DEF FollowInv, RecordInv, RecentWereAnswered
  <2>7. QED
    BY <1>0, <2>3, <2>4, <2>5, <2>6 DEF FollowInv, StreamInv
<1>3. CASE ~Loading
  <2>1. load' = Request(FALSE)
    BY <1>3 DEF LoadExplorer, NewLoad
  <2>2. load'.phase = "sent" /\ ~load'.append
    BY <2>1 DEF Request, Idle
  <2>3. ~ListStands'
    BY <2>2 DEF ListStands, Loading
  <2>4. StreamInv'
    BY <2>2, <2>3 DEF StreamInv, AppendUnhidden, AppendsToResults, TailFits
  <2>5. ListInv'
    BY <1>1, <2>2, <2>3 DEF ListInv, FormAsked, TailOfForm, ListOfForm
  <2>6. (NothingTyped => RecordInv)'
    BY <1>0, <2>2 DEF FollowInv, RecordInv, RecentWereAnswered
  <2>7. QED
    BY <1>0, <2>4, <2>5, <2>6 DEF FollowInv
<1>4. QED
  BY <1>2, <1>3

\* The end of a load: with a reload due a new one begins, and otherwise the
\* list, the tail and what is recorded are as the caller leaves them.
LEMMA EndFollows ==
  ASSUME FollowInv, Loading, NEW tailed, Finally(tailed),
         UNCHANGED <<search, live, searchTimer, strayed>>,
         ~reload /\ outcome' = "ok" /\ live /\ response' # None /\ ~searchTimer =>
           ~NothingCustom \/ (tailed.open /\ tailed.search = search),
         NothingUnrun /\ ~reload /\ ~searchTimer => /\ tailed.open => tailed.search = search
                                                    /\ outcome' = "ok" => origin' \subseteq {search},
         NothingTyped => recent' \subseteq answered'
  PROVE FollowInv'
<1>0. strayed \in 0 .. Custom /\ UNCHANGED <<strayed, NothingTyped, NothingUnrun, NothingCustom>>
  BY StrayedAsBefore DEF FollowInv
<1>1. CASE reload
  <2>1. load' = Request(FALSE) /\ asked' = search' /\ tail' = Closed
    BY <1>1 DEF Finally, NewLoad, CloseTail
  <2>2. load'.phase = "sent" /\ ~load'.append /\ ~tail'.open
    BY <2>1 DEF Request, Idle, Closed
  <2>3. QED
    BY <1>0, <2>1, <2>2
       DEF FollowInv, StreamInv, AppendUnhidden, AppendsToResults, TailFits, ListInv, FormAsked,
           TailOfForm, ListOfForm, RecordInv, RecentWereAnswered, ListStands, Loading
<1>2. CASE ~reload
  <2>1. load' = Idle /\ UNCHANGED <<asked, reload>> /\ tail' = tailed
    BY <1>2 DEF Finally
  <2>2. load'.phase = "idle"
    BY <2>1 DEF Idle
  <2>3. QED
    BY <1>0, <1>2, <2>1, <2>2
       DEF FollowInv, StreamInv, AppendUnhidden, AppendsToResults, TailFits, ListInv, FormAsked,
           TailOfForm, ListOfForm, RecordInv, RecentWereAnswered, ListStands, Loading
<1>3. QED
  BY <1>1, <1>2

\* An answer that is in the state: the load ends with a list, a tail and a
\* recent search of its own.
LEMMA SucceedFollows ==
  ASSUME ExplorerInv, FollowInv, Loading, Succeed,
         UNCHANGED <<search, live, searchTimer, strayed>>,
         answered \subseteq answered',
         load.append => (NothingCustom => response # None \/ outcome # "ok"),
         NothingUnrun /\ ~reload /\ ~searchTimer =>
           IF load.append THEN origin' \subseteq origin \cup {load.search}
           ELSE origin' \subseteq {search},
         NothingTyped /\ ~load.append => load.search \in answered'
  PROVE FollowInv'
<1> DEFINE last == ~load.append /\ ~reload
           tailed == TailAfter(last)
<1>1. /\ outcome' = IF load.append THEN outcome ELSE "ok"
      /\ recent' = Recorded(last)
      /\ Finally(tailed)
  BY DEF Succeed
<1>2. NothingUnrun /\ ~reload /\ ~searchTimer => load.search = search
  BY DEF ExplorerInv, SearchInv, LoadsAsked, FollowInv, ListInv, FormAsked
<1>3. NothingTyped => NothingUnrun /\ ~searchTimer
  BY StrayedFurther DEF FollowInv, RecordInv
<1>4. NothingTyped => recent' \subseteq answered'
  BY <1>1, <1>2, <1>3 DEF Recorded, FollowInv, RecordInv, RecentWereAnswered
<1>5. NothingUnrun /\ ~reload /\ ~searchTimer /\ outcome' = "ok" => origin' \subseteq {search}
  <2>1. CASE load.append
    BY <1>1, <1>2, <2>1 DEF FollowInv, ListInv, ListOfForm, ListStands
  <2>2. CASE ~load.append
    BY <2>2
  <2>3. QED
    BY <2>1, <2>2
<1>6. NothingUnrun /\ ~reload /\ ~searchTimer => (tailed.open => tailed.search = search)
  BY DEF TailAfter, NewTail, FollowInv, ListInv, TailOfForm
<1>7. ~reload /\ outcome' = "ok" /\ live /\ response' # None /\ ~searchTimer =>
        ~NothingCustom \/ (tailed.open /\ tailed.search = search)
  <2>1. CASE load.append
    <3>1. tailed = tail
      BY <2>1 DEF TailAfter
    <3>2. NothingCustom => TailFits
      BY DEF FollowInv, StreamInv
    <3>3. ~reload /\ outcome = "ok" /\ live /\ response # None /\ ~searchTimer =>
            ~NothingCustom \/ (tail.open /\ tail.search = search)
      BY <2>1, <3>2 DEF TailFits, ListStands
    <3>4. outcome' = outcome /\ (NothingCustom => response # None \/ outcome # "ok")
      BY <1>1, <2>1
    <3> HIDE DEF tailed
    <3>5. QED
      BY <3>1, <3>3, <3>4
  <2>2. CASE ~load.append
    BY <2>2 DEF TailAfter, NewTail
  <2>3. QED
    BY <2>1, <2>2
<1> HIDE DEF tailed, last
<1>8. QED
  BY <1>1, <1>4, <1>5, <1>6, <1>7, EndFollows

LEMMA FailFollows ==
  ASSUME ExplorerInv, FollowInv, Loading, Fail, UNCHANGED <<search, live, searchTimer, strayed>>
  PROVE FollowInv'
<1>1. outcome' = "failed" /\ Finally(tail) /\ UNCHANGED <<answered, recent>>
  BY DEF Fail
<1>2. NothingUnrun /\ ~searchTimer => (tail.open => tail.search = search)
  BY DEF FollowInv, ListInv, TailOfForm
<1>3. NothingTyped => recent' \subseteq answered'
  BY <1>1 DEF FollowInv, RecordInv, RecentWereAnswered
<1>4. QED
  BY <1>1, <1>2, <1>3, EndFollows

\* A load that only moves on to another phase, its list not yet in the state.
LEMMA PhaseFollows ==
  ASSUME FollowInv, Loading, NEW phase \in {"answered", "failing"},
         phase = "failing" => spinner = "shown",
         load'.phase = phase, load'.append = load.append,
         UNCHANGED <<reload, asked, response, outcome, origin, answered, recent, tail, search, live,
                     searchTimer, spinner, strayed>>
  PROVE FollowInv'
BY StrayedAsBefore DEF FollowInv, StreamInv, AppendUnhidden, AppendsToResults, TailFits, ListInv,
                       FormAsked,
       TailOfForm, ListOfForm, RecordInv, RecentWereAnswered, ListStands, Loading

LEMMA FollowStep == ExplorerInv /\ FollowInv /\ [Next]_vars => FollowInv'
<1> SUFFICES ASSUME ExplorerInv, FollowInv, [Next]_vars PROVE FollowInv'
  OBVIOUS
<1> USE DEF form, shown, timers, chart, browser, fetch, KeepDetail
<1>0. strayed \in 0 .. Custom
  BY DEF FollowInv
<1>1. ASSUME NEW q \in Searches, RunQuery(q) PROVE FollowInv'
  BY <1>1, SearchFollows DEF RunQuery, RunFrom
<1>2. ASSUME NEW q \in Searches, ChangeFilter(q) PROVE FollowInv'
  BY <1>2, SearchFollows DEF ChangeFilter, RunFrom
<1>3. ASSUME NEW q \in Searches, FieldFilter(q) PROVE FollowInv'
  BY <1>3, SearchFollows DEF FieldFilter, RunFrom
<1>4. ASSUME NEW q \in Searches, SelectRange(q) PROVE FollowInv'
  BY <1>4, SearchFollows DEF SelectRange, RunFrom
<1>5. ASSUME NEW q \in Searches, ShowContext(q) PROVE FollowInv'
  BY <1>5, SearchFollows DEF ShowContext, RunFrom
<1>6. ASSUME NEW q \in Searches, NEW run \in BOOLEAN, UseSnapshot(q, run) PROVE FollowInv'
  <2>1. CASE run
    BY <1>6, <2>1, SearchFollows DEF UseSnapshot
  <2>2. CASE ~run
    <3>1. /\ Stray(Unrun) /\ UNCHANGED <<load, reload, spinner>>
          /\ response' = None /\ outcome' = "none"
      BY <1>6, <2>2 DEF UseSnapshot
    <3>2. /\ strayed' \in 0 .. Custom /\ ~NothingUnrun' /\ ~NothingTyped'
          /\ NothingCustom' => NothingCustom
      BY <1>0, <3>1, Strays DEF Typed, Unrun
    <3>3. QED
      BY <3>1, <3>2 DEF FollowInv, StreamInv, AppendUnhidden, AppendsToResults, TailFits, Loading
  <2>3. QED
    BY <2>1, <2>2
<1>7. ASSUME NEW q \in Searches, ScheduleSearch(q) PROVE FollowInv'
  <2>1. /\ Stray(Typed) /\ searchTimer'
        /\ UNCHANGED <<load, reload, response, outcome, origin, tail, spinner>>
    BY <1>7 DEF ScheduleSearch
  <2>2. /\ strayed' \in 0 .. Custom /\ ~NothingTyped'
        /\ NothingUnrun' => NothingUnrun
        /\ NothingCustom' => NothingCustom
    BY <1>0, <2>1, Strays
  <2>3. QED
    BY <2>1, <2>2 DEF FollowInv, StreamInv, AppendUnhidden, AppendsToResults, TailFits, ListInv,
                      FormAsked, TailOfForm, ListOfForm, Loading
<1>8. ASSUME NEW q \in Searches, ChooseCustom(q) PROVE FollowInv'
  <2>1. Stray(Custom)
    BY <1>8 DEF ChooseCustom
  <2>2. /\ strayed' \in 0 .. Custom /\ ~NothingTyped'
        /\ ~NothingUnrun' /\ ~NothingCustom'
    BY <1>0, <2>1, Strays DEF Typed, Custom
  <2>3. QED
    BY <2>2 DEF FollowInv
<1>9. CASE RefreshResults
  BY <1>9, SearchFollows DEF RefreshResults
<1>10. CASE NextPage
  <2>0. UNCHANGED <<strayed, NothingTyped, NothingUnrun, NothingCustom>>
    BY <1>10, StrayedAsBefore DEF NextPage
  <2>1. /\ ~Loading /\ response # None /\ LoadExplorer(TRUE)
        /\ UNCHANGED <<search, live, response, outcome, origin, answered, recent, tail, searchTimer>>
    BY <1>10 DEF NextPage
  <2>2. load' = Request(TRUE) /\ spinner' = "off" /\ asked' = search' /\ UNCHANGED reload
    BY <2>1 DEF LoadExplorer, NewLoad
  <2>3. load'.phase = "sent" /\ load'.append
    BY <2>2 DEF Request, Idle
  <2>4. QED
    BY <1>0, <2>0, <2>1, <2>2, <2>3
       DEF FollowInv, StreamInv, AppendUnhidden, AppendsToResults, TailFits, ListInv, FormAsked,
           TailOfForm, ListOfForm, RecordInv, RecentWereAnswered, ListStands, Loading
<1>11. CASE ToggleLive
  <2>0. UNCHANGED <<strayed, NothingTyped, NothingUnrun, NothingCustom>>
    BY <1>11, StrayedAsBefore DEF ToggleLive
  <2>1. UNCHANGED <<load, reload, asked, response, outcome, origin, answered, recent, search,
                    searchTimer, spinner>>
    BY <1>11 DEF ToggleLive
  <2>2. /\ tail'.open => tail' = tail \/ tail'.search = search
        /\ live' /\ response # None => tail'.open /\ tail'.search = search
    BY <1>11, <2>1 DEF ToggleLive, StartTail, CloseTail, Closed
  <2>3. QED
    BY <1>0, <2>0, <2>1, <2>2
       DEF FollowInv, StreamInv, AppendUnhidden, AppendsToResults, TailFits, ListInv, FormAsked,
           TailOfForm, ListOfForm, RecordInv, RecentWereAnswered, ListStands, Loading
<1>12. CASE CancelQuery
  <2>0. Stray(Unrun)
    BY <1>12 DEF CancelQuery
  <2>1. /\ strayed' \in 0 .. Custom /\ ~NothingUnrun' /\ ~NothingTyped'
        /\ NothingCustom' => NothingCustom
    BY <1>0, <2>0, Strays DEF Typed, Unrun
  <2>2. UNCHANGED <<response, tail, search, live, searchTimer>>
    BY <1>12 DEF CancelQuery
  <2>3. CASE load.phase \in {"sent", "answered"}
    <3>1. load' = Idle /\ outcome' = "cancelled"
      BY <1>12, <2>3 DEF CancelQuery
    <3>2. load'.phase = "idle"
      BY <3>1 DEF Idle
    <3>3. QED
      BY <2>1, <3>1, <3>2 DEF FollowInv, StreamInv, AppendUnhidden, AppendsToResults, TailFits,
                              Loading
  <2>4. CASE load.phase \notin {"sent", "answered"}
    <3>1. Loading /\ UNCHANGED <<load, outcome>> /\ ~reload'
      BY <1>12, <2>4 DEF CancelQuery
    <3>2. QED
      BY <2>1, <2>2, <2>4, <3>1
         DEF FollowInv, StreamInv, AppendUnhidden, AppendsToResults, TailFits, ListStands, Loading
  <2>5. QED
    BY <2>3, <2>4
<1>13. CASE GoBack
  BY <1>13, SearchFollows DEF GoBack
<1>14. CASE ReloadPage
  <2>0. UNCHANGED <<strayed, NothingTyped, NothingUnrun, NothingCustom>>
    BY <1>14, StrayedAsBefore DEF ReloadPage
  <2>1. /\ load' = FirstLoad(url) /\ asked' = search' /\ response' = None /\ outcome' = "none"
        /\ tail' = Closed /\ ~searchTimer' /\ UNCHANGED <<recent, answered>>
    BY <1>14 DEF ReloadPage
  <2>2. load'.phase = "sent" /\ ~load'.append /\ ~tail'.open
    BY <2>1 DEF FirstLoad, Idle, Closed
  <2>3. QED
    BY <1>0, <2>0, <2>1, <2>2
       DEF FollowInv, StreamInv, AppendUnhidden, AppendsToResults, TailFits, ListInv, FormAsked,
           TailOfForm, ListOfForm, RecordInv, RecentWereAnswered
<1>15. ASSUME NEW commit \in BOOLEAN, ChangeDisplay(commit) PROVE FollowInv'
  BY <1>15, FollowFrame DEF ChangeDisplay
<1>16. ASSUME NEW e \in Entries, OpenDetail(e) PROVE FollowInv'
  BY <1>16, FollowFrame DEF OpenDetail
<1>17. CASE DismissDetail
  BY <1>17, FollowFrame DEF DismissDetail
<1>18. ASSUME NEW b \in Resolutions, Resize(b) PROVE FollowInv'
  BY <1>18, FollowFrame DEF Resize
<1>19. CASE SearchTimer
  BY <1>19, SearchFollows DEF SearchTimer
<1>20. CASE ResizeTimer
  <2>1. CASE response = None
    BY <1>20, <2>1, FollowFrame DEF ResizeTimer
  <2>2. CASE response # None
    BY <1>20, <2>2, SearchFollows DEF ResizeTimer
  <2>3. QED
    BY <2>1, <2>2
<1>21. CASE InitialLoadingTimer
  <2>0. UNCHANGED <<strayed, NothingTyped, NothingUnrun, NothingCustom>>
    BY <1>21, StrayedAsBefore DEF InitialLoadingTimer
  <2>1. /\ UNCHANGED <<load, reload, asked, response, outcome, origin, answered, recent, tail, search,
                       live, searchTimer>>
        /\ spinner = "armed"
    BY <1>21 DEF InitialLoadingTimer
  <2>2. QED
    BY <1>0, <2>0, <2>1
       DEF FollowInv, StreamInv, AppendUnhidden, AppendsToResults, TailFits, ListInv, FormAsked,
           TailOfForm, ListOfForm, RecordInv, RecentWereAnswered, ListStands, Loading
<1>22. CASE ReceiveAnswer
  <2>0. UNCHANGED <<strayed, NothingTyped, NothingUnrun, NothingCustom>>
    BY <1>22, StrayedAsBefore DEF ReceiveAnswer
  <2>1. /\ Loading /\ UNCHANGED <<search, live, searchTimer, strayed>>
        /\ origin' = (IF load.append THEN origin ELSE {}) \cup {load.search}
        /\ answered' = answered \cup {load.search}
    BY <1>22 DEF ReceiveAnswer, Loading
  <2>2. NothingUnrun /\ ~reload /\ ~searchTimer => load.search = search
    BY <2>1 DEF ExplorerInv, SearchInv, LoadsAsked, FollowInv, ListInv, FormAsked
  <2>3. CASE spinner = "shown"
    <3>1. /\ load' = [load EXCEPT !.phase = "settling"]
          /\ UNCHANGED <<reload, asked, outcome, tail, recent, spinner>>
      BY <1>22, <2>3 DEF ReceiveAnswer
    <3>2. load'.phase = "settling" /\ load'.append = load.append /\ load'.search = load.search
      BY <3>1 DEF ExplorerInv, SearchInv, LoadShape
    <3>3. (NothingCustom => StreamInv)'
      BY <1>0, <2>0, <2>1, <2>3, <3>1, <3>2 DEF FollowInv, StreamInv, AppendUnhidden,
                                                AppendsToResults,
                                    TailFits, ListStands, Loading
    <3>4. (NothingUnrun => ListInv)'
      BY <1>0, <2>0, <2>1, <2>2, <3>1, <3>2
         DEF FollowInv, ListInv, FormAsked, TailOfForm, ListOfForm, ListStands, Loading
    <3>5. (NothingTyped => RecordInv)'
      BY <1>0, <2>0, <2>1, <3>1, <3>2 DEF FollowInv, RecordInv, RecentWereAnswered
    <3>6. QED
      BY <1>0, <2>0, <3>3, <3>4, <3>5 DEF FollowInv
  <2>4. CASE spinner # "shown"
    <3>1. Succeed
      BY <1>22, <2>4 DEF ReceiveAnswer
    <3>2. load.append => (NothingCustom => response # None \/ outcome # "ok")
      BY <2>1 DEF FollowInv, StreamInv, AppendsToResults
    <3>3. QED
      BY <1>0, <2>0, <2>1, <2>2, <3>1, <3>2, SucceedFollows
  <2>5. QED
    BY <1>0, <2>0, <2>3, <2>4
<1>23. CASE Settle
  <2>1. Loading /\ UNCHANGED <<search, live, searchTimer, strayed>>
    BY <1>23 DEF Settle, Loading
  <2>2. CASE load.phase = "failing"
    BY <1>23, <2>1, <2>2, FailFollows DEF Settle
  <2>3. CASE load.phase # "failing"
    <3>1. load.phase = "settling" /\ Succeed /\ UNCHANGED <<response, origin, answered>>
      BY <1>23, <2>3 DEF Settle
    <3>2. load.append => (NothingCustom => response # None \/ outcome # "ok")
      BY <2>1 DEF FollowInv, StreamInv, AppendsToResults
    <3>3. NothingUnrun /\ ~reload /\ ~searchTimer /\ ~load.append => origin \subseteq {search}
      BY <3>1 DEF FollowInv, ListInv, ListOfForm
    <3>4. NothingTyped => load.search \in answered
      BY <3>1 DEF FollowInv, RecordInv
    <3>5. QED
      BY <2>1, <3>1, <3>2, <3>3, <3>4, SucceedFollows
  <2>4. QED
    BY <2>2, <2>3
<1>24. CASE HubAnswers
  <2> DEFINE page == Page(load.search, load.pageToken)
             next == NextToken(load.search, load.pageToken)
  <2>1. load' = [load EXCEPT !.phase = "answered", !.since = stored, !.page = page, !.next = next]
    BY <1>24 DEF HubAnswers
  <2>2. /\ Loading
        /\ UNCHANGED <<reload, asked, response, outcome, origin, answered, recent, tail, search, live,
                       searchTimer, spinner, strayed>>
    BY <1>24 DEF HubAnswers, Loading
  <2> HIDE DEF page, next
  <2>3. load'.phase = "answered" /\ load'.append = load.append
    BY <2>1 DEF ExplorerInv, SearchInv, LoadShape
  <2>4. QED
    BY <2>2, <2>3, PhaseFollows
<1>25. CASE ReceiveFailure
  <2>1. Loading /\ UNCHANGED <<search, live, searchTimer, strayed>>
    BY <1>25 DEF ReceiveFailure, Loading
  <2>2. CASE spinner = "shown"
    <3>1. /\ load' = [load EXCEPT !.phase = "failing"]
          /\ UNCHANGED <<reload, asked, response, outcome, origin, answered, recent, tail,
                         spinner>>
      BY <1>25, <2>2 DEF ReceiveFailure
    <3>2. load'.phase = "failing" /\ load'.append = load.append
      BY <3>1 DEF ExplorerInv, SearchInv, LoadShape
    <3>3. QED
      BY <2>1, <2>2, <3>1, <3>2, PhaseFollows
  <2>3. CASE spinner # "shown"
    BY <1>25, <2>1, <2>3, FailFollows DEF ReceiveFailure
  <2>4. QED
    BY <2>2, <2>3
<1>26. CASE LogWritten
  BY <1>26, FollowFrame DEF LogWritten
<1>27. ASSUME NEW e \in Entries, TailEntry(e) PROVE FollowInv'
  <2>0. UNCHANGED <<strayed, NothingTyped, NothingUnrun, NothingCustom>>
    BY <1>27, StrayedAsBefore DEF TailEntry
  <2>1. /\ UNCHANGED <<load, reload, asked, response, outcome, answered, recent, tail, search, live,
                       searchTimer, spinner>>
        /\ tail.open /\ origin' = origin \cup {tail.search}
    BY <1>27 DEF TailEntry
  <2>2. QED
    BY <1>0, <2>0, <2>1
       DEF FollowInv, StreamInv, AppendUnhidden, AppendsToResults, TailFits, ListInv, FormAsked,
           TailOfForm, ListOfForm, RecordInv, RecentWereAnswered, ListStands, Loading
<1>28. CASE UNCHANGED vars
  BY <1>28, FollowFrame DEF vars
<1>29. QED
  BY <1>1, <1>2, <1>3, <1>4, <1>5, <1>6, <1>7, <1>8, <1>9, <1>10, <1>11, <1>12, <1>13, <1>14,
     <1>15, <1>16, <1>17, <1>18, <1>19, <1>20, <1>21, <1>22, <1>23, <1>24, <1>25, <1>26, <1>27,
     <1>28 DEF Next, User, RunsSearch, Runtime, World

THEOREM FollowInvariant == Spec => []FollowInv
<1>1. Init => FollowInv
  <2>1. ASSUME Init PROVE load.phase = "sent" /\ ~load.append /\ ~tail.open
    BY <2>1 DEF Init, FirstLoad, Idle, Closed
  <2>2. Init => strayed \in 0 .. Custom
    BY DEF Init, Custom
  <2>3. QED
    BY <2>1, <2>2 DEF Init, FollowInv, StreamInv, AppendUnhidden, AppendsToResults, TailFits,
                      ListInv,
                FormAsked, TailOfForm, ListOfForm, RecordInv, RecentWereAnswered, ListStands,
                Loading
<1>2. QED
  BY <1>1, FollowStep, ExplorerInvariant, PTL DEF Spec

(* However loads, reloads, pages and the tail interleave with the gestures   *)
(* of the user, the tail of a page at rest belongs to the search asked for,  *)
(* the list holds no entry of another one, and what is recorded as recent    *)
(* was answered (loadExplorer, startTail, recordQuery).                      *)
THEOREM StreamFollowsSearch == Spec => []PageFollowsSearch
<1>1. ExplorerInv /\ FollowInv => PageFollowsSearch
  <2> SUFFICES ASSUME ExplorerInv, FollowInv PROVE PageFollowsSearch
    OBVIOUS
  <2>1. NothingCustom => LiveWhenSettled
    BY DEF FollowInv, StreamInv, TailFits, ListStands, LiveWhenSettled, Settled
  <2>2. NothingUnrun => OneSearch
    BY DEF FollowInv, ListInv, ListOfForm, ListStands, OneSearch, Settled
  <2>3. NothingTyped => RecentWereAnswered
    BY DEF FollowInv, RecordInv
  <2>4. QED
    BY <2>1, <2>2, <2>3 DEF PageFollowsSearch, NothingCustom, NothingUnrun, NothingTyped
<1>2. QED
  BY <1>1, FollowInvariant, ExplorerInvariant, PTL
-----------------------------------------------------------------------------
(* The types. *)

LoadRecords ==
  [phase : {"idle", "sent", "answered", "settling", "failing"}, append : BOOLEAN,
   search : Searches, pageToken : Token \cup {None}, buckets : Resolutions \cup {0},
   since : 0 .. MaxEntries, page : Seq(Entries), next : Token \cup {None}]

FormTypes ==
  /\ search \in Searches /\ live \in BOOLEAN
  /\ pageToken \in Token \cup {None} /\ selected \in Entries \cup {None}

AddressTypes == url \in URL /\ other \in URL

\* A load that is under way asks for a number of buckets there is.
LoadTypes ==
  /\ load \in LoadRecords /\ (Loading => load.buckets \in Resolutions)
  /\ reload \in BOOLEAN /\ spinner \in {"off", "armed", "shown"} /\ asked \in Searches

ShownTypes ==
  /\ response \in Response \cup {None}
  /\ entries \in Seq(Entries) /\ origin \subseteq Searches /\ answered \subseteq Searches
  /\ outcome \in {"none", "ok", "failed", "cancelled"}

TailTypes == tail \in [open : BOOLEAN, search : Searches, since : 0 .. MaxEntries]

ChartTypes ==
  /\ searchTimer \in BOOLEAN /\ resizeTimer \in BOOLEAN
  /\ ready \in BOOLEAN /\ buckets \in Resolutions

RestTypes ==
  /\ stored \in 0 .. MaxEntries
  /\ drawer \in Entries \cup {None} /\ recent \subseteq Searches /\ strayed \in 0 .. Custom

TypeInv ==
  /\ FormTypes /\ AddressTypes /\ LoadTypes /\ ShownTypes /\ TailTypes /\ ChartTypes /\ RestTypes

LEMMA Bounds == 0 \in 0 .. MaxEntries /\ MaxEntries \in Nat /\ Start \in Searches
BY ExplorerAssumption

LEMMA AddressTyped == ASSUME FormTypes PROVE Address \in URL /\ [Address EXCEPT !.selected = None] \in URL
BY DEF FormTypes, Address, URL

LEMMA RequestTyped ==
  ASSUME FormTypes', ChartTypes', NEW append \in BOOLEAN
  PROVE  Request(append) \in LoadRecords /\ Request(append).buckets \in Resolutions
<1> SUFFICES ASSUME NEW r, r = Request(append) PROVE r \in LoadRecords /\ r.buckets \in Resolutions
  OBVIOUS
<1>1. r = [phase |-> r.phase, append |-> r.append, search |-> r.search, pageToken |-> r.pageToken,
           buckets |-> r.buckets, since |-> r.since, page |-> r.page, next |-> r.next]
  BY DEF Request, Idle
<1>2. /\ r.phase = "sent" /\ r.append = append /\ r.search = search' /\ r.pageToken = pageToken'
      /\ r.buckets = buckets' /\ r.since = 0 /\ r.page = <<>> /\ r.next = None
  BY DEF Request, Idle
<1>3. <<>> \in Seq(Entries)
  OBVIOUS
<1>4. QED
  BY <1>1, <1>2, <1>3, Bounds DEF FormTypes, ChartTypes, LoadRecords

LEMMA IdleTyped == Idle \in LoadRecords /\ Idle.phase = "idle"
BY Bounds DEF Idle, LoadRecords

LEMMA LoadTyped ==
  ASSUME LoadTypes, FormTypes', ChartTypes', NEW append \in BOOLEAN, LoadExplorer(append)
  PROVE  LoadTypes'
<1>1. CASE Loading
  BY <1>1 DEF LoadExplorer, LoadTypes, Loading, FormTypes
<1>2. CASE ~Loading
  <2>1. load' = Request(append) /\ asked' = search' /\ UNCHANGED reload /\ spinner' \in {"off", "armed"}
    BY <1>2 DEF LoadExplorer, NewLoad
  <2>2. QED
    BY <2>1, RequestTyped DEF LoadTypes, FormTypes
<1>3. QED
  BY <1>1, <1>2

LEMMA FirstLoadTyped ==
  ASSUME NEW a \in URL, ChartTypes
  PROVE  FirstLoad(a) \in LoadRecords /\ FirstLoad(a).buckets \in Resolutions
<1> SUFFICES ASSUME NEW r, r = FirstLoad(a) PROVE r \in LoadRecords /\ r.buckets \in Resolutions
  OBVIOUS
<1>1. r = [phase |-> r.phase, append |-> r.append, search |-> r.search, pageToken |-> r.pageToken,
           buckets |-> r.buckets, since |-> r.since, page |-> r.page, next |-> r.next]
  BY DEF FirstLoad, Idle
<1>2. /\ r.phase = "sent" /\ r.append = FALSE /\ r.search = a.search /\ r.pageToken = a.pageToken
      /\ r.buckets = buckets /\ r.since = 0 /\ r.page = <<>> /\ r.next = None
  BY DEF FirstLoad, Idle
<1>3. <<>> \in Seq(Entries)
  OBVIOUS
<1>4. QED
  BY <1>1, <1>2, <1>3, Bounds DEF URL, ChartTypes, LoadRecords

LEMMA StartTailTyped ==
  ASSUME FormTypes', NEW since \in 0 .. MaxEntries, StartTail(since) PROVE TailTypes'
BY Bounds DEF FormTypes, StartTail, TailTypes, Closed

LEMMA CloseTailTyped == ASSUME CloseTail PROVE TailTypes'
BY Bounds DEF CloseTail, TailTypes, Closed

LEMMA PushTyped ==
  ASSUME AddressTypes, FormTypes', NEW a \in URL, PushFrom(a) PROVE AddressTypes'
BY AddressTyped DEF PushFrom, AddressTypes, Address, FormTypes, URL

LEMMA ReplaceTyped ==
  ASSUME AddressTypes, FormTypes', Replace PROVE AddressTypes'
BY DEF Replace, AddressTypes, Address, FormTypes, URL

LEMMA FinallyTyped ==
  ASSUME LoadTypes, FormTypes', ChartTypes', NEW tailed, Finally(tailed),
         tailed \in [open : BOOLEAN, search : Searches, since : 0 .. MaxEntries]
  PROVE  LoadTypes' /\ TailTypes'
<1>1. CASE reload
  <2>1. /\ load' = Request(FALSE) /\ asked' = search' /\ reload' = FALSE
        /\ spinner' \in {"off", "armed"} /\ CloseTail
    BY <1>1 DEF Finally, NewLoad
  <2>2. QED
    BY <2>1, RequestTyped, CloseTailTyped DEF LoadTypes, FormTypes
<1>2. CASE ~reload
  <2>1. load' = Idle /\ spinner' = "off" /\ UNCHANGED <<asked, reload>> /\ tail' = tailed
    BY <1>2 DEF Finally
  <2>2. ~Loading'
    BY <2>1, IdleTyped DEF Loading
  <2>3. QED
    BY <2>1, <2>2, IdleTyped DEF LoadTypes, TailTypes
<1>3. QED
  BY <1>1, <1>2

\* A gesture that changes the search and runs it.
LEMMA RunTyped ==
  ASSUME TypeInv, NEW a \in URL, NEW q \in Searches, RunFrom(a, q), live' \in BOOLEAN,
         selected' \in {selected, None}, UNCHANGED buckets, UNCHANGED ready,
         searchTimer' \in {searchTimer, FALSE}, resizeTimer' = resizeTimer
  PROVE  FormTypes' /\ AddressTypes' /\ LoadTypes' /\ TailTypes' /\ ChartTypes'
<1>1. FormTypes' /\ ChartTypes'
  BY DEF TypeInv, FormTypes, ChartTypes, RunFrom
<1>2. PushFrom(a) /\ CloseTail /\ LoadExplorer(FALSE)
  BY DEF RunFrom
<1>3. QED
  BY <1>1, <1>2, PushTyped, CloseTailTyped, LoadTyped DEF TypeInv

-----------------------------------------------------------------------------
(* Lists: the numbers of a list fall, or are there once. *)

Falls(list) == \A i, j \in DOMAIN list : i < j => list[i] > list[j]

Once(list) == \A i, j \in DOMAIN list : list[i] = list[j] => i = j

\* Sorting puts each number once, newest first where that is the order.
LEMMA InOrderIs ==
  ASSUME NEW q, NEW S \in SUBSET Entries
  PROVE  /\ InOrder(q, S) \in Seq(Entries) /\ Range(InOrder(q, S)) = S
         /\ Once(InOrder(q, S))
         /\ q \notin Ascending => Falls(InOrder(q, S))
<1>1. IsFiniteSet(S) /\ S \subseteq Int
  <2>1. MaxEntries \in Int /\ 1 \in Int
    BY Bounds
  <2>2. IsFiniteSet(1 .. MaxEntries)
    BY ONLY <2>1, FS_Interval
  <2>3. S \subseteq 1 .. MaxEntries
    BY DEF Entries
  <2>4. IsFiniteSet(S)
    BY ONLY <2>2, <2>3, FS_Subset
  <2>5. QED
    BY <2>1, <2>3, <2>4
<1>2. CASE q \in Ascending
  <2>0. InOrder(q, S) = Rising(S)
    BY <1>2 DEF InOrder
  <2>1. /\ Rising(S) \in Seq(S) /\ Range(Rising(S)) = S
        /\ \A i, j \in 1 .. Len(Rising(S)) : i < j => Rising(S)[i] < Rising(S)[j]
    BY <1>1, RisingIs
  <2>2. ASSUME NEW r, r = Rising(S) PROVE r \in Seq(Entries) /\ Once(r)
    <3>1. r \in Seq(S) /\ \A i, j \in 1 .. Len(r) : i < j => r[i] < r[j]
      BY <2>1, <2>2
    <3>2. r \in Seq(Entries) /\ DOMAIN r = 1 .. Len(r) /\ Len(r) \in Nat
      BY <3>1
    <3>3. \A i \in DOMAIN r : r[i] \in Int
      <4>1. \A i \in DOMAIN r : r[i] \in S
        BY <3>1
      <4>2. QED
        BY <1>1, <4>1
    <3>4. \A i, j \in DOMAIN r : r[i] = r[j] => i = j
      <4> SUFFICES ASSUME NEW i \in DOMAIN r, NEW j \in DOMAIN r, r[i] = r[j], i # j PROVE FALSE
        OBVIOUS
      <4>1. i < j \/ j < i
        BY <3>2
      <4>2. r[i] < r[j] \/ r[j] < r[i]
        BY <3>1, <3>2, <4>1
      <4>3. QED
        BY <3>3, <4>2
    <3>5. QED
      BY <3>2, <3>4 DEF Once
  <2>3. QED
    BY <1>2, <2>0, <2>1, <2>2
<1>3. CASE q \notin Ascending
  <2>0. InOrder(q, S) = Falling(S)
    BY <1>3 DEF InOrder
  <2>1. /\ Falling(S) \in Seq(S) /\ Range(Falling(S)) = S
        /\ \A i, j \in 1 .. Len(Falling(S)) : i < j => Falling(S)[i] > Falling(S)[j]
    BY <1>1, FallingIs
  <2>2. ASSUME NEW r, r = Falling(S) PROVE r \in Seq(Entries) /\ Once(r) /\ Falls(r)
    <3>1. r \in Seq(S) /\ \A i, j \in 1 .. Len(r) : i < j => r[i] > r[j]
      BY <2>1, <2>2
    <3>2. r \in Seq(Entries) /\ DOMAIN r = 1 .. Len(r) /\ Len(r) \in Nat
      BY <3>1
    <3>3. \A i \in DOMAIN r : r[i] \in Int
      <4>1. \A i \in DOMAIN r : r[i] \in S
        BY <3>1
      <4>2. QED
        BY <1>1, <4>1
    <3>4. \A i, j \in DOMAIN r : r[i] = r[j] => i = j
      <4> SUFFICES ASSUME NEW i \in DOMAIN r, NEW j \in DOMAIN r, r[i] = r[j], i # j PROVE FALSE
        OBVIOUS
      <4>1. i < j \/ j < i
        BY <3>2
      <4>2. r[i] > r[j] \/ r[j] > r[i]
        BY <3>1, <3>2, <4>1
      <4>3. QED
        BY <3>3, <4>2
    <3>5. QED
      BY <3>1, <3>2, <3>4 DEF Once, Falls
  <2>3. QED
    BY <2>0, <2>1, <2>2
<1>4. QED
  BY <1>2, <1>3

\* A part of a list is in order and without repetition if the list is.
LEMMA PartIs ==
  ASSUME NEW list \in Seq(Entries), NEW part \in Seq(Entries), NEW d \in Nat,
         \A i \in DOMAIN part : i + d \in DOMAIN list /\ part[i] = list[i + d]
  PROVE  /\ Once(list) => Once(part)
         /\ Falls(list) => Falls(part)
         /\ Range(part) \subseteq Range(list)
<1>1. DOMAIN part = 1 .. Len(part) /\ Len(part) \in Nat
  OBVIOUS
<1>2. \A i, j \in DOMAIN part : (i < j => i + d < j + d) /\ (i + d = j + d => i = j)
  BY <1>1
<1>3. Once(list) => Once(part)
  <2> SUFFICES ASSUME Once(list), NEW i \in DOMAIN part, NEW j \in DOMAIN part, part[i] = part[j]
               PROVE  i = j
    BY DEF Once
  <2>1. list[i + d] = list[j + d] /\ i + d \in DOMAIN list /\ j + d \in DOMAIN list
    OBVIOUS
  <2>2. i + d = j + d
    BY <2>1 DEF Once
  <2>3. QED
    BY <1>2, <2>2
<1>4. Falls(list) => Falls(part)
  <2> SUFFICES ASSUME Falls(list), NEW i \in DOMAIN part, NEW j \in DOMAIN part, i < j
               PROVE  part[i] > part[j]
    BY DEF Falls
  <2>1. i + d \in DOMAIN list /\ j + d \in DOMAIN list /\ i + d < j + d
    BY <1>2
  <2>2. list[i + d] > list[j + d]
    BY <2>1 DEF Falls
  <2>3. QED
    BY <2>2
<1>5. Range(part) \subseteq Range(list)
  BY DEF Range
<1>6. QED
  BY <1>3, <1>4, <1>5

LEMMA TrimmedIs ==
  ASSUME NEW list \in Seq(Entries)
  PROVE  /\ Trimmed(list) \in Seq(Entries)
         /\ Once(list) => Once(Trimmed(list))
         /\ Falls(list) => Falls(Trimmed(list))
         /\ Range(Trimmed(list)) \subseteq Range(list)
<1>0. EntryLimit \in Nat /\ Len(list) \in Nat /\ DOMAIN list = 1 .. Len(list)
  BY ExplorerAssumption
<1>1. CASE Len(list) <= EntryLimit
  BY <1>1 DEF Trimmed
<1>2. CASE Len(list) > EntryLimit
  <2>1. CASE search \in Ascending
    <3> DEFINE d == Len(list) - EntryLimit
    <3>1. Trimmed(list) = SubSeq(list, d + 1, Len(list)) /\ d \in Nat
      BY <1>0, <1>2, <2>1 DEF Trimmed
    <3>2. PICK part : part = SubSeq(list, d + 1, Len(list))
      OBVIOUS
    <3>3. part \in Seq(Entries) /\ Len(part) = Len(list) - d
      BY <1>0, <3>1, <3>2
    <3>4. \A i \in DOMAIN part : i + d \in DOMAIN list /\ part[i] = list[i + d]
      BY <1>0, <3>1, <3>2, <3>3
    <3>5. QED
      BY <3>1, <3>2, <3>3, <3>4, PartIs
  <2>2. CASE search \notin Ascending
    <3>1. Trimmed(list) = SubSeq(list, 1, EntryLimit)
      BY <1>0, <1>2, <2>2 DEF Trimmed
    <3>2. PICK part : part = SubSeq(list, 1, EntryLimit)
      OBVIOUS
    <3>3. part \in Seq(Entries) /\ Len(part) = EntryLimit
      BY <1>0, <1>2, <3>2
    <3>4. \A i \in DOMAIN part : i + 0 \in DOMAIN list /\ part[i] = list[i + 0]
      BY <1>0, <1>2, <3>2, <3>3
    <3>5. QED
      BY <3>1, <3>2, <3>3, <3>4, PartIs
  <2>3. QED
    BY <2>1, <2>2
<1>3. QED
  BY <1>0, <1>1, <1>2

\* Sorted in, a live entry is in its place and the others are still there.
LEMMA InsertedIs ==
  ASSUME NEW e \in Entries, entries \in Seq(Entries), Once(entries)
  PROVE  /\ Inserted(e) \in Seq(Entries) /\ Once(Inserted(e))
         /\ search \notin Ascending /\ Falls(entries) => Falls(Inserted(e))
         /\ Range(Inserted(e)) \subseteq Range(entries) \cup {e}
<1>1. CASE e \in Range(entries)
  BY <1>1 DEF Inserted
<1>2. CASE e \notin Range(entries)
  <2>1. PICK S : S = Range(entries) \cup {e}
    OBVIOUS
  <2>2. Range(entries) \subseteq Entries
    BY DEF Range
  <2>3. S \in SUBSET Entries
    BY <2>1, <2>2
  <2>4. Inserted(e) = InOrder(search, S)
    BY <1>2, <2>1 DEF Inserted
  <2>5. QED
    BY <2>1, <2>3, <2>4, InOrderIs
<1>3. QED
  BY <1>1, <1>2

\* What of a page is not listed yet, in the page's order.
LEMMA FreshIs ==
  ASSUME NEW page \in Seq(Entries)
  PROVE  /\ Fresh(page) \in Seq(Entries)
         /\ Once(page) => Once(Fresh(page))
         /\ Falls(page) => Falls(Fresh(page))
         /\ Range(Fresh(page)) \subseteq Range(page)
         /\ \A k \in DOMAIN Fresh(page) : Fresh(page)[k] \notin Range(entries)
<1>1. PICK I : I = {i \in DOMAIN page : page[i] \notin Range(entries)}
  OBVIOUS
<1>2. PICK kept : kept = Kept(page, I)
  OBVIOUS
<1>3. Fresh(page) = kept
  BY <1>1, <1>2 DEF Fresh
<1>4. I \in SUBSET (1 .. Len(page)) /\ \A i \in I : page[i] \notin Range(entries)
  BY <1>1
<1>5. /\ kept \in Seq(Entries)
      /\ \A k \in 1 .. Len(kept) : Place(I, k) \in I /\ kept[k] = page[Place(I, k)]
      /\ \A k, l \in 1 .. Len(kept) : k < l => Place(I, k) < Place(I, l)
      /\ Range(kept) = {page[i] : i \in I}
  BY <1>2, <1>4, KeptIs
<1>6. DOMAIN kept = 1 .. Len(kept) /\ DOMAIN page = 1 .. Len(page)
  BY <1>5
<1>7. Once(page) => Once(kept)
  BY <1>2, <1>4, <1>6, KeptOnce DEF Once
<1>8. Falls(page) => Falls(kept)
  <2> SUFFICES ASSUME Falls(page), NEW i \in DOMAIN kept, NEW j \in DOMAIN kept, i < j
               PROVE  kept[i] > kept[j]
    BY DEF Falls
  <2>1. /\ Place(I, i) \in DOMAIN page /\ Place(I, j) \in DOMAIN page
        /\ Place(I, i) < Place(I, j)
    BY <1>4, <1>5, <1>6
  <2>2. page[Place(I, i)] > page[Place(I, j)]
    BY <2>1 DEF Falls
  <2>3. QED
    BY <1>5, <1>6, <2>2
<1>9. Range(kept) \subseteq Range(page)
  BY <1>4, <1>5, <1>6 DEF Range
<1>10. \A k \in DOMAIN kept : kept[k] \notin Range(entries)
  BY <1>4, <1>5, <1>6
<1>11. QED
  BY <1>3, <1>5, <1>7, <1>8, <1>9, <1>10

\* A page put behind the list.
LEMMA ExtendedIs ==
  ASSUME NEW page \in Seq(Entries), entries \in Seq(Entries), Once(entries), Once(page)
  PROVE  /\ Extended(page) \in Seq(Entries) /\ Once(Extended(page))
         /\ Range(Extended(page)) \subseteq Range(entries) \cup Range(page)
         /\ /\ Falls(entries) /\ Falls(page)
            /\ \A e \in Range(entries), f \in Range(page) : e > f
            => Falls(Extended(page))
<1>1. PICK fresh : fresh = Fresh(page)
  OBVIOUS
<1>2. /\ fresh \in Seq(Entries) /\ Once(fresh)
      /\ Falls(page) => Falls(fresh)
      /\ Range(fresh) \subseteq Range(page)
      /\ \A k \in DOMAIN fresh : fresh[k] \notin Range(entries)
  BY <1>1, FreshIs
<1>3. PICK list : list = Extended(page)
  OBVIOUS
<1>4. list = entries \o fresh
  BY <1>1, <1>3 DEF Extended
<1>5. PICK m \in Nat : m = Len(entries)
  OBVIOUS
<1>6. PICK n \in Nat : n = Len(fresh)
  BY <1>2
<1>7. /\ list \in Seq(Entries) /\ Len(list) = m + n /\ DOMAIN list = 1 .. m + n
      /\ DOMAIN entries = 1 .. m /\ DOMAIN fresh = 1 .. n
  BY <1>2, <1>4, <1>5, <1>6
<1>8. \A i \in 1 .. m : list[i] = entries[i]
  BY <1>2, <1>4, <1>5, <1>7
<1>9. \A i \in m + 1 .. m + n : i - m \in 1 .. n /\ list[i] = fresh[i - m]
  BY <1>2, <1>4, <1>5, <1>6, <1>7
<1>10. \A i \in 1 .. m + n : i \in 1 .. m \/ i \in m + 1 .. m + n
  OBVIOUS
<1>11. \A i \in 1 .. m : list[i] \in Range(entries)
  BY <1>7, <1>8 DEF Range
<1>12. \A i \in m + 1 .. m + n : list[i] \in Range(fresh) /\ list[i] \notin Range(entries)
  BY <1>2, <1>7, <1>9 DEF Range
<1>13. Once(list)
  <2> SUFFICES ASSUME NEW i \in 1 .. m + n, NEW j \in 1 .. m + n, list[i] = list[j] PROVE i = j
    BY <1>7 DEF Once
  <2>1. CASE i \in 1 .. m
    <3>1. j \in 1 .. m
      BY <1>10, <1>11, <1>12, <2>1
    <3>2. QED
      BY <1>7, <1>8, <2>1, <3>1 DEF Once
  <2>2. CASE i \in m + 1 .. m + n
    <3>1. j \in m + 1 .. m + n
      BY <1>10, <1>11, <1>12, <2>2
    <3>2. i - m \in 1 .. n /\ j - m \in 1 .. n /\ fresh[i - m] = fresh[j - m]
      BY <1>9, <2>2, <3>1
    <3>3. i - m = j - m
      BY <1>2, <1>7, <3>2 DEF Once
    <3>4. QED
      BY <3>3
  <2>3. QED
    BY <1>10, <2>1, <2>2
<1>14. Range(list) \subseteq Range(entries) \cup Range(page)
  <2> SUFFICES ASSUME NEW x \in Range(list) PROVE x \in Range(entries) \cup Range(page)
    OBVIOUS
  <2>1. PICK i \in 1 .. m + n : list[i] = x
    BY <1>7 DEF Range
  <2>2. QED
    BY <1>2, <1>10, <1>11, <1>12, <2>1
<1>15. ASSUME Falls(entries), Falls(page), \A e \in Range(entries), f \in Range(page) : e > f
       PROVE  Falls(list)
  <2> SUFFICES ASSUME NEW i \in 1 .. m + n, NEW j \in 1 .. m + n, i < j PROVE list[i] > list[j]
    BY <1>7 DEF Falls
  <2>1. CASE j \in 1 .. m
    <3>1. i \in 1 .. m
      BY <2>1
    <3>2. QED
      BY <1>7, <1>8, <1>15, <2>1, <3>1 DEF Falls
  <2>2. CASE i \in m + 1 .. m + n
    <3>1. j \in m + 1 .. m + n
      BY <2>2
    <3>2. i - m \in 1 .. n /\ j - m \in 1 .. n /\ i - m < j - m
      BY <1>9, <2>2, <3>1
    <3>3. fresh[i - m] > fresh[j - m]
      BY <1>2, <1>7, <1>15, <3>2 DEF Falls
    <3>4. QED
      BY <1>9, <2>2, <3>1, <3>3
  <2>3. CASE i \in 1 .. m /\ j \in m + 1 .. m + n
    BY <1>2, <1>11, <1>12, <1>15, <2>3
  <2>4. QED
    BY <1>10, <2>1, <2>2, <2>3
<1>16. QED
  BY <1>3, <1>7, <1>13, <1>14, <1>15

\* A page of the Hub's: entries of the search in its order, behind the token;
\* the next token is the last of them.
LEMMA PageIs ==
  ASSUME NEW q \in Searches, NEW t \in Token \cup {None}, stored \in 0 .. MaxEntries
  PROVE  /\ Page(q, t) \in Seq(Entries) /\ Once(Page(q, t))
         /\ NextToken(q, t) \in Token \cup {None}
         /\ NextToken(q, t) # None => NextToken(q, t).after <= stored
         /\ q \notin Ascending =>
              /\ Falls(Page(q, t))
              /\ t # None => \A e \in Range(Page(q, t)) : e < t.after
              /\ NextToken(q, t) # None =>
                   /\ \A e \in Range(Page(q, t)) : NextToken(q, t).after <= e
                   /\ t # None => NextToken(q, t).after <= t.after
<1>0. PageSize \in Nat \ {0} /\ MaxEntries \in Nat /\ Matching[q] \subseteq 1 .. MaxEntries
  BY ExplorerAssumption
<1>1. PICK S : S = {e \in Matching[q] : e <= stored /\ Beyond(q, t, e)}
  OBVIOUS
<1>2. PICK hits : hits = Hits(q, t)
  OBVIOUS
<1>3. hits = InOrder(q, S)
  BY <1>1, <1>2 DEF Hits
<1>4. S \in SUBSET Entries /\ \A e \in S : e <= stored /\ Beyond(q, t, e)
  BY <1>0, <1>1 DEF Entries
<1>5. /\ hits \in Seq(Entries) /\ Range(hits) = S /\ Once(hits)
      /\ q \notin Ascending => Falls(hits)
  BY <1>3, <1>4, InOrderIs
<1>6. PICK n \in Nat : n = Len(hits)
  BY <1>5
<1>7. DOMAIN hits = 1 .. n /\ \A i \in 1 .. n : hits[i] \in S /\ hits[i] \in Entries
  BY <1>5, <1>6 DEF Range
<1>8. PICK m \in Nat : m = IF n < PageSize THEN n ELSE PageSize
  BY <1>0
<1>9. m <= n
  BY <1>0, <1>8
<1>10. PICK page : page = SubSeq(hits, 1, m)
  OBVIOUS
<1>11. Page(q, t) = page
  BY <1>2, <1>6, <1>8, <1>10 DEF Page
<1>12. page \in Seq(Entries) /\ Len(page) = m /\ DOMAIN page = 1 .. m
  BY <1>5, <1>6, <1>9, <1>10
<1>13. \A i \in DOMAIN page : i + 0 \in DOMAIN hits /\ page[i] = hits[i + 0]
  BY <1>5, <1>6, <1>7, <1>9, <1>10, <1>12
<1>14. Once(page) /\ (q \notin Ascending => Falls(page)) /\ Range(page) \subseteq S
  BY <1>5, <1>12, <1>13, PartIs
<1>15. PICK next : next = NextToken(q, t)
  OBVIOUS
<1>16. next # None => n > PageSize /\ next = [from |-> q, after |-> hits[PageSize]]
  BY <1>2, <1>6, <1>15 DEF NextToken
<1>17. next # None => /\ m = PageSize /\ PageSize \in 1 .. n /\ next \in Token
                      /\ next.after = hits[PageSize] /\ next.after \in S
  BY <1>0, <1>7, <1>8, <1>16 DEF Token
<1>18. next \in Token \cup {None}
  BY <1>17
<1>19. next # None => next.after <= stored
  BY <1>4, <1>17
<1>20. ASSUME q \notin Ascending, t # None, NEW e \in S PROVE e < t.after
  BY <1>4, <1>20 DEF Beyond
<1>21. ASSUME q \notin Ascending, next # None, NEW e \in Range(page) PROVE next.after <= e
  <2>1. PICK i \in 1 .. m : page[i] = e
    BY <1>12 DEF Range
  <2>2. hits[i] = e /\ i \in 1 .. n /\ PageSize \in 1 .. n /\ i <= PageSize
    BY <1>12, <1>13, <1>17, <1>21, <2>1, <1>9
  <2>3. CASE i = PageSize
    BY <1>7, <1>17, <1>21, <2>2, <2>3 DEF Entries
  <2>4. CASE i # PageSize
    <3>1. i < PageSize
      BY <1>0, <2>2, <2>4
    <3>2. hits[i] > hits[PageSize]
      BY <1>5, <1>7, <1>21, <2>2, <3>1 DEF Falls
    <3>3. QED
      BY <1>7, <1>17, <1>21, <2>2, <3>2 DEF Entries
  <2>5. QED
    BY <2>3, <2>4
<1>22. ASSUME q \notin Ascending, next # None, t # None PROVE next.after <= t.after
  <2>1. next.after < t.after /\ next.after \in Entries
    BY <1>4, <1>17, <1>20, <1>22
  <2>2. t.after \in Entries
    BY <1>22 DEF Token
  <2>3. QED
    BY <2>1, <2>2, <1>0 DEF Entries
<1>23. q \notin Ascending /\ t # None => \A e \in Range(page) : e < t.after
  BY <1>14, <1>20
<1>24. QED
  BY <1>11, <1>12, <1>14, <1>15, <1>18, <1>19, <1>21, <1>22, <1>23

\* The page of a list that loads or gets a page: the types.
LEMMA EntriesTyped ==
  ASSUME TypeInv, Once(entries), Once(load.page)
  PROVE  /\ load.page \in Seq(Entries) /\ entries \in Seq(Entries) /\ Range(entries) \subseteq Entries
         /\ Extended(load.page) \in Seq(Entries)
         /\ \A e \in Entries : Trimmed(Inserted(e)) \in Seq(Entries)
<1>1. load.page \in Seq(Entries) /\ entries \in Seq(Entries)
  BY DEF TypeInv, LoadTypes, LoadRecords, ShownTypes
<1>2. Range(entries) \subseteq Entries
  BY <1>1 DEF Range
<1>3. QED
  BY <1>1, <1>2, ExtendedIs, InsertedIs, TrimmedIs

LEMMA SucceedTyped ==
  ASSUME TypeInv, Loading, Succeed, FormTypes', ShownTypes', UNCHANGED <<searchTimer, resizeTimer, stored, strayed>>
  PROVE  LoadTypes' /\ TailTypes' /\ ChartTypes' /\ RestTypes'
<1> DEFINE last == ~load.append /\ ~reload
<1>1. /\ recent' = Recorded(last) /\ ready' = (ready \/ last) /\ UNCHANGED buckets
      /\ drawer' = DrawerAfter /\ Finally(TailAfter(last))
  BY DEF Succeed
<1>2. ChartTypes'
  BY <1>1 DEF TypeInv, ChartTypes, LoadTypes, LoadRecords
<1>3. TailAfter(last) \in [open : BOOLEAN, search : Searches, since : 0 .. MaxEntries]
  BY DEF TailAfter, NewTail, TypeInv, TailTypes, LoadTypes, LoadRecords, FormTypes
<1>4. LoadTypes' /\ TailTypes'
  BY <1>1, <1>2, <1>3, FinallyTyped DEF TypeInv
<1>5. RestTypes'
  BY <1>1 DEF TypeInv, RestTypes, Recorded, DrawerAfter, FormTypes
<1>6. QED
  BY <1>2, <1>4, <1>5

LEMMA FailTyped ==
  ASSUME TypeInv, Loading, Fail, FormTypes', UNCHANGED <<searchTimer, resizeTimer, stored, strayed>>
  PROVE  LoadTypes' /\ ShownTypes' /\ TailTypes' /\ ChartTypes' /\ RestTypes'
<1>1. /\ outcome' = "failed" /\ UNCHANGED <<response, origin, answered, recent, chart, drawer>>
      /\ entries' \in {<<>>, entries} /\ Finally(tail)
  BY DEF Fail
<1>2. ShownTypes' /\ ChartTypes' /\ RestTypes'
  <2>1. entries \in Seq(Entries) /\ <<>> \in Seq(Entries)
    BY DEF TypeInv, ShownTypes
  <2>2. entries' = <<>> \/ entries' = entries
    BY <1>1
  <2>3. QED
    BY <1>1, <2>1, <2>2 DEF TypeInv, ShownTypes, ChartTypes, RestTypes, chart
<1>3. LoadTypes' /\ TailTypes'
  BY <1>1, <1>2, FinallyTyped DEF TypeInv, TailTypes
<1>4. QED
  BY <1>2, <1>3

\* A load that only moves on to another phase.
LEMMA PhaseTyped ==
  ASSUME TypeInv, Loading, NEW phase \in {"settling", "failing"},
         load' = [load EXCEPT !.phase = phase], UNCHANGED <<reload, spinner, asked>>
  PROVE  LoadTypes'
<1>1. load \in LoadRecords /\ load.buckets \in Resolutions
  BY DEF TypeInv, LoadTypes
<1>2. load' \in LoadRecords /\ load'.buckets = load.buckets
  BY <1>1 DEF LoadRecords
<1>3. QED
  BY <1>1, <1>2 DEF TypeInv, LoadTypes

LEMMA TypeStep ==
  ASSUME TypeInv, Once(entries), Once(load.page), [Next]_vars PROVE TypeInv'
<1> USE DEF form, shown, timers, chart, browser, fetch, KeepDetail
<1>0. /\ FormTypes /\ AddressTypes /\ LoadTypes /\ ShownTypes /\ TailTypes /\ ChartTypes /\ RestTypes
      /\ url \in URL /\ other \in URL /\ Address \in URL /\ [Address EXCEPT !.selected = None] \in URL
  BY AddressTyped DEF TypeInv, AddressTypes
<1>1. ASSUME NEW q \in Searches, RunQuery(q) PROVE TypeInv'
  <2>1. FormTypes' /\ AddressTypes' /\ LoadTypes' /\ TailTypes' /\ ChartTypes'
    BY <1>0, <1>1, RunTyped DEF RunQuery, FormTypes
  <2>2. ShownTypes' /\ RestTypes'
    BY <1>0, <1>1 DEF RunQuery, ShownTypes, RestTypes
  <2>3. QED
    BY <2>1, <2>2 DEF TypeInv
<1>2. ASSUME NEW q \in Searches, ChangeFilter(q) PROVE TypeInv'
  <2>1. FormTypes' /\ AddressTypes' /\ LoadTypes' /\ TailTypes' /\ ChartTypes'
    BY <1>0, <1>2, RunTyped DEF ChangeFilter, FormTypes
  <2>2. ShownTypes' /\ RestTypes'
    BY <1>0, <1>2 DEF ChangeFilter, ShownTypes, RestTypes
  <2>3. QED
    BY <2>1, <2>2 DEF TypeInv
<1>3. ASSUME NEW q \in Searches, FieldFilter(q) PROVE TypeInv'
  <2>1. FormTypes' /\ AddressTypes' /\ LoadTypes' /\ TailTypes' /\ ChartTypes'
    BY <1>0, <1>3, RunTyped DEF FieldFilter, FormTypes, CloseDetail
  <2>2. ShownTypes' /\ RestTypes'
    BY <1>0, <1>3 DEF FieldFilter, ShownTypes, RestTypes, CloseDetail
  <2>3. QED
    BY <2>1, <2>2 DEF TypeInv
<1>4. ASSUME NEW q \in Searches, SelectRange(q) PROVE TypeInv'
  <2>1. FormTypes' /\ AddressTypes' /\ LoadTypes' /\ TailTypes' /\ ChartTypes'
    BY <1>0, <1>4, RunTyped DEF SelectRange, FormTypes
  <2>2. ShownTypes' /\ RestTypes'
    BY <1>0, <1>4 DEF SelectRange, ShownTypes, RestTypes
  <2>3. QED
    BY <2>1, <2>2 DEF TypeInv
<1>5. ASSUME NEW q \in Searches, ShowContext(q) PROVE TypeInv'
  <2>1. FormTypes' /\ AddressTypes' /\ LoadTypes' /\ TailTypes' /\ ChartTypes'
    BY <1>0, <1>5, RunTyped DEF ShowContext, FormTypes, CloseDetail
  <2>2. ShownTypes' /\ RestTypes'
    BY <1>0, <1>5 DEF ShowContext, ShownTypes, RestTypes, CloseDetail
  <2>3. QED
    BY <2>1, <2>2 DEF TypeInv
<1>6. ASSUME NEW q \in Searches, NEW run \in BOOLEAN, UseSnapshot(q, run) PROVE TypeInv'
  <2>1. FormTypes' /\ ChartTypes'
    BY <1>0, <1>6 DEF UseSnapshot, FormTypes, ChartTypes, CloseDetail
  <2>2. AddressTypes' /\ TailTypes'
    BY <1>0, <1>6, <2>1, PushTyped, CloseTailTyped DEF UseSnapshot
  <2>3. ShownTypes'
    BY <1>0, <1>6 DEF UseSnapshot, ShownTypes
  <2>4. LoadTypes' /\ RestTypes'
    <3>1. CASE run
      BY <1>0, <1>6, <2>1, <3>1, LoadTyped DEF UseSnapshot, RestTypes, CloseDetail
    <3>2. CASE ~run
      BY <1>0, <1>6, <3>2 DEF UseSnapshot, LoadTypes, Loading, RestTypes, CloseDetail, Stray,
                              Unrun, Custom
    <3>3. QED
      BY <3>1, <3>2
  <2>5. QED
    BY <2>1, <2>2, <2>3, <2>4 DEF TypeInv
<1>7. ASSUME NEW q \in Searches, ScheduleSearch(q) PROVE TypeInv'
  <2>1. FormTypes' /\ ChartTypes'
    BY <1>0, <1>7 DEF ScheduleSearch, FormTypes, ChartTypes
  <2>2. AddressTypes'
    BY <1>0, <1>7, <2>1, ReplaceTyped DEF ScheduleSearch
  <2>3. LoadTypes' /\ ShownTypes' /\ TailTypes' /\ RestTypes'
    BY <1>0, <1>7 DEF ScheduleSearch, LoadTypes, Loading, ShownTypes, TailTypes, RestTypes, Stray,
                      Typed, Custom
  <2>4. QED
    BY <2>1, <2>2, <2>3 DEF TypeInv
<1>8. ASSUME NEW q \in Searches, ChooseCustom(q) PROVE TypeInv'
  BY <1>0, <1>8 DEF ChooseCustom, TypeInv, FormTypes, AddressTypes, LoadTypes, Loading,
                    ShownTypes, TailTypes,
                    ChartTypes, RestTypes, Stray, Custom
<1>9. CASE RefreshResults
  <2>1. FormTypes' /\ ChartTypes' /\ ShownTypes' /\ RestTypes'
    BY <1>0, <1>9 DEF RefreshResults, FormTypes, ChartTypes, ShownTypes, RestTypes
  <2>2. AddressTypes' /\ TailTypes' /\ LoadTypes'
    BY <1>0, <1>9, <2>1, ReplaceTyped, CloseTailTyped, LoadTyped DEF RefreshResults
  <2>3. QED
    BY <2>1, <2>2 DEF TypeInv
<1>10. CASE NextPage
  <2>1. FormTypes' /\ ChartTypes' /\ ShownTypes' /\ TailTypes' /\ RestTypes'
    BY <1>0, <1>10 DEF NextPage, FormTypes, ChartTypes, ShownTypes, Response, TailTypes, RestTypes
  <2>2. AddressTypes' /\ LoadTypes'
    BY <1>0, <1>10, <2>1, ReplaceTyped, LoadTyped DEF NextPage
  <2>3. QED
    BY <2>1, <2>2 DEF TypeInv
<1>11. CASE ToggleLive
  <2>1. FormTypes' /\ ChartTypes' /\ ShownTypes' /\ RestTypes' /\ LoadTypes'
    BY <1>0, <1>11 DEF ToggleLive, FormTypes, ChartTypes, ShownTypes, RestTypes, LoadTypes, Loading
  <2>2. AddressTypes'
    BY <1>0, <1>11, <2>1, ReplaceTyped DEF ToggleLive
  <2>3. response # None => response.since \in 0 .. MaxEntries
    BY <1>0 DEF ShownTypes, Response
  <2>4. TailTypes'
    BY <1>0, <1>11, <2>1, <2>3, StartTailTyped, CloseTailTyped DEF ToggleLive, TailTypes
  <2>5. QED
    BY <2>1, <2>2, <2>4 DEF TypeInv
<1>12. CASE CancelQuery
  <2>1. FormTypes' /\ ChartTypes' /\ AddressTypes' /\ TailTypes' /\ RestTypes'
    BY <1>0, <1>12 DEF CancelQuery, FormTypes, ChartTypes, AddressTypes, TailTypes, RestTypes,
                       Stray, Unrun, Custom
  <2>2. ShownTypes'
    BY <1>0, <1>12 DEF CancelQuery, ShownTypes
  <2>3. LoadTypes'
    <3>1. load' = Idle \/ load' = load
      BY <1>12 DEF CancelQuery
    <3>2. reload' = FALSE /\ spinner' = "off" /\ asked' = load.search
      BY <1>12 DEF CancelQuery
    <3>3. load.search \in Searches
      BY <1>0 DEF LoadTypes, LoadRecords
    <3>4. QED
      BY <1>0, <3>1, <3>2, <3>3, IdleTyped DEF LoadTypes, Loading
  <2>4. QED
    BY <2>1, <2>2, <2>3 DEF TypeInv
<1>13. CASE GoBack
  <2>1. FormTypes' /\ ChartTypes' /\ ShownTypes' /\ RestTypes'
    BY <1>0, <1>13 DEF GoBack, FormTypes, ChartTypes, ShownTypes, RestTypes, URL
  <2>2. LoadTypes'
    BY <1>0, <1>13, <2>1, LoadTyped DEF GoBack
  <2>3. response # None => response.since \in 0 .. MaxEntries
    BY <1>0 DEF ShownTypes, Response
  <2>4. TailTypes'
    BY <1>0, <1>13, <2>1, <2>3, StartTailTyped, CloseTailTyped DEF GoBack
  <2>5. AddressTypes'
    BY <1>0, <1>13, <2>1, AddressTyped DEF GoBack, AddressTypes, FormTypes, Address, URL
  <2>6. QED
    BY <2>1, <2>2, <2>4, <2>5 DEF TypeInv
<1>14. CASE ReloadPage
  <2>1. FormTypes' /\ ChartTypes' /\ ShownTypes' /\ RestTypes' /\ AddressTypes'
    <3>1. FormTypes'
      BY <1>0, <1>14 DEF ReloadPage, FormTypes, URL
    <3>2. ShownTypes'
      BY <1>0, <1>14 DEF ReloadPage, ShownTypes
    <3>3. ChartTypes' /\ RestTypes' /\ AddressTypes'
      BY <1>0, <1>14 DEF ReloadPage, ChartTypes, RestTypes, AddressTypes
    <3>4. QED
      BY <3>1, <3>2, <3>3
  <2>2. load' = FirstLoad(url) /\ asked' = url.search /\ reload' = FALSE /\ spinner' = "armed" /\ tail' = Closed
    BY <1>14 DEF ReloadPage
  <2>3. FirstLoad(url) \in LoadRecords /\ FirstLoad(url).buckets \in Resolutions
    BY <1>0, FirstLoadTyped
  <2>4. LoadTypes' /\ TailTypes'
    BY <1>0, <2>2, <2>3, Bounds DEF LoadTypes, TailTypes, Closed, URL
  <2>5. QED
    BY <2>1, <2>4 DEF TypeInv
<1>15. ASSUME NEW commit \in BOOLEAN, ChangeDisplay(commit) PROVE TypeInv'
  <2>1. FormTypes' /\ ChartTypes' /\ ShownTypes' /\ RestTypes' /\ LoadTypes' /\ TailTypes'
    BY <1>0, <1>15 DEF ChangeDisplay, FormTypes, ChartTypes, ShownTypes, RestTypes, LoadTypes,
                       Loading, TailTypes
  <2>2. AddressTypes'
    BY <1>0, <1>15, <2>1, ReplaceTyped, PushTyped DEF ChangeDisplay
  <2>3. QED
    BY <2>1, <2>2 DEF TypeInv
<1>16. ASSUME NEW e \in Entries, OpenDetail(e) PROVE TypeInv'
  <2>1. FormTypes' /\ ChartTypes' /\ ShownTypes' /\ RestTypes' /\ LoadTypes' /\ TailTypes'
    BY <1>0, <1>16 DEF OpenDetail, FormTypes, ChartTypes, ShownTypes, RestTypes, LoadTypes,
                       Loading, TailTypes
  <2>2. AddressTypes'
    BY <1>0, <1>16, <2>1, ReplaceTyped DEF OpenDetail
  <2>3. QED
    BY <2>1, <2>2 DEF TypeInv
<1>17. CASE DismissDetail
  <2>1. FormTypes' /\ ChartTypes' /\ ShownTypes' /\ RestTypes' /\ LoadTypes' /\ TailTypes'
    BY <1>0, <1>17 DEF DismissDetail, CloseDetail, FormTypes, ChartTypes, ShownTypes, RestTypes,
                       LoadTypes, Loading, TailTypes
  <2>2. AddressTypes'
    BY <1>0, <1>17, <2>1, ReplaceTyped DEF DismissDetail
  <2>3. QED
    BY <2>1, <2>2 DEF TypeInv
<1>18. ASSUME NEW b \in Resolutions, Resize(b) PROVE TypeInv'
  BY <1>0, <1>18 DEF Resize, TypeInv, FormTypes, AddressTypes, LoadTypes, Loading, ShownTypes,
                     TailTypes,
                    ChartTypes, RestTypes
<1>19. CASE SearchTimer
  <2>1. FormTypes' /\ ChartTypes' /\ ShownTypes' /\ RestTypes'
    BY <1>0, <1>19 DEF SearchTimer, FormTypes, ChartTypes, ShownTypes, RestTypes
  <2>2. AddressTypes' /\ TailTypes' /\ LoadTypes'
    BY <1>0, <1>19, <2>1, ReplaceTyped, CloseTailTyped, LoadTyped DEF SearchTimer
  <2>3. QED
    BY <2>1, <2>2 DEF TypeInv
<1>20. CASE ResizeTimer
  <2>1. FormTypes' /\ ChartTypes' /\ ShownTypes' /\ RestTypes'
    BY <1>0, <1>20 DEF ResizeTimer, FormTypes, ChartTypes, ShownTypes, RestTypes
  <2>2. AddressTypes' /\ TailTypes' /\ LoadTypes'
    <3>1. CASE response = None
      BY <1>0, <1>20, <3>1 DEF ResizeTimer, AddressTypes, TailTypes, LoadTypes, Loading
    <3>2. CASE response # None
      BY <1>0, <1>20, <2>1, <3>2, ReplaceTyped, CloseTailTyped, LoadTyped DEF ResizeTimer
    <3>3. QED
      BY <3>1, <3>2
  <2>3. QED
    BY <2>1, <2>2 DEF TypeInv
<1>21. CASE InitialLoadingTimer
  BY <1>0, <1>21 DEF InitialLoadingTimer, TypeInv, FormTypes, AddressTypes, LoadTypes, Loading,
                     ShownTypes, TailTypes,
                    ChartTypes, RestTypes
<1>22. CASE ReceiveAnswer
  <2>0. Loading
    BY <1>22 DEF ReceiveAnswer, Loading
  <2>1. /\ load \in LoadRecords /\ load.buckets \in Resolutions
    BY <1>0, <2>0 DEF LoadTypes
  <2>2. entries' \in Seq(Entries)
    BY <1>22, EntriesTyped DEF ReceiveAnswer
  <2>3. response' \in Response /\ origin' \subseteq Searches /\ answered' \subseteq Searches
    BY <1>0, <1>22, <2>1 DEF ReceiveAnswer, Response, LoadRecords, ShownTypes
  <2>4. outcome' \in {outcome, "ok"}
    BY <1>22 DEF ReceiveAnswer, Succeed
  <2>5. ShownTypes'
    BY <1>0, <2>2, <2>3, <2>4 DEF ShownTypes
  <2>6. FormTypes'
    BY <1>0, <1>22, <2>1 DEF ReceiveAnswer, FormTypes, LoadRecords
  <2>7. AddressTypes'
    <3>1. Address' \in URL
      BY <2>6 DEF FormTypes, Address, URL
    <3>2. [Address' EXCEPT !.selected = selected] \in URL
      BY <1>0, <3>1 DEF URL, FormTypes
    <3>3. QED
      BY <1>0, <1>22, <3>2 DEF ReceiveAnswer, AddressTypes
  <2>8. LoadTypes' /\ TailTypes' /\ ChartTypes' /\ RestTypes'
    <3>1. CASE spinner = "shown"
      <4>1. /\ load' = [load EXCEPT !.phase = "settling"]
            /\ UNCHANGED <<reload, spinner, asked, tail, chart, recent, timers, stored, strayed>>
            /\ drawer' \in {None, drawer}
        BY <1>22, <3>1 DEF ReceiveAnswer
      <4>2. QED
        BY <1>0, <2>0, <4>1, PhaseTyped DEF TailTypes, ChartTypes, RestTypes
    <3>2. CASE spinner # "shown"
      BY <1>22, <2>0, <2>5, <2>6, <3>2, SucceedTyped DEF ReceiveAnswer
    <3>3. QED
      BY <3>1, <3>2
  <2>9. QED
    BY <2>5, <2>6, <2>7, <2>8 DEF TypeInv
<1>23. CASE Settle
  <2>0. Loading
    BY <1>23 DEF Settle, Loading
  <2>1. FormTypes' /\ UNCHANGED <<searchTimer, resizeTimer, stored, strayed>>
    BY <1>0, <1>23 DEF Settle, FormTypes
  <2>2. AddressTypes'
    BY <1>0, <1>23, <2>1, AddressTyped DEF Settle, AddressTypes, FormTypes, Address, URL
  <2>3. ShownTypes' /\ LoadTypes' /\ TailTypes' /\ ChartTypes' /\ RestTypes'
    <3>1. CASE load.phase = "failing"
      BY <1>23, <2>0, <2>1, <3>1, FailTyped DEF Settle
    <3>2. CASE load.phase # "failing"
      <4>1. Succeed /\ UNCHANGED <<response, entries, origin, answered>>
        BY <1>23, <3>2 DEF Settle
      <4>2. outcome' \in {outcome, "ok"}
        BY <4>1 DEF Succeed
      <4>3. ShownTypes'
        BY <1>0, <4>1, <4>2 DEF ShownTypes
      <4>4. QED
        BY <2>0, <2>1, <4>1, <4>3, SucceedTyped
    <3>3. QED
      BY <3>1, <3>2
  <2>4. QED
    BY <2>1, <2>2, <2>3 DEF TypeInv
<1>24. CASE HubAnswers
  <2>1. PICK page : page = Page(load.search, load.pageToken)
    OBVIOUS
  <2>2. PICK next : next = NextToken(load.search, load.pageToken)
    OBVIOUS
  <2>3. load' = [load EXCEPT !.phase = "answered", !.since = stored, !.page = page, !.next = next]
    BY <1>24, <2>1, <2>2 DEF HubAnswers
  <2>4. load \in LoadRecords /\ load.buckets \in Resolutions /\ stored \in 0 .. MaxEntries
    BY <1>0, <1>24 DEF LoadTypes, Loading, HubAnswers, RestTypes
  <2>5. page \in Seq(Entries) /\ next \in Token \cup {None}
    BY <2>1, <2>2, <2>4, PageIs DEF LoadRecords
  <2>6. load' \in LoadRecords /\ load'.buckets = load.buckets
    BY <2>3, <2>4, <2>5 DEF LoadRecords
  <2>7. LoadTypes'
    BY <1>0, <1>24, <2>4, <2>6 DEF LoadTypes, HubAnswers
  <2>8. QED
    BY <1>0, <1>24, <2>7 DEF HubAnswers, TypeInv, FormTypes, AddressTypes, ShownTypes, TailTypes,
                             ChartTypes, RestTypes
<1>25. CASE ReceiveFailure
  <2>0. Loading
    BY <1>25 DEF ReceiveFailure, Loading
  <2>1. FormTypes' /\ AddressTypes' /\ UNCHANGED <<searchTimer, resizeTimer, stored, strayed>>
    BY <1>0, <1>25 DEF ReceiveFailure, FormTypes, AddressTypes
  <2>2. ShownTypes' /\ LoadTypes' /\ TailTypes' /\ ChartTypes' /\ RestTypes'
    <3>1. CASE spinner = "shown"
      <4>1. /\ load' = [load EXCEPT !.phase = "failing"]
            /\ UNCHANGED <<reload, spinner, asked, shown, tail, chart, drawer, recent>>
        BY <1>25, <3>1 DEF ReceiveFailure
      <4>2. QED
        BY <1>0, <2>0, <2>1, <4>1, PhaseTyped DEF ShownTypes, TailTypes, ChartTypes, RestTypes
    <3>2. CASE spinner # "shown"
      BY <1>25, <2>0, <2>1, <3>2, FailTyped DEF ReceiveFailure
    <3>3. QED
      BY <3>1, <3>2
  <2>3. QED
    BY <2>1, <2>2 DEF TypeInv
<1>26. CASE LogWritten
  <2>1. stored' \in 0 .. MaxEntries
    BY <1>0, <1>26, Bounds DEF LogWritten, RestTypes
  <2>2. QED
    BY <1>0, <1>26, <2>1 DEF LogWritten, TypeInv, FormTypes, AddressTypes, LoadTypes, Loading,
                             ShownTypes, TailTypes,
                    ChartTypes, RestTypes
<1>27. ASSUME NEW e \in Entries, TailEntry(e) PROVE TypeInv'
  <2>1. entries' \in Seq(Entries)
    BY <1>27, EntriesTyped DEF TailEntry
  <2>2. origin' \subseteq Searches
    BY <1>0, <1>27 DEF TailEntry, ShownTypes, TailTypes
  <2>3. drawer' \in Entries \cup {None}
    BY <1>0, <1>27 DEF TailEntry, FormTypes
  <2>4. QED
    BY <1>0, <1>27, <2>1, <2>2, <2>3 DEF TailEntry, TypeInv, FormTypes, AddressTypes, LoadTypes,
                                         Loading, ShownTypes, TailTypes,
                    ChartTypes, RestTypes
<1>28. CASE UNCHANGED vars
  BY <1>0, <1>28 DEF vars, TypeInv, FormTypes, AddressTypes, LoadTypes, Loading, ShownTypes,
                     TailTypes,
                    ChartTypes, RestTypes
<1>29. QED
  BY <1>1, <1>2, <1>3, <1>4, <1>5, <1>6, <1>7, <1>8, <1>9, <1>10, <1>11, <1>12, <1>13, <1>14,
     <1>15, <1>16, <1>17, <1>18, <1>19, <1>20, <1>21, <1>22, <1>23, <1>24, <1>25, <1>26, <1>27,
     <1>28 DEF Next, User, RunsSearch, Runtime, World

-----------------------------------------------------------------------------
(* The order of the list. *)

NewestFirst == origin \cap Ascending = {}

\* An answer on its way continues behind the token it was asked with, and its own
\* token is its last entry.
AnswerFalls ==
  load.phase = "answered" =>
    /\ load.next # None => load.next.after <= load.since
    /\ load.search \notin Ascending =>
         /\ Falls(load.page)
         /\ load.pageToken # None => \A e \in Range(load.page) : e < load.pageToken.after
         /\ load.next # None =>
              /\ \A e \in Range(load.page) : load.next.after <= e
              /\ load.pageToken # None => load.next.after <= load.pageToken.after

\* The next page continues behind the list, and the tail in front of that.
ListFalls ==
  NewestFirst =>
    /\ Falls(entries)
    /\ response # None /\ response.next # None =>
         /\ \A e \in Range(entries) : response.next.after <= e
         /\ tail.open => response.next.after <= tail.since

NothingYet == response = None => ~tail.open /\ entries = <<>>

ResponseReaches == response # None /\ response.next # None => response.next.after <= response.since

\* The spinner waits for the first results.
SpinnerFirst == spinner = "shown" => Loading /\ (load.phase = "settling" \/ response = None)

SettlesWith ==
  load.phase = "settling" => IF response = None THEN reload ELSE response.since = load.since

AppendContinues ==
  load.append /\ load.phase \in {"sent", "answered"} =>
    load.pageToken # None /\ (response = None \/ response.next = load.pageToken)

OrderInv ==
  /\ AnswerFalls /\ ListFalls /\ NothingYet /\ ResponseReaches /\ SpinnerFirst /\ SettlesWith
  /\ AppendContinues

\* The inductive strengthening of ListsSound.
ListsInv == TypeInv /\ Once(entries) /\ Once(load.page) /\ (NothingTyped => OrderInv)

LEMMA EmptyIs == Once(<<>>) /\ Falls(<<>>) /\ Range(<<>>) = {}
BY DEF Once, Falls, Range

LEMMA RequestIs ==
  ASSUME NEW append
  PROVE  /\ Request(append).phase = "sent" /\ Request(append).append = append
         /\ Request(append).page = <<>> /\ Request(append).pageToken = pageToken'
BY DEF Request, Idle

LEMMA LoadPages ==
  ASSUME Once(load.page), NEW append, LoadExplorer(append) PROVE Once(load'.page)
BY RequestIs, EmptyIs DEF LoadExplorer, NewLoad

LEMMA FinallyPages ==
  ASSUME NEW tailed, Finally(tailed)
  PROVE  /\ load'.phase \in {"idle", "sent"} /\ ~load'.append /\ Once(load'.page)
         /\ spinner' # "shown"
         /\ tail' = Closed \/ (~reload /\ tail' = tailed)
<1>1. CASE reload
  BY <1>1, RequestIs, EmptyIs DEF Finally, NewLoad, CloseTail
<1>2. CASE ~reload
  BY <1>2, EmptyIs DEF Finally, Idle
<1>3. QED
  BY <1>1, <1>2

LEMMA OrderFrame ==
  ASSUME OrderInv, UNCHANGED <<load, reload, response, entries, origin, tail, spinner>>
  PROVE  OrderInv'
BY DEF OrderInv, AnswerFalls, ListFalls, NewestFirst, NothingYet, ResponseReaches, SpinnerFirst,
       Loading,
       SettlesWith, AppendContinues

\* A whole search, asked for while the tail is closed or opened anew on the
\* results there are.
LEMMA SearchOrders ==
  ASSUME OrderInv, LoadExplorer(FALSE),
         \/ CloseTail
         \/ response # None /\ StartTail(response.since) /\ response' = response,
         \/ UNCHANGED <<response, entries, origin>>
         \/ response' = None /\ entries' = <<>>
  PROVE  OrderInv'
<1>1. /\ response' = None \/ response' = response
      /\ tail'.open => response # None /\ response' = response /\ tail'.since = response.since
  BY DEF CloseTail, StartTail, Closed
<1>2. CASE response' = None /\ entries' = <<>>
  <2>1. ListFalls' /\ NothingYet' /\ ResponseReaches'
    BY <1>1, <1>2, EmptyIs DEF ListFalls, NothingYet, ResponseReaches
  <2>2. CASE Loading
    <3>1. reload' /\ UNCHANGED <<load, spinner>>
      BY <2>2 DEF LoadExplorer
    <3>2. QED
      BY <1>2, <2>1, <3>1, <2>2 DEF OrderInv, AnswerFalls, SpinnerFirst, Loading, SettlesWith,
                                    AppendContinues
  <2>3. CASE ~Loading
    <3>1. load' = Request(FALSE) /\ spinner' \in {"off", "armed"}
      BY <2>3 DEF LoadExplorer, NewLoad
    <3>2. QED
      BY <2>1, <3>1, RequestIs DEF OrderInv, AnswerFalls, SpinnerFirst, Loading, SettlesWith,
                                   AppendContinues
  <2>4. QED
    BY <2>2, <2>3
<1>3. CASE UNCHANGED <<response, entries, origin>>
  <2>1. NothingYet' /\ ResponseReaches' /\ ListFalls'
    BY <1>1, <1>3 DEF OrderInv, NothingYet, ResponseReaches, ListFalls, NewestFirst
  <2>2. CASE Loading
    <3>1. reload' /\ UNCHANGED <<load, spinner>>
      BY <2>2 DEF LoadExplorer
    <3>2. QED
      BY <1>3, <2>1, <3>1, <2>2 DEF OrderInv, AnswerFalls, SpinnerFirst, Loading, SettlesWith,
                                    AppendContinues
  <2>3. CASE ~Loading
    <3>1. load' = Request(FALSE) /\ spinner' \in {"off", "armed"}
      BY <2>3 DEF LoadExplorer, NewLoad
    <3>2. QED
      BY <2>1, <3>1, RequestIs DEF OrderInv, AnswerFalls, SpinnerFirst, Loading, SettlesWith,
                                   AppendContinues
  <2>4. QED
    BY <2>2, <2>3
<1>4. QED
  BY <1>2, <1>3

\* The end of a load, with the list, the tail and the response the caller says.
LEMMA EndOrders ==
  ASSUME NEW tailed, Finally(tailed), ListFalls', NothingYet', ResponseReaches'
  PROVE  OrderInv'
BY FinallyPages DEF OrderInv, AnswerFalls, SpinnerFirst, SettlesWith, AppendContinues

LEMMA FailOrders ==
  ASSUME OrderInv, Fail PROVE OrderInv'
<1>1. /\ UNCHANGED <<response, origin>> /\ Finally(tail)
      /\ entries' = entries \/ (response = None /\ entries' = <<>>)
  BY DEF Fail
<1>2. tail' = Closed \/ tail' = tail
  BY <1>1, FinallyPages
<1>3. ~Closed.open
  BY DEF Closed
<1>4. ListFalls' /\ NothingYet' /\ ResponseReaches'
  BY <1>1, <1>2, <1>3, EmptyIs DEF OrderInv, ListFalls, NewestFirst, NothingYet, ResponseReaches
<1>5. QED
  BY <1>1, <1>4, EndOrders

\* An answer that is in the state: a new tail begins where the answer ends.
LEMMA SucceedOrders ==
  ASSUME TailOnlyWhenLive, Succeed, live' = live,
         response' # None, ResponseReaches',
         ~load.append => response'.since = load.since,
         NewestFirst' =>
           /\ Falls(entries')
           /\ response'.next # None =>
                /\ \A e \in Range(entries') : response'.next.after <= e
                /\ load.append /\ tail.open => response'.next.after <= tail.since
  PROVE  OrderInv'
<1> DEFINE last == ~load.append /\ ~reload
<1>1. Finally(TailAfter(last))
  BY DEF Succeed
<1>2. tail' = Closed \/ (~reload /\ tail' = TailAfter(last))
  BY <1>1, FinallyPages
<1>3. ~Closed.open
  BY DEF Closed
<1>4. tail'.open => IF load.append THEN tail' = tail ELSE tail'.since = load.since
  BY <1>2, <1>3 DEF TailAfter, NewTail, TailOnlyWhenLive
<1>5. NothingYet'
  BY DEF NothingYet
<1>6. ListFalls'
  BY <1>4 DEF ListFalls, ResponseReaches
<1>7. QED
  BY <1>1, <1>5, <1>6, EndOrders

\* The list an answer makes.
LEMMA AnsweredList ==
  ASSUME TypeInv, Once(entries), Once(load.page), load.phase = "answered",
         entries' = IF load.append THEN Extended(load.page) ELSE load.page
  PROVE  Once(entries')
<1>1. load.page \in Seq(Entries) /\ entries \in Seq(Entries)
  BY EntriesTyped
<1>2. QED
  BY <1>1, ExtendedIs

LEMMA AnswerOrders ==
  ASSUME TypeInv, Once(entries), Once(load.page), OrderInv, load.phase = "answered",
         entries' = (IF load.append THEN Extended(load.page) ELSE load.page),
         origin' = (IF load.append THEN origin ELSE {}) \cup {load.search},
         NewestFirst'
  PROVE  /\ Falls(entries')
         /\ load.next # None =>
              /\ \A e \in Range(entries') : load.next.after <= e
              /\ load.append /\ tail.open => load.next.after <= tail.since
<1>1. load.page \in Seq(Entries) /\ entries \in Seq(Entries) /\ Range(entries) \subseteq Entries
  BY EntriesTyped
<1>2. load.search \notin Ascending /\ (load.append => NewestFirst)
  BY DEF NewestFirst
<1>3. /\ Falls(load.page)
      /\ load.pageToken # None => \A e \in Range(load.page) : e < load.pageToken.after
      /\ load.next # None =>
           /\ \A e \in Range(load.page) : load.next.after <= e
           /\ load.pageToken # None => load.next.after <= load.pageToken.after
  BY <1>2 DEF OrderInv, AnswerFalls
<1>4. CASE ~load.append
  BY <1>3, <1>4
<1>5. CASE load.append
  <2>1. entries' = Extended(load.page)
    BY <1>5
  <2>2. load.pageToken # None /\ load.pageToken \in Token /\ load.next \in Token \cup {None}
    BY <1>5 DEF OrderInv, AppendContinues, TypeInv, LoadTypes, LoadRecords
  <2>3. load.pageToken.after \in Int /\ (load.next # None => load.next.after \in Int)
    BY <2>2 DEF Token, Entries
  <2>4. Range(load.page) \subseteq Int /\ Range(entries) \subseteq Int /\ tail.since \in Int
    <3>1. Range(load.page) \subseteq Entries
      BY <1>1 DEF Range
    <3>2. Entries \subseteq Int
      BY DEF Entries
    <3>3. tail.since \in Int
      BY DEF TypeInv, TailTypes
    <3>4. QED
      BY <1>1, <3>1, <3>2, <3>3
  <2>5. CASE response = None
    <3>1. entries = <<>> /\ ~tail.open
      BY <2>5 DEF OrderInv, NothingYet
    <3>2. Range(entries) = {} /\ Falls(entries)
      BY <3>1, EmptyIs
    <3>3. Falls(Extended(load.page)) /\ Range(Extended(load.page)) \subseteq Range(load.page)
      BY <1>1, <1>3, <3>2, ExtendedIs
    <3>4. QED
      BY <1>3, <2>1, <3>1, <3>3
  <2>6. CASE response # None
    <3>1. response.next = load.pageToken
      BY <1>5, <2>6 DEF OrderInv, AppendContinues
    <3>2. /\ Falls(entries)
          /\ \A e \in Range(entries) : load.pageToken.after <= e
          /\ tail.open => load.pageToken.after <= tail.since
      BY <1>2, <1>5, <2>2, <2>6, <3>1 DEF OrderInv, ListFalls
    <3>3. \A e \in Range(entries), f \in Range(load.page) : e > f
      BY <1>3, <2>2, <2>3, <2>4, <3>2
    <3>4. /\ Falls(Extended(load.page))
          /\ Range(Extended(load.page)) \subseteq Range(entries) \cup Range(load.page)
      BY <1>1, <1>3, <3>2, <3>3, ExtendedIs
    <3>5. ASSUME load.next # None
          PROVE  /\ \A e \in Range(entries) : load.next.after <= e
                 /\ tail.open => load.next.after <= tail.since
      BY <1>3, <2>2, <2>3, <2>4, <3>2, <3>5
    <3>6. QED
      BY <1>3, <2>1, <3>4, <3>5
  <2>7. QED
    BY <2>5, <2>6
<1>6. QED
  BY <1>4, <1>5

\* A live entry is in its place, and the next page still behind it.
LEMMA TailOrders ==
  ASSUME TypeInv, Once(entries), NEW e \in Entries, TailEntry(e), OrderInv, tail.search = search
  PROVE  OrderInv'
<1>1. /\ UNCHANGED <<load, reload, response, tail, spinner>>
      /\ tail.open /\ e > tail.since /\ origin' = origin \cup {tail.search}
      /\ entries' = Trimmed(Inserted(e))
  BY DEF TailEntry, fetch
<1>2. response # None
  BY <1>1 DEF OrderInv, NothingYet
<1>3. entries \in Seq(Entries) /\ Range(entries) \subseteq Entries
  BY DEF TypeInv, ShownTypes, Range
<1>4. /\ Inserted(e) \in Seq(Entries) /\ Once(Inserted(e))
      /\ search \notin Ascending /\ Falls(entries) => Falls(Inserted(e))
      /\ Range(Inserted(e)) \subseteq Range(entries) \cup {e}
  BY <1>3, InsertedIs
<1>5. PICK list : list = Inserted(e)
  OBVIOUS
<1>6. /\ Falls(list) => Falls(Trimmed(list))
      /\ Range(Trimmed(list)) \subseteq Range(list)
  BY <1>4, <1>5, TrimmedIs
<1>7. ASSUME NewestFirst'
      PROVE  /\ Falls(entries')
             /\ response.next # None =>
                  /\ \A f \in Range(entries') : response.next.after <= f
                  /\ response.next.after <= tail.since
  <2>1. search \notin Ascending /\ NewestFirst
    BY <1>1, <1>7 DEF NewestFirst
  <2>2. /\ Falls(entries)
        /\ response.next # None =>
             /\ \A f \in Range(entries) : response.next.after <= f
             /\ response.next.after <= tail.since
    BY <1>1, <1>2, <2>1 DEF OrderInv, ListFalls
  <2>3. Falls(entries')
    BY <1>1, <1>4, <1>5, <1>6, <2>1, <2>2
  <2>4. \A f \in Range(entries') : f \in Range(entries) \/ f = e
    BY <1>1, <1>4, <1>5, <1>6
  <2>5. response.next # None => response.next.after \in Int
    BY <1>2 DEF TypeInv, ShownTypes, Response, Token, Entries
  <2>6. e \in Int /\ tail.since \in Int
    BY DEF Entries, TypeInv, TailTypes
  <2>7. response.next # None => response.next.after <= e
    BY <1>1, <2>2, <2>5, <2>6
  <2>8. QED
    BY <2>2, <2>3, <2>4, <2>7
<1>8. ListFalls' /\ NothingYet' /\ ResponseReaches'
  BY <1>1, <1>2, <1>7 DEF ListFalls, NothingYet, OrderInv, ResponseReaches
<1>9. QED
  BY <1>1, <1>8 DEF OrderInv, AnswerFalls, SpinnerFirst, Loading, SettlesWith, AppendContinues

LEMMA ListsStep ==
  ASSUME TailOnlyWhenLive, ExplorerInv, FollowInv, ListsInv, [Next]_vars PROVE ListsInv'
<1> USE DEF form, shown, timers, chart, browser, fetch, KeepDetail
<1>0. /\ TypeInv /\ Once(entries) /\ Once(load.page) /\ TypeInv'
      /\ NothingTyped => OrderInv
  BY TypeStep DEF ListsInv
<1>a. ASSUME UNCHANGED <<load, reload, response, entries, origin, tail, spinner, strayed>> PROVE ListsInv'
  BY <1>0, <1>a, OrderFrame, StrayedAsBefore DEF ListsInv
<1>b. ASSUME LoadExplorer(FALSE), UNCHANGED strayed,
             \/ CloseTail
             \/ response # None /\ StartTail(response.since) /\ response' = response,
             \/ UNCHANGED <<response, entries, origin>>
             \/ response' = None /\ entries' = <<>>
      PROVE  ListsInv'
  <2>1. Once(entries') /\ Once(load'.page)
    BY <1>0, <1>b, LoadPages, EmptyIs
  <2>2. NothingTyped' => OrderInv'
    BY <1>0, <1>b, SearchOrders, StrayedAsBefore
  <2>3. QED
    BY <1>0, <2>1, <2>2 DEF ListsInv
<1>c. ASSUME NEW how \in {Typed, Unrun, Custom}, Stray(how), Once(entries'), Once(load'.page)
      PROVE  ListsInv'
  <2>1. ~NothingTyped'
    BY <1>0, <1>c, Strays DEF TypeInv, RestTypes
  <2>2. QED
    BY <1>0, <1>c, <2>1 DEF ListsInv
<1>1. ASSUME NEW q \in Searches, RunQuery(q) PROVE ListsInv'
  BY <1>1, <1>b DEF RunQuery, RunFrom
<1>2. ASSUME NEW q \in Searches, ChangeFilter(q) PROVE ListsInv'
  BY <1>2, <1>b DEF ChangeFilter, RunFrom
<1>3. ASSUME NEW q \in Searches, FieldFilter(q) PROVE ListsInv'
  BY <1>3, <1>b DEF FieldFilter, RunFrom
<1>4. ASSUME NEW q \in Searches, SelectRange(q) PROVE ListsInv'
  BY <1>4, <1>b DEF SelectRange, RunFrom
<1>5. ASSUME NEW q \in Searches, ShowContext(q) PROVE ListsInv'
  BY <1>5, <1>b DEF ShowContext, RunFrom
<1>6. ASSUME NEW q \in Searches, NEW run \in BOOLEAN, UseSnapshot(q, run) PROVE ListsInv'
  <2>1. CASE run
    BY <1>6, <2>1, <1>b DEF UseSnapshot
  <2>2. CASE ~run
    <3>1. Stray(Unrun) /\ entries' = <<>> /\ load' = load
      BY <1>6, <2>2 DEF UseSnapshot
    <3>2. QED
      BY <1>0, <1>c, <3>1, EmptyIs
  <2>3. QED
    BY <2>1, <2>2
<1>7. ASSUME NEW q \in Searches, ScheduleSearch(q) PROVE ListsInv'
  <2>1. Stray(Typed) /\ UNCHANGED <<entries, load>>
    BY <1>7 DEF ScheduleSearch
  <2>2. QED
    BY <1>0, <1>c, <2>1
<1>8. ASSUME NEW q \in Searches, ChooseCustom(q) PROVE ListsInv'
  <2>1. Stray(Custom) /\ UNCHANGED <<entries, load>>
    BY <1>8 DEF ChooseCustom
  <2>2. QED
    BY <1>0, <1>c, <2>1
<1>9. CASE RefreshResults
  BY <1>9, <1>b DEF RefreshResults
<1>10. CASE NextPage
  <2>1. /\ ~Loading /\ response # None /\ response.next # None /\ LoadExplorer(TRUE)
        /\ UNCHANGED <<response, entries, origin, tail, strayed>> /\ pageToken' = response.next
    BY <1>10 DEF NextPage
  <2>2. load' = Request(TRUE) /\ spinner' = "off"
    BY <2>1 DEF LoadExplorer, NewLoad
  <2>3. load'.phase = "sent" /\ load'.append /\ load'.pageToken = response.next
    BY <2>1, <2>2, RequestIs
  <2>4. OrderInv => OrderInv'
    BY <2>1, <2>2, <2>3 DEF OrderInv, AnswerFalls, ListFalls, NewestFirst, NothingYet,
                            ResponseReaches, SpinnerFirst,
                            SettlesWith, AppendContinues
  <2>5. Once(load'.page)
    BY <1>0, <2>1, LoadPages
  <2>6. QED
    BY <1>0, <2>1, <2>4, <2>5, StrayedAsBefore DEF ListsInv
<1>11. CASE ToggleLive
  <2>1. UNCHANGED <<load, reload, spinner, response, entries, origin, strayed>>
    BY <1>11 DEF ToggleLive
  <2>2. \/ tail' = tail
        \/ ~tail'.open
        \/ response # None /\ tail'.since = response.since
    BY <1>11, <2>1 DEF ToggleLive, StartTail, CloseTail, Closed
  <2>3. OrderInv => OrderInv'
    BY <2>1, <2>2 DEF OrderInv, AnswerFalls, ListFalls, NewestFirst, NothingYet, ResponseReaches,
                      SpinnerFirst, Loading,
                            SettlesWith, AppendContinues
  <2>4. QED
    BY <1>0, <2>1, <2>3, StrayedAsBefore DEF ListsInv
<1>12. CASE CancelQuery
  <2>1. Stray(Unrun) /\ entries' = entries /\ load' \in {Idle, load}
    BY <1>12 DEF CancelQuery
  <2>2. Once(load'.page)
    BY <1>0, <2>1, EmptyIs DEF Idle
  <2>3. QED
    BY <1>0, <1>c, <2>1, <2>2
<1>13. CASE GoBack
  BY <1>13, <1>b DEF GoBack
<1>14. CASE ReloadPage
  <2>1. /\ load' = FirstLoad(url) /\ response' = None /\ entries' = <<>> /\ spinner' = "armed"
        /\ tail' = Closed /\ UNCHANGED strayed
    BY <1>14 DEF ReloadPage
  <2>2. load'.phase = "sent" /\ ~load'.append /\ load'.page = <<>> /\ ~tail'.open
    BY <2>1 DEF FirstLoad, Idle, Closed
  <2>3. OrderInv'
    BY <2>1, <2>2, EmptyIs DEF OrderInv, AnswerFalls, ListFalls, NothingYet, ResponseReaches,
                               SpinnerFirst,
                            SettlesWith, AppendContinues
  <2>4. QED
    BY <1>0, <2>1, <2>2, <2>3, EmptyIs DEF ListsInv
<1>15. ASSUME NEW commit \in BOOLEAN, ChangeDisplay(commit) PROVE ListsInv'
  BY <1>15, <1>a DEF ChangeDisplay
<1>16. ASSUME NEW e \in Entries, OpenDetail(e) PROVE ListsInv'
  BY <1>16, <1>a DEF OpenDetail
<1>17. CASE DismissDetail
  BY <1>17, <1>a DEF DismissDetail
<1>18. ASSUME NEW b \in Resolutions, Resize(b) PROVE ListsInv'
  BY <1>18, <1>a DEF Resize
<1>19. CASE SearchTimer
  BY <1>19, <1>b DEF SearchTimer
<1>20. CASE ResizeTimer
  <2>1. CASE response = None
    BY <1>20, <2>1, <1>a DEF ResizeTimer
  <2>2. CASE response # None
    BY <1>20, <2>2, <1>b DEF ResizeTimer
  <2>3. QED
    BY <2>1, <2>2
<1>21. CASE InitialLoadingTimer
  <2>1. /\ UNCHANGED <<load, reload, response, entries, origin, tail, strayed>>
        /\ spinner' = IF Loading /\ response = None THEN "shown" ELSE "off"
    BY <1>21 DEF InitialLoadingTimer
  <2>2. OrderInv => OrderInv'
    BY <2>1 DEF OrderInv, AnswerFalls, ListFalls, NewestFirst, NothingYet, ResponseReaches,
                SpinnerFirst, Loading,
                SettlesWith, AppendContinues
  <2>3. QED
    BY <1>0, <2>1, <2>2, StrayedAsBefore DEF ListsInv
<1>22. CASE ReceiveAnswer
  <2>1. /\ load.phase = "answered" /\ UNCHANGED <<live, strayed>>
        /\ entries' = IF load.append THEN Extended(load.page) ELSE load.page
        /\ origin' = (IF load.append THEN origin ELSE {}) \cup {load.search}
    BY <1>22 DEF ReceiveAnswer
  <2>2. PICK r \in Response : r = [search |-> load.search, since |-> load.since, next |-> load.next,
                                    buckets |-> load.buckets]
    <3>1. load \in LoadRecords /\ load.buckets \in Resolutions
      BY <1>0, <2>1 DEF TypeInv, LoadTypes, Loading
    <3>2. QED
      BY <3>1 DEF LoadRecords, Response
  <2>3. response' = r /\ r.since = load.since /\ r.next = load.next
    BY <1>22, <2>2 DEF ReceiveAnswer
  <2>4. r # None
    BY <2>2, ExplorerAssumption
  <2>5. Once(entries')
    BY <1>0, <2>1, AnsweredList
  <2>6. CASE spinner = "shown"
    <3>1. /\ load' = [load EXCEPT !.phase = "settling"]
          /\ UNCHANGED <<reload, spinner, tail>>
      BY <1>22, <2>6 DEF ReceiveAnswer
    <3>2. load \in LoadRecords
      BY <1>0 DEF TypeInv, LoadTypes
    <3>3. /\ load'.phase = "settling" /\ load'.since = load.since /\ load'.page = load.page
      BY <3>1, <3>2 DEF LoadRecords
    <3>4. ASSUME OrderInv PROVE OrderInv'
      <4>1. response = None /\ ~tail.open
        BY <2>1, <2>6, <3>4 DEF OrderInv, SpinnerFirst, NothingYet
      <4>2. load.next # None => load.next.after <= load.since
        BY <2>1, <3>4 DEF OrderInv, AnswerFalls
      <4>3. NewestFirst' => /\ Falls(entries')
                            /\ load.next # None => \A e \in Range(entries') : load.next.after <= e
        BY <1>0, <2>1, <3>4, AnswerOrders
      <4>4. ListFalls' /\ NothingYet' /\ ResponseReaches'
        BY <2>3, <2>4, <3>1, <4>1, <4>2, <4>3 DEF ListFalls, NothingYet, ResponseReaches
      <4>5. SpinnerFirst' /\ SettlesWith' /\ AppendContinues' /\ AnswerFalls'
        BY <2>3, <2>4, <3>3 DEF SpinnerFirst, Loading, SettlesWith, AppendContinues, AnswerFalls
      <4>6. QED
        BY <4>4, <4>5 DEF OrderInv
    <3>5. QED
      BY <1>0, <2>1, <2>5, <3>3, <3>4, StrayedAsBefore DEF ListsInv
  <2>7. CASE spinner # "shown"
    <3>1. Succeed
      BY <1>22, <2>7 DEF ReceiveAnswer
    <3>2. PICK tailed : Finally(tailed)
      BY <3>1 DEF Succeed
    <3>3. Once(load'.page)
      BY <3>2, FinallyPages
    <3>4. ASSUME OrderInv PROVE OrderInv'
      <4>1. ResponseReaches'
        BY <2>1, <2>3, <3>4 DEF OrderInv, AnswerFalls, ResponseReaches
      <4>2. NewestFirst' =>
           /\ Falls(entries')
           /\ load.next # None =>
                /\ \A e \in Range(entries') : load.next.after <= e
                /\ load.append /\ tail.open => load.next.after <= tail.since
        BY <1>0, <2>1, <3>4, AnswerOrders
      <4>3. QED
        BY <2>1, <2>3, <2>4, <3>1, <4>1, <4>2, SucceedOrders
    <3>5. QED
      BY <1>0, <2>1, <2>5, <3>3, <3>4, StrayedAsBefore DEF ListsInv
  <2>8. QED
    BY <2>6, <2>7
<1>23. CASE Settle
  <2>1. load.phase \in {"settling", "failing"} /\ Loading /\ UNCHANGED <<live, strayed>>
    BY <1>23 DEF Settle, Loading
  <2>2. CASE load.phase = "failing"
    <3>1. Fail
      BY <1>23, <2>2 DEF Settle
    <3>2. Finally(tail) /\ entries' \in {<<>>, entries}
      BY <3>1 DEF Fail
    <3>3. Once(entries') /\ Once(load'.page)
      BY <1>0, <3>2, FinallyPages, EmptyIs
    <3>4. QED
      BY <1>0, <2>1, <3>1, <3>3, FailOrders, StrayedAsBefore DEF ListsInv
  <2>3. CASE load.phase = "settling"
    <3>1. Succeed /\ UNCHANGED <<response, entries, origin>>
      BY <1>23, <2>3 DEF Settle
    <3>2. PICK tailed : Finally(tailed) /\ tailed = TailAfter(~load.append /\ ~reload)
      BY <3>1 DEF Succeed
    <3>3. Once(load'.page) /\ (tail' = Closed \/ (~reload /\ tail' = tailed))
      BY <3>2, FinallyPages
    <3>4. ASSUME NothingTyped, OrderInv PROVE OrderInv'
      <4>1. ~load.append
        <5>1. AppendUnhidden
          BY <3>4, StrayedFurther DEF FollowInv, StreamInv
        <5>2. QED
          BY <2>1, <2>3, <5>1 DEF AppendUnhidden
      <4>2. CASE response = None
        <5>1. reload /\ ~tail.open /\ entries = <<>>
          BY <2>3, <3>4, <4>2 DEF OrderInv, SettlesWith, NothingYet
        <5>2. tail' = Closed /\ ~Closed.open
          BY <3>3, <5>1 DEF Closed
        <5>3. ListFalls' /\ NothingYet' /\ ResponseReaches'
          BY <3>1, <4>2, <5>1, <5>2, EmptyIs DEF ListFalls, NothingYet, ResponseReaches
        <5>4. QED
          BY <3>2, <5>3, EndOrders
      <4>3. CASE response # None
        <5>1. response.since = load.since
          BY <2>3, <3>4, <4>3 DEF OrderInv, SettlesWith
        <5>2. ResponseReaches'
          BY <3>1, <3>4 DEF OrderInv, ResponseReaches
        <5>3. NewestFirst' => /\ Falls(entries')
                              /\ response'.next # None => \A e \in Range(entries') : response'.next.after <= e
          BY <3>1, <3>4, <4>3 DEF OrderInv, ListFalls, NewestFirst
        <5>4. QED
          BY <2>1, <3>1, <4>1, <4>3, <5>1, <5>2, <5>3, SucceedOrders
      <4>4. QED
        BY <4>2, <4>3
    <3>5. QED
      BY <1>0, <2>1, <3>1, <3>3, <3>4, StrayedAsBefore DEF ListsInv
  <2>4. QED
    BY <2>1, <2>2, <2>3
<1>24. CASE HubAnswers
  <2>1. PICK page : page = Page(load.search, load.pageToken)
    OBVIOUS
  <2>2. PICK next : next = NextToken(load.search, load.pageToken)
    OBVIOUS
  <2>3. /\ load' = [load EXCEPT !.phase = "answered", !.since = stored, !.page = page, !.next = next]
        /\ load.phase = "sent"
        /\ UNCHANGED <<reload, spinner, response, entries, origin, tail, strayed>>
    BY <1>24, <2>1, <2>2 DEF HubAnswers
  <2>4. load \in LoadRecords /\ stored \in 0 .. MaxEntries
    BY <1>0 DEF TypeInv, LoadTypes, RestTypes
  <2>5. load.search \in Searches /\ load.pageToken \in Token \cup {None}
    BY <2>4 DEF LoadRecords
  <2>6. /\ Once(page)
        /\ next # None => next.after <= stored
        /\ load.search \notin Ascending =>
             /\ Falls(page)
             /\ load.pageToken # None => \A e \in Range(page) : e < load.pageToken.after
             /\ next # None =>
                  /\ \A e \in Range(page) : next.after <= e
                  /\ load.pageToken # None => next.after <= load.pageToken.after
    BY <2>1, <2>2, <2>4, <2>5, PageIs
  <2>7. /\ load'.phase = "answered" /\ load'.since = stored /\ load'.page = page /\ load'.next = next
        /\ load'.append = load.append /\ load'.search = load.search /\ load'.pageToken = load.pageToken
    BY <2>3, <2>4 DEF LoadRecords
  <2>8. ASSUME OrderInv PROVE OrderInv'
    <3>1. AnswerFalls'
      BY <2>6, <2>7 DEF AnswerFalls
    <3>2. ListFalls' /\ NothingYet' /\ ResponseReaches'
      BY <2>3, <2>8 DEF OrderInv, ListFalls, NewestFirst, NothingYet, ResponseReaches
    <3>3. SpinnerFirst' /\ SettlesWith' /\ AppendContinues'
      BY <2>3, <2>7, <2>8 DEF OrderInv, SpinnerFirst, Loading, SettlesWith, AppendContinues
    <3>4. QED
      BY <3>1, <3>2, <3>3 DEF OrderInv
  <2>9. QED
    BY <1>0, <2>3, <2>6, <2>7, <2>8, StrayedAsBefore DEF ListsInv
<1>25. CASE ReceiveFailure
  <2>1. load.phase \in {"sent", "answered"} /\ UNCHANGED strayed
    BY <1>25 DEF ReceiveFailure
  <2>2. CASE spinner = "shown"
    <3>1. /\ load' = [load EXCEPT !.phase = "failing"]
          /\ UNCHANGED <<reload, spinner, response, entries, origin, tail>>
      BY <1>25, <2>2 DEF ReceiveFailure
    <3>2. load'.phase = "failing" /\ load'.page = load.page
      BY <1>0, <3>1 DEF TypeInv, LoadTypes, LoadRecords
    <3>3. OrderInv => OrderInv'
      BY <2>1, <3>1, <3>2 DEF OrderInv, AnswerFalls, ListFalls, NewestFirst, NothingYet,
                              ResponseReaches, SpinnerFirst,
                 Loading, SettlesWith, AppendContinues
    <3>4. QED
      BY <1>0, <2>1, <3>1, <3>2, <3>3, StrayedAsBefore DEF ListsInv
  <2>3. CASE spinner # "shown"
    <3>1. Fail
      BY <1>25, <2>3 DEF ReceiveFailure
    <3>2. Finally(tail) /\ entries' \in {<<>>, entries}
      BY <3>1 DEF Fail
    <3>3. Once(entries') /\ Once(load'.page)
      BY <1>0, <3>2, FinallyPages, EmptyIs
    <3>4. QED
      BY <1>0, <2>1, <3>1, <3>3, FailOrders, StrayedAsBefore DEF ListsInv
  <2>4. QED
    BY <2>2, <2>3
<1>26. CASE LogWritten
  BY <1>26, <1>a DEF LogWritten
<1>27. ASSUME NEW e \in Entries, TailEntry(e) PROVE ListsInv'
  <2>1. /\ tail.open /\ entries' = Trimmed(Inserted(e)) /\ UNCHANGED <<load, strayed>>
    BY <1>27 DEF TailEntry
  <2>2. Inserted(e) \in Seq(Entries) /\ Once(Inserted(e))
    BY <1>0, InsertedIs DEF TypeInv, ShownTypes
  <2>3. Once(entries')
    BY <2>1, <2>2, TrimmedIs
  <2>4. NothingTyped => tail.search = search
    BY <2>1, StrayedFurther DEF FollowInv, RecordInv, ListInv, TailOfForm
  <2>5. NothingTyped => OrderInv'
    BY <1>0, <1>27, <2>4, TailOrders
  <2>6. QED
    BY <1>0, <2>1, <2>3, <2>5, StrayedAsBefore DEF ListsInv
<1>28. CASE UNCHANGED vars
  BY <1>28, <1>a DEF vars
<1>29. QED
  BY <1>1, <1>2, <1>3, <1>4, <1>5, <1>6, <1>7, <1>8, <1>9, <1>10, <1>11, <1>12, <1>13, <1>14,
     <1>15, <1>16, <1>17, <1>18, <1>19, <1>20, <1>21, <1>22, <1>23, <1>24, <1>25, <1>26, <1>27,
     <1>28 DEF Next, User, RunsSearch, Runtime, World

(* However whole loads, pages and live entries are put together, an entry is *)
(* listed once, and a list of searches with newest first is in that order    *)
(* (loadExplorer, appendTailEntry).                                          *)
THEOREM ListsAreSound == Spec => []ListsSound
<1>1. Init => ListsInv
  <2> SUFFICES ASSUME Init PROVE ListsInv
    OBVIOUS
  <2>1. url \in URL /\ ChartTypes
    BY DEF Init, URL, ChartTypes
  <2>2. FirstLoad(url) \in LoadRecords /\ FirstLoad(url).buckets \in Resolutions
    BY <2>1, FirstLoadTyped
  <2>3. /\ load = FirstLoad(url) /\ load.phase = "sent" /\ ~load.append /\ load.page = <<>>
        /\ tail = Closed /\ ~tail.open
    BY DEF Init, FirstLoad, Idle, Closed
  <2>4. FormTypes /\ AddressTypes
    BY <2>1 DEF Init, FormTypes, AddressTypes, URL
  <2>5. LoadTypes /\ TailTypes
    <3>1. load \in LoadRecords /\ load.buckets \in Resolutions
      BY <2>2, <2>3
    <3>2. asked \in Searches /\ reload = FALSE /\ spinner = "armed"
      BY <2>1 DEF Init, URL
    <3>3. LoadTypes
      BY <3>1, <3>2 DEF LoadTypes
    <3>4. QED
      BY <2>3, <3>3, Bounds DEF TailTypes, Closed
  <2>6. ShownTypes
    BY DEF Init, ShownTypes
  <2>7. RestTypes
    BY DEF Init, RestTypes, Custom
  <2>8. OrderInv
    BY <2>3, EmptyIs DEF Init, OrderInv, AnswerFalls, ListFalls, NothingYet, ResponseReaches,
                         SpinnerFirst, SettlesWith, AppendContinues
  <2>9. Once(entries) /\ Once(load.page)
    BY <2>3, EmptyIs DEF Init
  <2>10. QED
    BY <2>1, <2>4, <2>5, <2>6, <2>7, <2>8, <2>9 DEF ListsInv, TypeInv
<1>2. ListsInv => ListsSound
  <2> SUFFICES ASSUME ListsInv PROVE ListsSound
    OBVIOUS
  <2>1. TypeOK
    BY DEF ListsInv, TypeInv, FormTypes, AddressTypes, LoadTypes, LoadRecords, ShownTypes,
           TailTypes,
           ChartTypes, RestTypes, TypeOK
  <2>2. NoDuplicates
    BY DEF ListsInv, Once, NoDuplicates
  <2>3. NewestFirstInOrder
    BY DEF ListsInv, NothingTyped, OrderInv, ListFalls, NewestFirst, Falls, NewestFirstInOrder
  <2>4. QED
    BY <2>1, <2>2, <2>3 DEF ListsSound
<1>3. ListsInv /\ TailOnlyWhenLive /\ ExplorerInv /\ FollowInv /\ [Next]_vars => ListsInv'
  BY ListsStep
<1>4. QED
  BY <1>1, <1>2, <1>3, TailIsLive, ExplorerInvariant, FollowInvariant, PTL DEF Spec
=============================================================================
