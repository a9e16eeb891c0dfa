---------------------------- MODULE TimelineDrag ----------------------------
(***************************************************************************)
(* The timeline under the pointer (src/web/src/features/timeline/render.ts)*)
(*                                                                         *)
(* The chart is drawn again by every answer, also between the press and    *)
(* the release of the button.  Times and places are numbers, the chart is  *)
(* Bars buckets of one place each wide, and a range is a multiple of that. *)
(***************************************************************************)
EXTENDS Integers, FiniteSets

CONSTANTS
  Bars,        \* buckets of an answer
  Ranges,      \* the ranges answers have: [from, to]
  Pointers,    \* pointerIds
  NoPointer,   \* no pointer
  ClickOnBar,  \* does the browser send the click of a press to the bar?
  MaxTimers    \* bound: timeouts under way

ASSUME TimelineDragAssumption ==
  /\ Bars \in Nat \ {0} /\ MaxTimers \in Nat /\ NoPointer \notin Pointers
  /\ Ranges # {} /\ Ranges \subseteq [from : Nat, to : Nat]
  /\ \A r \in Ranges : r.from < r.to /\ (r.to - r.from) % Bars = 0

NoRange == [from |-> -1, to |-> -1]

Bar(i, r) == [index |-> i, range |-> r]

NoBar == Bar(-1, NoRange)

VARIABLES
  range,     \* from and to of state.response, and of the bars drawn; NoRange without
  search,    \* timeFrom and timeTo of the search, NoRange if it has a duration
  shade,     \* the part of it that is marked as searched
  start,     \* timelineDragStartX, -1 for null
  pointer,   \* timelineDragPointerId, None for null
  pressed,   \* timelinePressBar
  mark,      \* is the drag's own mark drawn?
  suppress,  \* suppressTimelineClick
  timers,    \* timeouts that will reset it
  click,     \* the place a click is due at, after a release; -1 for none
  cursor,    \* the bucket the cursor is at, and the times on its badge
  choices,   \* history: how often a range was chosen since the last press
  meant      \* history: the time under the pointer at the press

chartVars == <<range, search, shade, start, pointer, pressed, mark, suppress, timers, click,
               cursor, choices, meant>>

ChartPlaces == 0 .. Bars

\* timelineTimeAtX, for an answer that is there
TimeAt(x, r) == r.from + x * ((r.to - r.from) \div Bars)

\* data-start and data-end of a bar, and the text of timelineBucketLabel
Bucket(bar) == [from |-> TimeAt(bar.index, bar.range), to |-> TimeAt(bar.index + 1, bar.range)]

\* setTimelineBadge, and what mousemove does: cursor and badge go to a bucket.
CursorAt(i, r) == [index |-> i, badge |-> Bucket(Bar(i, r))]

NoCursor == [index |-> -1, badge |-> NoRange]

Middle(r) == CursorAt(Bars \div 2, r)

\* Slip: what is beyond the chart is not cut off.
Unclamped(time, r) == time

Clamp(time, r) == IF time < r.from THEN r.from ELSE IF time > r.to THEN r.to ELSE time

\* timelineSelection
TimelineSelection(r, asked) ==
  IF asked = NoRange THEN r
  ELSE LET left == Clamp(asked.from, r)
           end == Clamp(asked.to, r)
       IN  [from |-> left, to |-> IF left > end THEN left ELSE end]

\* Slip: the cursor and its badge stay.
RenderTimelineUnderCursor(r, asked) ==
  /\ mark' = FALSE
  /\ shade' = IF r = NoRange THEN NoRange ELSE TimelineSelection(r, asked)
  /\ cursor' = IF r = NoRange THEN NoCursor ELSE IF cursor = NoCursor THEN Middle(r) ELSE cursor

\* renderTimeline: all that was drawn is new, and the cursor in the middle.
RenderTimeline(r, asked) ==
  /\ mark' = FALSE
  /\ shade' = IF r = NoRange THEN NoRange ELSE TimelineSelection(r, asked)
  /\ cursor' = IF r = NoRange THEN NoCursor ELSE Middle(r)

ChartInit ==
  /\ range = NoRange /\ search = NoRange /\ shade = NoRange
  /\ start = -1 /\ pointer = NoPointer /\ pressed = NoBar /\ mark = FALSE
  /\ suppress = FALSE /\ timers = 0 /\ click = -1
  /\ cursor = NoCursor /\ choices = 0 /\ meant = -1

gesture == <<start, pointer, pressed, choices, meant>>
clicks == <<suppress, timers, click>>
-----------------------------------------------------------------------------
(* Drawing from outside. *)

Answer(r) ==
  /\ click = -1 /\ range' = r /\ RenderTimeline(r, search)
  /\ UNCHANGED <<search, clicks, gesture>>

\* A search without a range, or an entry of the library, which takes the
\* results away.
Ask(keep) ==
  /\ click = -1 /\ search' = NoRange /\ range' = (IF keep THEN range ELSE NoRange)
  /\ RenderTimeline(range', NoRange)
  /\ UNCHANGED <<clicks, gesture>>

\* onTimelineSelect
Select(r) ==
  /\ search' = r /\ choices' = choices + 1
  /\ RenderTimeline(range, r)
-----------------------------------------------------------------------------
(* The pointer. *)

\* pointerdown of the first button, on the bar under it or between range.  A
\* second finger takes the drag over.
Press(p, x, onBar) ==
  /\ click = -1 /\ range # NoRange
  /\ pressed' = IF onBar /\ x < Bars THEN Bar(x, range) ELSE NoBar
  /\ start' = x /\ pointer' = p /\ mark' = TRUE
  /\ choices' = 0 /\ meant' = TimeAt(x, range)
  /\ UNCHANGED <<range, search, shade, clicks, cursor>>

\* pointermove of the pointer that drags
Drag(p) ==
  /\ click = -1 /\ start # -1 /\ pointer = p
  /\ mark' = (range # NoRange)
  /\ UNCHANGED <<range, search, shade, gesture, clicks, cursor>>

\* Slip: the mark stays where it was.
CleanupForgettingMark ==
  start' = -1 /\ pointer' = NoPointer /\ pressed' = NoBar /\ mark' = mark

\* cleanupTimelineDrag
Cleanup == start' = -1 /\ pointer' = NoPointer /\ pressed' = NoBar /\ mark' = FALSE

\* Slip: the click that follows is not suppressed.
SuppressNothing(x) ==
  /\ UNCHANGED <<suppress, timers>>
  /\ click' \in (IF ClickOnBar /\ x < Bars THEN {-1, x} ELSE {-1})

\* The browser may send a click to the bar under the pointer at once.
Suppress(x) ==
  /\ suppress' = TRUE /\ timers' = timers + 1
  /\ click' \in (IF ClickOnBar /\ x < Bars THEN {-1, x} ELSE {-1})

\* Slip: from where it began to where it ended.
DraggedFromTo(a, b) == [from |-> TimeAt(a, range), to |-> TimeAt(b, range)]

\* What a drag covers, by the range of the last answer.
Dragged(a, b) ==
  [from |-> TimeAt(IF a < b THEN a ELSE b, range), to |-> TimeAt(IF a < b THEN b ELSE a, range)]

\* pointerup, less than four pixels from the press: the bar that was pressed
ReleaseOnBar(p) ==
  /\ click = -1 /\ start # -1 /\ pointer = p /\ timers < MaxTimers
  /\ IF pressed = NoBar
     THEN /\ Cleanup /\ UNCHANGED <<range, search, shade, clicks, cursor, choices>>
     ELSE /\ start' = -1 /\ pointer' = NoPointer /\ pressed' = NoBar
          /\ Suppress(start) /\ Select(Bucket(pressed)) /\ UNCHANGED range
  /\ UNCHANGED meant

\* pointerup after a drag
ReleaseDrag(p, x) ==
  /\ click = -1 /\ start # -1 /\ pointer = p /\ x # start /\ timers < MaxTimers
  /\ IF range = NoRange
     THEN /\ Cleanup /\ UNCHANGED <<search, shade, clicks, cursor, choices>>
     ELSE /\ start' = -1 /\ pointer' = NoPointer /\ pressed' = NoBar
          /\ Suppress(x) /\ Select(Dragged(start, x))
  /\ UNCHANGED <<range, meant>>

\* pointercancel, of whichever pointer
Cancel ==
  /\ click = -1 /\ start # -1 /\ Cleanup
  /\ UNCHANGED <<range, search, shade, clicks, cursor, choices, meant>>

SuppressTimer ==
  /\ click = -1 /\ timers > 0 /\ timers' = timers - 1 /\ suppress' = FALSE
  /\ UNCHANGED <<range, search, shade, gesture, mark, click, cursor>>

\* The click the release brings about, on a bar of the chart as drawn now.
ClickBar ==
  /\ click # -1 /\ click' = -1
  /\ IF suppress \/ range = NoRange
     THEN UNCHANGED <<search, shade, mark, cursor, choices>>
     ELSE Select(Bucket(Bar(click, range)))
  /\ UNCHANGED <<range, start, pointer, pressed, meant, suppress, timers>>

\* Enter or Space on a bar that has the focus
KeyOnBar(i) ==
  /\ click = -1 /\ start = -1 /\ range # NoRange /\ ~suppress
  /\ search' = Bucket(Bar(i, range)) /\ RenderTimeline(range, search')
  /\ UNCHANGED <<range, gesture, clicks>>

\* mousemove over the chart, and the focus on a bar
PointAt(i) ==
  /\ click = -1 /\ range # NoRange /\ cursor' = CursorAt(i, range)
  /\ UNCHANGED <<range, search, shade, gesture, mark, clicks>>

\* mouseleave, unless a drag is under way
Leave ==
  /\ click = -1 /\ range # NoRange /\ start = -1 /\ cursor' = Middle(range)
  /\ UNCHANGED <<range, search, shade, gesture, mark, clicks>>

ChartNext ==
  \/ \E r \in Ranges : Answer(r)
  \/ \E keep \in BOOLEAN : Ask(keep)
  \/ \E p \in Pointers, x \in ChartPlaces :
       (\E onBar \in BOOLEAN : Press(p, x, onBar)) \/ ReleaseDrag(p, x)
  \/ \E p \in Pointers : Drag(p) \/ ReleaseOnBar(p)
  \/ Cancel \/ SuppressTimer \/ ClickBar \/ Leave
  \/ \E i \in 0 .. Bars - 1 : KeyOnBar(i) \/ PointAt(i)

ChartSpec == ChartInit /\ [][ChartNext]_chartVars
-----------------------------------------------------------------------------
(* Properties. *)

TimeRange == [from : Nat, to : Nat] \cup {NoRange}

\* Type invariant.
ChartTypeOK ==
  /\ range \in Ranges \cup {NoRange} /\ {search, shade} \subseteq TimeRange
  /\ start \in {-1} \cup ChartPlaces /\ pointer \in {NoPointer} \cup Pointers
  /\ start = -1 <=> pointer = NoPointer
  /\ pressed \in {NoBar} \cup [index : 0 .. Bars - 1, range : Ranges]
  /\ mark \in BOOLEAN /\ suppress \in BOOLEAN /\ timers \in 0 .. MaxTimers
  /\ click \in {-1} \cup ChartPlaces /\ cursor.index \in -1 .. Bars - 1
  /\ choices \in 0 .. 2 /\ meant \in Nat \cup {-1}

\* A press, with the click the browser makes of it, chooses one range at most.
ChoosesOnce == choices <= 1

\* A range that is searched is not empty or reversed, whichever way the pointer
\* was dragged and whatever answers came meanwhile.
SearchesForwards == search # NoRange => search.from < search.to

\* The part marked as searched lies within the chart, also when the search has
\* a range the answer on the screen has not.
ShadeInChart == range # NoRange => range.from <= shade.from /\ shade.from <= shade.to
                                  /\ shade.to <= range.to

\* The badge tells the bucket the cursor is at, in the chart as drawn.
BadgeTellsCursor == range # NoRange => cursor = CursorAt(cursor.index, range)

\* The mark of a drag does not outlive it.
MarkIsOfDrag == mark => start # -1

\* A press, with the click the browser makes of it, chooses one range at most,
\* which is not empty or reversed; the shade, the badge and the mark of a drag
\* are those of the chart as drawn.
ChartAgrees ==
  /\ ChartTypeOK /\ ChoosesOnce /\ SearchesForwards
  /\ ShadeInChart /\ BadgeTellsCursor /\ MarkIsOfDrag

\* README: "drag across a range to change the time range": what was under the
\* pointer at the press is an end of the range.
DragChoosesShown ==
  [][\A p \in Pointers, x \in ChartPlaces :
       ReleaseDrag(p, x) /\ range # NoRange => meant \in {search'.from, search'.to}]_chartVars
=============================================================================
