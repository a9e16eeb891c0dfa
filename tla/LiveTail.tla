------------------------------ MODULE LiveTail ------------------------------
(***************************************************************************)
(* Live streaming from the Hub to browsers: batches that are committed and *)
(* published (src/internal/ingest/service.go), the Broker                  *)
(* (src/internal/logstream/broker.go), the handler of /api/tail            *)
(* (src/internal/httpserver/tail.go) and the search before it.             *)
(*                                                                         *)
(* Ingest publishes after the commit, entry by entry; a browser searches,  *)
(* and subscribes when it has the answer.  Queries are left out: entries   *)
(* are those that match.                                                   *)
(***************************************************************************)
EXTENDS Naturals, Sequences, FiniteSets, SequencesExt

CONSTANTS
  Entries,
  Hosts,
  AgentOf,   \* the Agent each entry comes from
  Viewers,   \* browser pages
  Conns,     \* bound: connections to /api/tail
  Buffer,    \* defaultSubscriptionBuffer
  MaxSeen,   \* maxSeenEntries
  MaxTime,   \* bound: the clock
  MaxBreaks, \* bound: lost connections and restarts of the Hub
  Nil

LiveTailAssumption ==
  /\ IsFiniteSet(Entries) /\ AgentOf \in [Entries -> Hosts]
  /\ Nil \notin Conns \cup Viewers \cup Nat
  /\ Buffer \in Nat \ {0} /\ MaxSeen \in Nat \ {0} /\ MaxTime \in Nat /\ MaxBreaks \in Nat

VARIABLES
  clock,
  stamp,    \* when each entry was written, or Nil
  committed, \* the entries in the table logs
  ingest,   \* of each Agent's batch, what is still to be published
  seen,     \* the Broker's seenOrder
  subs,     \* the Broker's subscribers
  conn,     \* connections: the subscription's channel and the handler
  viewer,   \* pages: how far they are, what they show
  panicked, \* was there a send on a closed channel?
  breaks

tailVars == <<clock, stamp, committed, ingest, seen, subs, conn, viewer, panicked, breaks>>

\* had, new, came and overflow are history: what the channel was given, what was
\* committed since the search and since the subscription, and what found the
\* channel full.
FreeConn == [viewer |-> Nil, since |-> 0, buf |-> <<>>, had |-> {}, closed |-> FALSE,
         gone |-> FALSE, handler |-> "none"]

NewPage == [phase |-> "searching", conn |-> Nil, since |-> 0, shown |-> {},
            new |-> {}, came |-> {}, overflow |-> {}]

TailInit ==
  /\ clock = 0 /\ stamp = [e \in Entries |-> Nil] /\ committed = {}
  /\ ingest = [a \in Hosts |-> <<>>] /\ seen = <<>> /\ subs = {}
  /\ conn = [c \in Conns |-> FreeConn] /\ viewer = [v \in Viewers |-> NewPage]
  /\ panicked = FALSE /\ breaks = 0

Break == breaks < MaxBreaks /\ breaks' = breaks + 1

Connected(v) == viewer[v].phase = "connected"
-----------------------------------------------------------------------------
(* External: time, and containers that write.                              *)

TailTick ==
  /\ clock < MaxTime /\ clock' = clock + 1
  /\ UNCHANGED <<stamp, committed, ingest, seen, subs, conn, viewer, panicked, breaks>>

Log(e) ==
  /\ stamp[e] = Nil /\ stamp' = [stamp EXCEPT ![e] = clock]
  /\ UNCHANGED <<clock, committed, ingest, seen, subs, conn, viewer, panicked, breaks>>
-----------------------------------------------------------------------------
(* The Hub.                                                                *)

\* The batches an Agent may send, in the order in which it collected the entries.
Batches == SetToAllKPermutations(Entries) \ {<<>>}

\* Ingest: WriteBatch commits some of what an Agent has written so far, entries
\* included that the Agent collected once more and that are stored.
Commit(a, batch) ==
  /\ ingest[a] = <<>>
  /\ \A e \in ToSet(batch) : AgentOf[e] = a /\ stamp[e] # Nil
  /\ committed' = committed \cup ToSet(batch)
  /\ ingest' = [ingest EXCEPT ![a] = batch]
  /\ LET fresh == ToSet(batch) \ committed
     IN viewer' = [v \in Viewers |->
          [viewer[v] EXCEPT !.new = IF viewer[v].phase = "searching" THEN @ ELSE @ \cup fresh,
                            !.came = IF Connected(v) THEN @ \cup fresh ELSE @]]
  /\ UNCHANGED <<clock, stamp, seen, subs, conn, panicked, breaks>>

\* Slip: the instant of the search itself is left out.
MatchesAfter(c, e) == stamp[e] > conn[c].since

\* subscriber.matches
Matches(c, e) == stamp[e] >= conn[c].since

\* Slip: one more than the buffer holds.
FullAfter(c) == Len(conn[c].buf) > Buffer

Full(c) == Len(conn[c].buf) >= Buffer

Remember(e) == IF Len(seen) >= MaxSeen THEN Append(Tail(seen), e) ELSE Append(seen, e)

\* Slip: an entry is published as often as it is committed.
OwnersOf(e) == {c \in subs : Matches(c, e)}

Owners(e) == {c \in subs : ~Contains(seen, e) /\ Matches(c, e)}

\* Broker.Publish, under the Broker's lock: nobody is waited for.
Publish(a) ==
  /\ ingest[a] # <<>>
  /\ LET e      == Head(ingest[a])
         owners == Owners(e)
     IN /\ ingest' = [ingest EXCEPT ![a] = Tail(@)]
        /\ seen' = IF Contains(seen, e) THEN seen ELSE Remember(e)
        /\ conn' = [c \in Conns |->
             IF c \in owners /\ ~Full(c)
             THEN [conn[c] EXCEPT !.buf = Append(@, e), !.had = @ \cup {e}] ELSE conn[c]]
        /\ viewer' = [v \in Viewers |->
             IF viewer[v].conn \in owners /\ Full(viewer[v].conn)
             THEN [viewer[v] EXCEPT !.overflow = @ \cup {e}] ELSE viewer[v]]
        /\ panicked' = (panicked \/ \E c \in owners : conn[c].closed)
  /\ UNCHANGED <<clock, stamp, committed, subs, breaks>>

\* handleTail and Broker.Subscribe.
SubscribeTail(v, c) ==
  /\ viewer[v].phase \in {"answered", "dropped"} /\ conn[c] = FreeConn
  /\ conn' = [conn EXCEPT ![c] = [FreeConn EXCEPT !.viewer = v, !.since = viewer[v].since,
                                              !.handler = "loop"]]
  /\ subs' = subs \cup {c}
  /\ viewer' = [viewer EXCEPT ![v].phase = "connected", ![v].conn = c]
  /\ UNCHANGED <<clock, stamp, committed, ingest, seen, panicked, breaks>>

\* Slip: the instant of the search itself is left out.
PassesAfter(c, e) == stamp[e] > conn[c].since

Passes(c, e) == stamp[e] >= conn[c].since

Received(c) == [conn[c] EXCEPT !.buf = Tail(@)]

\* The handler takes an entry and sends it.  What is sent to nobody may fail,
\* which ends the handler, or be lost.
Take(c) ==
  /\ conn[c].handler = "loop" /\ conn[c].buf # <<>>
  /\ IF Passes(c, Head(conn[c].buf))
     THEN \/ /\ ~conn[c].gone /\ conn' = [conn EXCEPT ![c] = Received(c)]
             /\ viewer' = [viewer EXCEPT ![conn[c].viewer].shown = @ \cup {Head(conn[c].buf)}]
          \/ /\ conn[c].gone /\ UNCHANGED viewer
             /\ \E how \in {"loop", "ended"} :
                  conn' = [conn EXCEPT ![c] = [Received(c) EXCEPT !.handler = how]]
     ELSE conn' = [conn EXCEPT ![c] = Received(c)] /\ UNCHANGED viewer
  /\ UNCHANGED <<clock, stamp, committed, ingest, seen, subs, panicked, breaks>>

\* The request's context is done, or the channel is closed and empty.
Quit(c) ==
  /\ conn[c].handler = "loop" /\ (conn[c].gone \/ (conn[c].closed /\ conn[c].buf = <<>>))
  /\ conn' = [conn EXCEPT ![c].handler = "ended"]
  /\ UNCHANGED <<clock, stamp, committed, ingest, seen, subs, viewer, panicked, breaks>>

\* Slip: nobody watches the request's context, and the handler neither.
EndsOnSend(c) == conn[c].handler = "ended" /\ conn[c].buf # <<>>

\* Who closes a subscription: the goroutine that watches the request's context,
\* and the handler as it returns.
Ends(c) == conn[c].gone \/ conn[c].handler = "ended"

\* closeSubscription takes it from the map, under the lock ...
Unsubscribe(c) ==
  /\ Ends(c) /\ c \in subs /\ subs' = subs \ {c}
  /\ UNCHANGED <<clock, stamp, committed, ingest, seen, conn, viewer, panicked, breaks>>

\* Slip: the channel is closed first.
CloseAnytime(c) ==
  /\ Ends(c) /\ ~conn[c].closed
  /\ conn' = [conn EXCEPT ![c].closed = TRUE]
  /\ UNCHANGED <<clock, stamp, committed, ingest, seen, subs, viewer, panicked, breaks>>

\* ... and then closes its channel.
CloseChannel(c) ==
  /\ Ends(c) /\ c \notin subs /\ ~conn[c].closed
  /\ conn' = [conn EXCEPT ![c].closed = TRUE]
  /\ UNCHANGED <<clock, stamp, committed, ingest, seen, subs, viewer, panicked, breaks>>

Release(c) ==
  /\ conn[c].closed /\ conn[c].handler = "ended" /\ c \notin subs
  /\ conn' = [conn EXCEPT ![c] = FreeConn]
  /\ UNCHANGED <<clock, stamp, committed, ingest, seen, subs, viewer, panicked, breaks>>

Lost(v) == [viewer[v] EXCEPT !.phase = "dropped", !.conn = Nil, !.came = {}]

\* The Hub dies with its Broker, and with what it had still to publish.
BrokerDies ==
  /\ Break
  /\ ingest' = [a \in Hosts |-> <<>>] /\ seen' = <<>> /\ subs' = {}
  /\ conn' = [c \in Conns |-> FreeConn]
  /\ viewer' = [v \in Viewers |-> IF Connected(v) THEN Lost(v) ELSE viewer[v]]
  /\ UNCHANGED <<clock, stamp, committed, panicked>>
-----------------------------------------------------------------------------
(* The browser.                                                            *)

\* SearchEntries reads the table ...
Search(v) ==
  /\ viewer[v].phase = "searching"
  /\ viewer' = [viewer EXCEPT ![v].phase = "read", ![v].shown = committed]
  /\ UNCHANGED <<clock, stamp, committed, ingest, seen, subs, conn, panicked, breaks>>

\* ... and the answer says when it was made.
AnswerSearch(v) ==
  /\ viewer[v].phase = "read"
  /\ viewer' = [viewer EXCEPT ![v].phase = "answered", ![v].since = clock]
  /\ UNCHANGED <<clock, stamp, committed, ingest, seen, subs, conn, panicked, breaks>>

Hangup(v) == conn' = [conn EXCEPT ![viewer[v].conn].gone = TRUE]

\* The connection is lost; the EventSource opens the same URL again.
Drop(v) ==
  /\ Connected(v) /\ Break /\ Hangup(v) /\ viewer' = [viewer EXCEPT ![v] = Lost(v)]
  /\ UNCHANGED <<clock, stamp, committed, ingest, seen, subs, panicked>>

\* closeTail; a search that streams again begins a new page.
CloseTail(v) ==
  /\ Connected(v) /\ Break /\ Hangup(v) /\ viewer' = [viewer EXCEPT ![v] = NewPage]
  /\ UNCHANGED <<clock, stamp, committed, ingest, seen, subs, panicked>>

Handler(c) == Take(c) \/ Quit(c)

TailNext ==
  \/ TailTick \/ BrokerDies
  \/ \E e \in Entries : Log(e)
  \/ \E a \in Hosts : Publish(a) \/ \E batch \in Batches : Commit(a, batch)
  \/ \E v \in Viewers : Search(v) \/ AnswerSearch(v) \/ Drop(v) \/ CloseTail(v)
  \/ \E v \in Viewers, c \in Conns : SubscribeTail(v, c)
  \/ \E c \in Conns : Handler(c) \/ Unsubscribe(c) \/ CloseChannel(c) \/ Release(c)

TailSpec == TailInit /\ [][TailNext]_tailVars

\* The Hub's goroutines go on; that a handler takes the next entry assumes that a
\* browser which is there reads what it is sent.
TailFairness ==
  /\ \A a \in Hosts : WF_tailVars(Publish(a))
  /\ \A c \in Conns : /\ WF_tailVars(Handler(c)) /\ WF_tailVars(Unsubscribe(c))
                      /\ WF_tailVars(CloseChannel(c)) /\ WF_tailVars(Release(c))

TailFairSpec == TailSpec /\ TailFairness
-----------------------------------------------------------------------------
\* The variables have their types, and only connections of pages are subscribed.
TailTypeOK ==
  /\ clock \in 0..MaxTime /\ stamp \in [Entries -> 0..MaxTime \cup {Nil}]
  /\ committed \subseteq Entries /\ ingest \in [Hosts -> Seq(Entries)] /\ seen \in Seq(Entries)
  /\ Len(seen) <= MaxSeen /\ subs \subseteq Conns
  /\ conn \in [Conns -> [viewer : Viewers \cup {Nil}, since : 0..MaxTime, buf : Seq(Entries),
                         had : SUBSET Entries, closed : BOOLEAN, gone : BOOLEAN,
                         handler : {"none", "loop", "ended"}]]
  /\ \A c \in Conns : Len(conn[c].buf) <= Buffer /\ (c \in subs => conn[c].viewer # Nil)
  /\ viewer \in [Viewers -> [phase : {"searching", "read", "answered", "connected", "dropped"},
                             conn : Conns \cup {Nil}, since : 0..MaxTime, shown : SUBSET Entries,
                             new : SUBSET Entries, came : SUBSET Entries,
                             overflow : SUBSET Entries]]
  /\ panicked \in BOOLEAN /\ breaks \in 0..MaxBreaks

\* What a page has of the entries: it shows them, or they are on their way, or
\* its channel was full for them.
Underway == UNION {ToSet(ingest[a]) : a \in Hosts}

Has(v) == viewer[v].shown \cup ToSet(conn[viewer[v].conn].buf) \cup Underway \cup viewer[v].overflow

WrittenSince(v) == {e \in Entries : stamp[e] # Nil /\ stamp[e] >= viewer[v].since}

\* No goroutine of the Hub sends to a channel that is closed, however
\* publications and ends of connections fall together (closeSubscription).
NeverSendsOnClosed == ~panicked

\* What is written after the search and committed while the page is connected
\* reaches it, unless its channel is full (Ingest, Publish, handleTail).
RecentReach == \A v \in Viewers : Connected(v) => viewer[v].came \cap WrittenSince(v) \subseteq Has(v)

\* No send on a closed channel, and what is recent reaches the pages.
TailSound == TailTypeOK /\ NeverSendsOnClosed /\ RecentReach

\* A page is sent an entry once in a connection, although an Agent delivers it
\* again in another batch: the Broker remembers the last maxSeenEntries (Publish).
SentOnce ==
  [][Cardinality(Entries) <= MaxSeen =>
       \A c \in Conns :
         Len(conn'[c].buf) > Len(conn[c].buf) => Last(conn'[c].buf) \notin conn[c].had]_tailVars

\* What is committed while the page is connected reaches it, also what was
\* written before its search (Ingest, Publish).
CameReach == \A v \in Viewers : Connected(v) => viewer[v].came \subseteq Has(v)

\* What is written and committed after the search reaches a page that was not
\* interrupted.
NewReach ==
  \A v \in Viewers : Connected(v) /\ breaks = 0 => viewer[v].new \cap WrittenSince(v) \subseteq Has(v)

\* What is in the channel of a connected page is shown, unless it is cut off.
BufferedIsShown ==
  \A v \in Viewers, e \in Entries :
    Connected(v) /\ Contains(conn[viewer[v].conn].buf, e) ~> e \in viewer[v].shown \/ ~Connected(v)

\* A connection that is gone leaves the Broker and is free again, although
\* nothing may be sent to it ever again.
GoneIsReleased == \A c \in Conns : conn[c].gone ~> c \notin subs /\ conn[c] = FreeConn
=============================================================================
