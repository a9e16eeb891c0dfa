----------------------------- MODULE LogStream ------------------------------
(***************************************************************************)
(* The Agent's shared follow streams (internal/logstream/manager.go).      *)
(*                                                                         *)
(* A Manager keeps one stream per container and the subscribers attached   *)
(* to it.  Three kinds of goroutine meet in it: the subscriber's own       *)
(* ("main": runCollection of internal/agent/agent.go, which subscribes,    *)
(* refreshes and closes), one per subscription that waits for its context  *)
(* ("ctx"), and one watch per started stream, which follows the            *)
(* container's log.  A step is what happens under one lock, or one call.   *)
(*                                                                         *)
(* A line is its position in `log', which is also its time; PerSecond      *)
(* lines share a second, the resolution of FollowLogs' `since'.            *)
(***************************************************************************)
EXTENDS Integers, Sequences, FiniteSets

CONSTANTS
  Containers,
  Owners,       \* subscribers, each opened and closed once
  MaxOpen,      \* how many may overlap: the Agent opens one at a time
  Copies,       \* bound: stream objects of one container alive at once
  MaxSeen,      \* maxSeenEntries
  PerSecond,
  MaxLines      \* bound: lines written

ASSUME LogStreamAssumption ==
  /\ MaxOpen \in Nat /\ Copies \in Nat /\ MaxLines \in Nat
  /\ MaxSeen \in Nat \ {0}
  /\ PerSecond \in Nat \ {0}

Streams == Containers \X (1 .. Copies)
Threads == Owners \X {"main", "ctx"}

VARIABLES
  docker,      \* external: what each container is
  log,         \* external: the container of every line, oldest first
  table,       \* Manager.streams, the values of the map
  registered,  \* Manager.subscribers
  stream,      \* the stream objects
  thread,      \* the goroutines of the subscribers
  since,       \* subscriber.since
  closed,      \* the subscribers whose channels are closed
  stopped,     \* has the context of the process ended?
  crashed      \* has the process panicked?

world   == <<docker, log>>
manager == <<table, registered>>
owners  == <<since, closed>>
vars    == <<world, manager, stream, thread, owners, stopped, crashed>>

Now == Len(log) + 1

\* A stream object: `shown' is the history of what it published; `pos' is the
\* next line its FollowLogs call delivers.
Stream == [subs : SUBSET Owners, started : BOOLEAN, cancelled : BOOLEAN, since : Nat,
           shown : Seq(Int), pos : Int,
           watch : {"none", "check", "connect", "follow", "pause", "leave", "gone"}]

NewStream(os, time) ==
  [subs |-> os, started |-> FALSE, cancelled |-> FALSE, since |-> time,
   shown |-> <<>>, pos |-> 1, watch |-> "none"]

\* A goroutine: where it is, the containers it listed, and the streams it has
\* still to cancel and to start.
Thread == [pc : {"none", "idle", "listed", "settling", "consuming", "relisted",
                 "waiting", "closing", "detached", "gone"},
           listing : SUBSET Containers, cancel : SUBSET Streams, start : SUBSET Streams]

Main(o) == <<o, "main">>
Ctx(o)  == <<o, "ctx">>
At(t, pc) == thread[t].pc = pc
Resting(pc) == [pc |-> pc, listing |-> {}, cancel |-> {}, start |-> {}]

Init ==
  /\ docker \in [Containers -> {"running", "stopped"}] /\ log = <<>>
  /\ table = {} /\ registered = {}
  /\ stream = [s \in Streams |-> NewStream({}, 1)]
  /\ thread = [t \in Threads |-> Resting(IF t[2] = "main" THEN "idle" ELSE "none")]
  /\ since = [o \in Owners |-> 1] /\ closed = {}
  /\ stopped = FALSE /\ crashed = FALSE

ContainerOf(s) == s[1]

\* Slip: the cache evicts one line too early.
SeenTooFew(s) ==
  LET shown == stream[s].shown
  IN  {shown[i] : i \in {j \in DOMAIN shown : j > Len(shown) - MaxSeen + 1}}

\* stream.seen: the last MaxSeen lines published.
Seen(s) ==
  LET shown == stream[s].shown
  IN  {shown[i] : i \in {j \in DOMAIN shown : j > Len(shown) - MaxSeen}}

\* stream.lastSeen
LastSeen(s) ==
  LET times == {stream[s].since} \cup {stream[s].shown[i] : i \in DOMAIN stream[s].shown}
  IN  CHOOSE t \in times : \A u \in times : u <= t

\* since.Unix(): the first line that has the second of line n.
SecondOf(n) == n - ((n - 1) % PerSecond)

-----------------------------------------------------------------------------
(***************************************************************************)
(* Docker, and the end of the process.                                     *)
(***************************************************************************)
\* A container stops, starts again, or is removed for good.
Change(c) ==
  /\ docker[c] # "removed"
  /\ \E d \in {"running", "stopped", "removed"} \ {docker[c]} :
       docker' = [docker EXCEPT ![c] = d]
  /\ UNCHANGED <<log, manager, stream, thread, owners, stopped, crashed>>

WriteLine(c) ==
  /\ docker[c] = "running"
  /\ Len(log) < MaxLines
  /\ log' = Append(log, c)
  /\ UNCHANGED <<docker, manager, stream, thread, owners, stopped, crashed>>

\* SIGTERM: the context given to Subscribe and Refresh ends.
Stop ==
  /\ ~ stopped
  /\ stopped' = TRUE
  /\ UNCHANGED <<world, manager, stream, thread, owners, crashed>>

-----------------------------------------------------------------------------
(***************************************************************************)
(* Subscribe and Refresh, called by the main goroutine.                    *)
(***************************************************************************)
Open == {o \in Owners : thread[Main(o)].pc \notin {"idle", "gone"}}

\* listRunning and ShouldCollect.  A listing that fails, always so once the
\* context has ended, makes its caller return with nothing changed.
Running == {c \in Containers : docker[c] = "running"}

\* SubscribeWithNodes before its lock.
List(o) ==
  /\ At(Main(o), "idle")
  /\ Cardinality(Open) < MaxOpen
  /\ ~ stopped
  /\ thread' = [thread EXCEPT ![Main(o)] = [Resting("listed") EXCEPT !.listing = Running]]
  /\ since' = [since EXCEPT ![o] = Now]
  /\ UNCHANGED <<world, manager, stream, closed, stopped, crashed>>

\* Does nothing refer to the stream object any more?
Garbage(s) ==
  /\ s \notin table
  /\ stream[s].watch \in {"none", "gone"}
  /\ \A t \in Threads : s \notin thread[t].cancel \cup thread[t].start

\* getOrCreateStreamLocked for the containers cs: the streams it creates.
Missing(cs) == {c \in cs : \A s \in table : ContainerOf(s) # c}

\* Slip: streams are created without looking them up.
CreatedAnew(cs) ==
  {s \in cs \X (1 .. Copies) :
     Garbage(s) /\ \A k \in 1 .. s[2] - 1 : ~ Garbage(<<s[1], k>>)}

Created(cs) ==
  {s \in Missing(cs) \X (1 .. Copies) :
     Garbage(s) /\ \A k \in 1 .. s[2] - 1 : ~ Garbage(<<s[1], k>>)}
CanCreate(cs) == \A c \in Missing(cs) : \E k \in 1 .. Copies : Garbage(<<c, k>>)

\* Slip: a stream of another call is left to that call.
UnstartedIgnored(ss) == {}

Unstarted(ss) == {s \in ss : ~ stream[s].started}

\* SubscribeWithNodes under its lock: register, then join the stream of every
\* listed container; those created or not yet started are to be started.
Register(o) ==
  LET listing == thread[Main(o)].listing
      new     == Created(listing)
      joined  == {s \in table : ContainerOf(s) \in listing}
  IN  /\ At(Main(o), "listed")
      /\ CanCreate(listing)
      /\ registered' = registered \cup {o}
      /\ table' = table \cup new
      /\ stream' = [s \in Streams |->
                      IF s \in new THEN NewStream({o}, since[o])
                      ELSE IF s \in joined THEN [stream[s] EXCEPT !.subs = @ \cup {o}]
                      ELSE stream[s]]
      /\ thread' = [thread EXCEPT ![Main(o)] =
                      [Resting("settling") EXCEPT
                         !.start = new \cup Unstarted(joined)]]
      /\ UNCHANGED <<world, owners, stopped, crashed>>

\* Slip: the stream is not cancelled.
CancelNextNothing(t) ==
  \E s \in thread[t].cancel :
    /\ thread' = [thread EXCEPT ![t].cancel = @ \ {s}]
    /\ UNCHANGED <<world, manager, stream, owners, stopped, crashed>>

\* current.cancel(), one stream at a time.
CancelNext(t) ==
  \E s \in thread[t].cancel :
    /\ stream' = [stream EXCEPT ![s].cancelled = TRUE]
    /\ thread' = [thread EXCEPT ![t].cancel = @ \ {s}]
    /\ UNCHANGED <<world, manager, owners, stopped, crashed>>

\* startStream, one stream at a time, after the cancellations.
StartNext(t) ==
  /\ thread[t].cancel = {}
  /\ \E s \in thread[t].start :
       /\ stream' = IF stream[s].started \/ stream[s].subs = {}
                    THEN stream
                    ELSE [stream EXCEPT ![s].started = TRUE, ![s].watch = "check"]
       /\ thread' = [thread EXCEPT ![t].start = @ \ {s}]
  /\ UNCHANGED <<world, manager, owners, stopped, crashed>>

\* Subscribe or Refresh returns; Subscribe first spawns the ctx goroutine.
Settled(o) ==
  /\ At(Main(o), "settling")
  /\ thread[Main(o)].cancel = {} /\ thread[Main(o)].start = {}
  /\ thread' = [thread EXCEPT
                  ![Main(o)] = Resting("consuming"),
                  ![Ctx(o)].pc = IF @ = "none" THEN "waiting" ELSE @]
  /\ UNCHANGED <<world, manager, stream, owners, stopped, crashed>>

\* discoveryTicker fires: Refresh before its lock.
Relist(o) ==
  /\ At(Main(o), "consuming")
  /\ ~ stopped
  /\ thread' = [thread EXCEPT ![Main(o)] = [Resting("relisted") EXCEPT !.listing = Running]]
  /\ UNCHANGED <<world, manager, stream, owners, stopped, crashed>>

\* Slip: streams found by Refresh get no subscriber.
MatchingNobody == {}

\* The subscribers that a new stream gets; the Agent selects every container.
Matching == registered

\* Slip: Refresh leaves its streams unstarted.
StartableNever(new) == {}

Startable(new) == IF Matching = {} THEN {} ELSE new

\* Refresh under its lock: streams whose container does not run leave the map;
\* missing streams are created and given every registered subscriber.
Reconcile(o) ==
  LET running == thread[Main(o)].listing
      stale   == {s \in table : ContainerOf(s) \notin running}
      new     == Created(running)
  IN  /\ At(Main(o), "relisted")
      /\ CanCreate(running)
      /\ table' = (table \ stale) \cup new
      /\ stream' = [s \in Streams |-> IF s \in new THEN NewStream(Matching, Now)
                                      ELSE stream[s]]
      /\ thread' = [thread EXCEPT ![Main(o)] =
                      [Resting("settling") EXCEPT !.cancel = stale, !.start = Startable(new)]]
      /\ UNCHANGED <<world, registered, owners, stopped, crashed>>

-----------------------------------------------------------------------------
(***************************************************************************)
(* Closing a subscription: by its main goroutine, or by the ctx goroutine. *)
(***************************************************************************)
\* runCollection leaves its loop: the context ended, a channel was closed, or
\* the queue or the spool failed.
Return(o) ==
  /\ At(Main(o), "consuming")
  /\ thread' = [thread EXCEPT ![Main(o)].pc = "closing"]
  /\ UNCHANGED <<world, manager, stream, owners, stopped, crashed>>

\* The select of the ctx goroutine.
Wake(o) ==
  /\ At(Ctx(o), "waiting")
  /\ \/ stopped /\ thread' = [thread EXCEPT ![Ctx(o)].pc = "closing"]
     \/ o \in closed /\ thread' = [thread EXCEPT ![Ctx(o)].pc = "gone"]
  /\ UNCHANGED <<world, manager, stream, owners, stopped, crashed>>

\* closeSubscription under its lock; the streams it empties leave the map.
Detach(t) ==
  LET o       == t[1]
      emptied == {s \in table : stream[s].subs \subseteq {o}}
  IN  /\ At(t, "closing")
      /\ registered' = registered \ {o}
      /\ table' = table \ emptied
      /\ stream' = [s \in Streams |-> IF s \in table THEN [stream[s] EXCEPT !.subs = @ \ {o}]
                                      ELSE stream[s]]
      /\ thread' = [thread EXCEPT ![t] = [Resting("detached") EXCEPT !.cancel = emptied]]
      /\ UNCHANGED <<world, owners, stopped, crashed>>

\* Slip: the channels are closed before the subscriber is detached.
CloseChannelsFirst(t) ==
  /\ \/ At(t, "closing") /\ t[1] \notin closed /\ UNCHANGED thread
     \/ At(t, "detached") /\ thread[t].cancel = {}
        /\ thread' = [thread EXCEPT ![t].pc = "gone"]
  /\ closed' = closed \cup {t[1]}
  /\ UNCHANGED <<world, manager, stream, since, stopped, crashed>>

\* owner.close(), after the cancellations.
CloseChannels(t) ==
  /\ At(t, "detached") /\ thread[t].cancel = {}
  /\ closed' = closed \cup {t[1]}
  /\ thread' = [thread EXCEPT ![t].pc = "gone"]
  /\ UNCHANGED <<world, manager, stream, since, stopped, crashed>>

\* Manager.Close, deferred by Agent.Run, which returns between subscriptions.
CloseManager ==
  /\ stopped /\ Open = {}
  /\ table # {} \/ \E s \in Streams : ~ stream[s].cancelled
  /\ table' = {}
  /\ stream' = [s \in Streams |-> [stream[s] EXCEPT !.cancelled = TRUE]]
  /\ UNCHANGED <<world, registered, thread, owners, stopped, crashed>>

-----------------------------------------------------------------------------
(***************************************************************************)
(* watch, the goroutine of a started stream.                               *)
(***************************************************************************)
\* A select that may send on a closed channel or see `done' closed picks
\* either; the send panics.
Send(os) == crashed' \in (IF os \cap closed = {} THEN {FALSE} ELSE BOOLEAN)

Check(s) ==
  /\ stream[s].watch = "check"
  /\ stream' = [stream EXCEPT ![s].watch = IF stream[s].subs = {} THEN "leave" ELSE "connect"]
  /\ UNCHANGED <<world, manager, thread, owners, stopped, crashed>>

\* FollowLogs is answered.  Docker is asked for lines from the second of
\* lastSeen on and for no old line (tail=0): it may start anywhere between.
Connect(s) ==
  /\ stream[s].watch = "connect"
  /\ ~ stream[s].cancelled
  /\ docker[ContainerOf(s)] # "removed"
  /\ \E n \in SecondOf(LastSeen(s)) .. Now :
       stream' = [stream EXCEPT ![s].watch = "follow", ![s].pos = n]
  /\ UNCHANGED <<world, manager, thread, owners, stopped, crashed>>

\* Slip: watch looks at the error, not at its context.
RefuseRetriesCancelled(s) ==
  /\ stream[s].watch = "connect"
  /\ IF docker[ContainerOf(s)] = "removed"
     THEN stream' = [stream EXCEPT ![s].watch = "leave"] /\ UNCHANGED crashed
     ELSE stream' = [stream EXCEPT ![s].watch = "pause"] /\ Send(stream[s].subs)
  /\ UNCHANGED <<world, manager, thread, owners, stopped>>

\* FollowLogs fails: cancelled, not found, or an error to publish.
Refuse(s) ==
  /\ stream[s].watch = "connect"
  /\ IF stream[s].cancelled \/ docker[ContainerOf(s)] = "removed"
     THEN stream' = [stream EXCEPT ![s].watch = "leave"] /\ UNCHANGED crashed
     ELSE stream' = [stream EXCEPT ![s].watch = "pause"] /\ Send(stream[s].subs)
  /\ UNCHANGED <<world, manager, thread, owners, stopped>>

\* FollowLogs hands over a line: publish it unless seen.  Frames already read
\* are still handed over after a cancellation.
Deliver(s) ==
  /\ stream[s].watch = "follow"
  /\ \E n \in stream[s].pos .. Len(log) :
       /\ log[n] = ContainerOf(s)
       /\ \A m \in stream[s].pos .. n - 1 : log[m] # ContainerOf(s)
       /\ IF n \in Seen(s)
          THEN stream' = [stream EXCEPT ![s].pos = n + 1] /\ UNCHANGED crashed
          ELSE /\ stream' = [stream EXCEPT ![s].pos = n + 1, ![s].shown = Append(@, n)]
               /\ Send({o \in stream[s].subs : n >= since[o]})
  /\ UNCHANGED <<world, manager, thread, owners, stopped>>

\* FollowLogs returns: cancelled, or the connection ended, with an error or not.
Disconnect(s) ==
  /\ stream[s].watch = "follow"
  /\ IF stream[s].cancelled
     THEN stream' = [stream EXCEPT ![s].watch = "leave"] /\ UNCHANGED crashed
     ELSE /\ stream' = [stream EXCEPT ![s].watch = "pause"]
          /\ UNCHANGED crashed \/ Send(stream[s].subs)
  /\ UNCHANGED <<world, manager, thread, owners, stopped>>

\* The retry timer fires, or the stream was cancelled.
Resume(s) ==
  /\ stream[s].watch = "pause"
  /\ \/ stream' = [stream EXCEPT ![s].watch = "check"]
     \/ stream[s].cancelled /\ stream' = [stream EXCEPT ![s].watch = "leave"]
  /\ UNCHANGED <<world, manager, thread, owners, stopped, crashed>>

\* Slip: nothing is deferred.
LeaveInMap(s) ==
  /\ stream[s].watch = "leave"
  /\ stream' = [stream EXCEPT ![s].watch = "gone"]
  /\ UNCHANGED <<world, manager, thread, owners, stopped, crashed>>

\* The deferred function: leave the map, if this stream is still in it.
Leave(s) ==
  /\ stream[s].watch = "leave"
  /\ table' = table \ {s}
  /\ stream' = [stream EXCEPT ![s].watch = "gone"]
  /\ UNCHANGED <<world, registered, thread, owners, stopped, crashed>>

-----------------------------------------------------------------------------
MainStep(o) == List(o) \/ Register(o) \/ Settled(o) \/ Relist(o) \/ Reconcile(o) \/ Return(o) \/ Wake(o)
ThreadStep(t) == CancelNext(t) \/ StartNext(t) \/ Detach(t) \/ CloseChannels(t)
WatchStep(s) ==
  Check(s) \/ Connect(s) \/ Refuse(s) \/ Deliver(s) \/ Disconnect(s) \/ Resume(s) \/ Leave(s)

\* A panic ends the process.
Next ==
  /\ ~ crashed
  /\ \/ \E c \in Containers : Change(c) \/ WriteLine(c)
     \/ Stop \/ CloseManager
     \/ \E o \in Owners : MainStep(o)
     \/ \E t \in Threads : ThreadStep(t)
     \/ \E s \in Streams : WatchStep(s)

Spec == Init /\ [][Next]_vars

-----------------------------------------------------------------------------
(***************************************************************************)
(* Properties.                                                             *)
(***************************************************************************)
\* Every variable has its type, and the map holds one stream per container.
TypeOK ==
  /\ docker \in [Containers -> {"running", "stopped", "removed"}]
  /\ log \in Seq(Containers) /\ Len(log) <= MaxLines
  /\ table \subseteq Streams /\ registered \subseteq Owners
  /\ \A s, t \in table : ContainerOf(s) = ContainerOf(t) => s = t
  /\ stream \in [Streams -> Stream]
  /\ thread \in [Threads -> Thread]
  /\ since \in [Owners -> Nat] /\ closed \subseteq Owners
  /\ stopped \in BOOLEAN /\ crashed \in BOOLEAN

Active(s) == stream[s].watch \in {"check", "connect", "follow", "pause"}

\* A watch that is not about to be cancelled is in the map: no interleaving of
\* Refresh, closeSubscription and the ctx goroutine leaves one following a
\* container that no later call can find and cancel.
NoOrphanFollower ==
  \A s \in Streams :
    Active(s) /\ ~ stream[s].cancelled =>
      s \in table \/ \E t \in Threads : s \in thread[t].cancel

\* The map never offers a dead stream: getOrCreateStreamLocked would attach a
\* new subscriber to it, and Refresh would not replace it.
TableHoldsLiveStreams ==
  \A s \in table : ~ stream[s].cancelled /\ stream[s].watch # "gone"

\* Somebody is about to start every unstarted stream that has a subscriber:
\* two calls that meet in the map do not each leave the start to the other.
StartsPending ==
  \A s \in table :
    stream[s].subs # {} /\ ~ stream[s].started => \E t \in Threads : s \in thread[t].start

\* The map and the goroutines agree, between any two of their steps: what
\* follows can be found and cancelled, what is in the map is alive, and what
\* waits to be started will be.
WatchesAgree == NoOrphanFollower /\ TableHoldsLiveStreams /\ StartsPending

\* A stream of the map sends only to registered subscribers, whose channels are
\* open: Refresh and Subscribe never bring back one that has been closed.
MapSendsToOpenChannels ==
  /\ registered \cap closed = {}
  /\ \A s \in table : stream[s].subs \subseteq registered

\* Each container has at most one follow stream (README.md, alerts: "each
\* running container has at most one Caroline-side follow stream"), for a
\* process that, like the Agent, has one subscription at a time.
AtMostOneFollow ==
  \A s, t \in Streams :
    /\ ContainerOf(s) = ContainerOf(t)
    /\ stream[s].watch = "follow" /\ ~ stream[s].cancelled
    /\ stream[t].watch = "follow" /\ ~ stream[t].cancelled
    => s = t

\* The Agent's subscriber is attached to every stream of the map, those that
\* Refresh created included.
AttachedToAll == \A s \in table : registered \subseteq stream[s].subs

\* However often FollowLogs reconnects from the second of the last line, a
\* stream publishes no line twice, as long as the lines of one second fit the
\* seen cache.
NoLineTwice ==
  PerSecond <= MaxSeen =>
    \A s \in Streams :
      \A i, j \in DOMAIN stream[s].shown :
        stream[s].shown[i] = stream[s].shown[j] => i = j

\* The process never panics: publish and publishError look at `done' in the
\* same select, which is meant to keep them off closed channels.
NeverSendsOnClosed == ~ crashed

(***************************************************************************)
(* Goroutines that can run do run, timers fire, and Docker answers         *)
(* FollowLogs if asked again and again.                                    *)
(***************************************************************************)
Live(A) == ~ crashed /\ A

LiveSpec ==
  /\ Spec
  /\ \A o \in Owners :
       /\ WF_vars(Live(Register(o))) /\ WF_vars(Live(Settled(o)))
       /\ WF_vars(Live(Relist(o))) /\ WF_vars(Live(Reconcile(o)))
  /\ \A t \in Threads : WF_vars(Live(CancelNext(t))) /\ WF_vars(Live(StartNext(t)))
  /\ \A s \in Streams :
       /\ WF_vars(Live(Check(s))) /\ WF_vars(Live(Resume(s))) /\ WF_vars(Live(Leave(s)))
       /\ SF_vars(Live(Connect(s))) /\ WF_vars(Live(Refuse(s)))
       /\ WF_vars(Live(stream[s].cancelled /\ Disconnect(s)))

Follows(o, c) ==
  \E s \in table : ContainerOf(s) = c /\ o \in stream[s].subs /\ stream[s].watch = "follow"

\* A container that keeps running is followed, again and again, for a
\* subscriber that stays: after stops, restarts, lost connections and refreshes
\* that raced with them.
EventuallyFollowed ==
  \A o \in Owners, c \in Containers :
    <>[](/\ ~ crashed /\ ~ stopped /\ docker[c] = "running"
         /\ thread[Main(o)].pc \in {"consuming", "relisted", "settling"})
      => []<>Follows(o, c)

\* A cancelled stream's goroutine ends.
CancelledWatchEnds ==
  \A s \in Streams :
    stream[s].cancelled ~> (stream[s].watch \in {"none", "gone"} \/ crashed)

\* A container that keeps running is followed, and what is cancelled ends.
WatchesSettle == EventuallyFollowed /\ CancelledWatchEnds
=============================================================================
