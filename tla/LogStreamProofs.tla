-------------------------- MODULE LogStreamProofs ---------------------------
(***************************************************************************)
(* Theorems about LogStream for every set of containers and subscribers,   *)
(* however many overlap, and about a process that opens one subscription   *)
(* after the other.                                                        *)
(***************************************************************************)
EXTENDS MCLogStreamTurns, FiniteSetTheorems, TLAPS

(***************************************************************************)
(* Types.                                                                  *)
(***************************************************************************)
Phase == {"none", "check", "connect", "follow", "pause", "leave", "gone"}

ThreadPhase == {"none", "idle", "listed", "settling", "consuming", "relisted",
                "waiting", "closing", "detached", "gone"}

\* A step of a watch moves its stream object to another phase.
LEMMA WatchMoves ==
  ASSUME stream \in [Streams -> Stream], NEW s \in Streams, NEW w \in Phase
  PROVE  [stream EXCEPT ![s].watch = w] \in [Streams -> Stream]
BY DEF Stream, Phase

\* A step of a subscriber's goroutine moves it to another phase.
LEMMA ThreadMoves ==
  ASSUME thread \in [Threads -> Thread], NEW t \in Threads, NEW pc \in ThreadPhase
  PROVE  [thread EXCEPT ![t].pc = pc] \in [Threads -> Thread]
BY DEF Thread, ThreadPhase

\* A goroutine that has nothing to cancel or start.
LEMMA RestingType ==
  ASSUME NEW pc \in ThreadPhase
  PROVE  Resting(pc) \in Thread
BY DEF Resting, Thread, ThreadPhase

LEMMA NewStreamType ==
  ASSUME NEW os \in SUBSET Owners, NEW time \in Nat
  PROVE  NewStream(os, time) \in Stream
<1>1. <<>> \in Seq(Int)
  OBVIOUS
<1> QED
  BY <1>1 DEF NewStream, Stream

\* The streams getOrCreateStreamLocked creates are for containers without one,
\* and at most one for each.
LEMMA CreatedStreams ==
  ASSUME NEW cs \in SUBSET Containers, table \subseteq Streams
  PROVE  /\ Created(cs) \subseteq Streams
         /\ \A s \in Created(cs), t \in table : ContainerOf(s) # ContainerOf(t)
         /\ \A s, t \in Created(cs) : ContainerOf(s) = ContainerOf(t) => s = t
<1>1. Created(cs) \subseteq Streams
  BY DEF Created, Missing, Streams
<1>2. \A s \in Created(cs), t \in table : ContainerOf(s) # ContainerOf(t)
  BY DEF Created, Missing, ContainerOf
<1>3. ASSUME NEW s \in Created(cs), NEW t \in Created(cs), ContainerOf(s) = ContainerOf(t)
      PROVE  s = t
  <2>1. /\ s = <<s[1], s[2]>> /\ s[2] \in 1 .. Copies /\ Garbage(s)
        /\ \A k \in 1 .. s[2] - 1 : ~ Garbage(<<s[1], k>>)
    BY DEF Created
  <2>2. /\ t = <<t[1], t[2]>> /\ t[2] \in 1 .. Copies /\ Garbage(t)
        /\ \A k \in 1 .. t[2] - 1 : ~ Garbage(<<t[1], k>>)
    BY DEF Created
  <2>3. s[1] = t[1]
    BY <1>3 DEF ContainerOf
  <2>4. s[2] \in Int /\ t[2] \in Int /\ s[2] >= 1 /\ t[2] >= 1
    BY <2>1, <2>2, LogStreamAssumption DEF LogStreamAssumption
  <2>5. ~ (s[2] < t[2])
    <3> SUFFICES ASSUME s[2] < t[2] PROVE FALSE
      OBVIOUS
    <3>1. s[2] \in 1 .. t[2] - 1
      BY <2>4
    <3> QED
      BY <3>1, <2>1, <2>2, <2>3
  <2>6. ~ (t[2] < s[2])
    <3> SUFFICES ASSUME t[2] < s[2] PROVE FALSE
      OBVIOUS
    <3>1. t[2] \in 1 .. s[2] - 1
      BY <2>4
    <3> QED
      BY <3>1, <2>1, <2>2, <2>3
  <2>7. s[2] = t[2]
    BY <2>4, <2>5, <2>6
  <2> QED
    BY <2>1, <2>2, <2>3, <2>7
<1> QED
  BY <1>1, <1>2, <1>3

LEMMA InitTyped == Init => TypeOK
<1> SUFFICES ASSUME Init PROVE TypeOK
  OBVIOUS
<1>1. \A t \in Threads : Resting(IF t[2] = "main" THEN "idle" ELSE "none") \in Thread
  BY RestingType DEF ThreadPhase
<1>2. NewStream({}, 1) \in Stream
  BY NewStreamType
<1>3. <<>> \in Seq(Containers) /\ Len(<<>>) = 0
  OBVIOUS
<1>4. docker \in [Containers -> {"running", "stopped", "removed"}]
  BY DEF Init
<1>5. log \in Seq(Containers) /\ Len(log) <= MaxLines
  BY <1>3, LogStreamAssumption DEF LogStreamAssumption, Init
<1>6. stream \in [Streams -> Stream]
  BY <1>2 DEF Init
<1>7. thread \in [Threads -> Thread]
  BY <1>1 DEF Init
<1> QED
  BY <1>4, <1>5, <1>6, <1>7 DEF Init, TypeOK

USE DEF Main, Ctx, At

\* What the subscribers' goroutines do keeps the types.
LEMMA MainTyped ==
  ASSUME TypeOK, NEW o \in Owners, MainStep(o)
  PROVE  TypeOK'
<1>0. /\ Main(o) \in Threads /\ Ctx(o) \in Threads
      /\ stream \in [Streams -> Stream] /\ thread \in [Threads -> Thread]
      /\ table \subseteq Streams /\ registered \subseteq Owners
      /\ since \in [Owners -> Nat] /\ Now \in Nat
      /\ thread[Main(o)].listing \in SUBSET Containers
  BY DEF TypeOK, Threads, Thread, Now
<1>1. ASSUME NEW pc \in ThreadPhase, NEW cs \in SUBSET Containers
      PROVE  [Resting(pc) EXCEPT !.listing = cs] \in Thread
  BY DEF Resting, Thread, ThreadPhase
<1>2. ASSUME NEW cancel \in SUBSET Streams, NEW start \in SUBSET Streams
      PROVE  /\ [Resting("settling") EXCEPT !.start = start] \in Thread
             /\ [Resting("settling") EXCEPT !.cancel = cancel, !.start = start] \in Thread
  BY DEF Resting, Thread
<1>3. CASE List(o)
  <2>1. thread' \in [Threads -> Thread]
    BY <1>0, <1>1, <1>3 DEF List, Running, ThreadPhase
  <2>2. since' \in [Owners -> Nat]
    BY <1>0, <1>3 DEF List
  <2> QED
    BY <2>1, <2>2, <1>3 DEF List, TypeOK, world, manager, owners
<1>4. CASE Register(o)
  <2> DEFINE listing == thread[Main(o)].listing
             new     == Created(listing)
             joined  == {s \in table : ContainerOf(s) \in listing}
  <2>1. /\ new \subseteq Streams
        /\ \A s \in new, t \in table : ContainerOf(s) # ContainerOf(t)
        /\ \A s, t \in new : ContainerOf(s) = ContainerOf(t) => s = t
    BY <1>0, CreatedStreams
  <2>2. table' = table \cup new /\ registered' = registered \cup {o}
    BY <1>4 DEF Register
  <2>3. \A s, t \in table' : ContainerOf(s) = ContainerOf(t) => s = t
    BY <2>1, <2>2 DEF TypeOK
  <2>4. NewStream({o}, since[o]) \in Stream
    BY <1>0, NewStreamType
  <2>5. \A s \in Streams : [stream[s] EXCEPT !.subs = @ \cup {o}] \in Stream
    BY <1>0 DEF Stream
  <2>6. stream' \in [Streams -> Stream]
    BY <1>0, <1>4, <2>4, <2>5 DEF Register
  <2>7. new \cup Unstarted(joined) \in SUBSET Streams
    BY <1>0, <2>1 DEF Unstarted
  <2>8. thread' \in [Threads -> Thread]
    BY <1>0, <1>2, <1>4, <2>7 DEF Register
  <2> QED
    BY <2>1, <2>2, <2>3, <2>6, <2>8, <1>4 DEF Register, TypeOK, world, owners
<1>5. CASE Settled(o)
  <2> DEFINE Spawned(r) == [r EXCEPT !.pc = IF r.pc = "none" THEN "waiting" ELSE r.pc]
  <2>1. \A r \in Thread : Spawned(r) \in Thread
    BY DEF Thread
  <2>2. Resting("consuming") \in Thread
    BY RestingType DEF ThreadPhase
  <2>3. thread' = [thread EXCEPT ![Main(o)] = Resting("consuming"),
                                 ![Ctx(o)] = Spawned(thread[Ctx(o)])]
    BY <1>0, <1>5 DEF Settled, Thread
  <2>4. thread' \in [Threads -> Thread]
    BY <1>0, <2>1, <2>2, <2>3
  <2> QED
    BY <2>4, <1>5 DEF Settled, TypeOK, world, manager, owners
<1>6. CASE Relist(o)
  <2>1. thread' \in [Threads -> Thread]
    BY <1>0, <1>1, <1>6 DEF Relist, Running, ThreadPhase
  <2> QED
    BY <2>1, <1>6 DEF Relist, TypeOK, world, manager, owners
<1>7. CASE Reconcile(o)
  <2> DEFINE running == thread[Main(o)].listing
             new     == Created(running)
             stale   == {s \in table : ContainerOf(s) \notin running}
  <2>1. /\ new \subseteq Streams
        /\ \A s \in new, t \in table : ContainerOf(s) # ContainerOf(t)
        /\ \A s, t \in new : ContainerOf(s) = ContainerOf(t) => s = t
    BY <1>0, CreatedStreams
  <2>2. table' = (table \ stale) \cup new
    BY <1>7 DEF Reconcile
  <2>3. \A s, t \in table' : ContainerOf(s) = ContainerOf(t) => s = t
    BY <2>1, <2>2 DEF TypeOK
  <2>4. NewStream(Matching, Now) \in Stream
    BY <1>0, NewStreamType DEF Matching
  <2>5. stream' \in [Streams -> Stream]
    BY <1>0, <1>7, <2>4 DEF Reconcile
  <2>6. stale \in SUBSET Streams /\ Startable(new) \in SUBSET Streams
    BY <1>0, <2>1 DEF Startable
  <2>7. thread' \in [Threads -> Thread]
    BY <1>0, <1>2, <1>7, <2>6 DEF Reconcile
  <2> QED
    BY <1>0, <2>1, <2>2, <2>3, <2>5, <2>7, <1>7 DEF Reconcile, TypeOK, world, owners
<1>8. CASE Return(o)
  <2>1. thread' \in [Threads -> Thread]
    BY <1>0, <1>8, ThreadMoves DEF Return, ThreadPhase
  <2> QED
    BY <2>1, <1>8 DEF Return, TypeOK, world, manager, owners
<1>9. CASE Wake(o)
  <2>1. thread' \in [Threads -> Thread]
    <3>1. /\ [thread EXCEPT ![Ctx(o)].pc = "closing"] \in [Threads -> Thread]
          /\ [thread EXCEPT ![Ctx(o)].pc = "gone"] \in [Threads -> Thread]
      BY <1>0, ThreadMoves DEF ThreadPhase
    <3> QED
      BY <3>1, <1>9 DEF Wake
  <2> QED
    BY <2>1, <1>9 DEF Wake, TypeOK, world, manager, owners
<1> QED
  BY <1>3, <1>4, <1>5, <1>6, <1>7, <1>8, <1>9 DEF MainStep

\* So does what main and ctx goroutines share.
LEMMA ThreadTyped ==
  ASSUME TypeOK, NEW t \in Threads, ThreadStep(t)
  PROVE  TypeOK'
<1>0. /\ stream \in [Streams -> Stream] /\ thread \in [Threads -> Thread]
      /\ table \subseteq Streams /\ t[1] \in Owners
      /\ thread[t].cancel \subseteq Streams /\ thread[t].start \subseteq Streams
  BY DEF TypeOK, Threads, Thread
<1>1. CASE CancelNext(t)
  <2>1. stream' \in [Streams -> Stream]
    <3>1. ASSUME NEW s \in Streams PROVE [stream EXCEPT ![s].cancelled = TRUE] \in [Streams -> Stream]
      BY <1>0 DEF Stream
    <3> QED
      BY <1>0, <1>1, <3>1 DEF CancelNext
  <2>2. thread' \in [Threads -> Thread]
    BY <1>0, <1>1 DEF CancelNext, Thread
  <2> QED
    BY <2>1, <2>2, <1>1 DEF CancelNext, TypeOK, world, manager, owners
<1>2. CASE StartNext(t)
  <2>1. stream' \in [Streams -> Stream]
    <3>1. ASSUME NEW s \in Streams
          PROVE  [stream EXCEPT ![s].started = TRUE, ![s].watch = "check"] \in [Streams -> Stream]
      BY <1>0 DEF Stream
    <3> QED
      BY <1>0, <1>2, <3>1 DEF StartNext
  <2>2. thread' \in [Threads -> Thread]
    BY <1>0, <1>2 DEF StartNext, Thread
  <2> QED
    BY <2>1, <2>2, <1>2 DEF StartNext, TypeOK, world, manager, owners
<1>3. CASE Detach(t)
  <2>1. stream' \in [Streams -> Stream]
    BY <1>0, <1>3 DEF Detach, Stream
  <2>2. ASSUME NEW ss \in SUBSET Streams
        PROVE  [Resting("detached") EXCEPT !.cancel = ss] \in Thread
    BY DEF Resting, Thread
  <2>3. thread' \in [Threads -> Thread]
    BY <1>0, <2>2, <1>3 DEF Detach
  <2>4. table' \subseteq table /\ registered' \subseteq registered
    BY <1>3 DEF Detach
  <2> QED
    BY <2>1, <2>3, <2>4, <1>3 DEF Detach, TypeOK, world, owners
<1>4. CASE CloseChannels(t)
  <2>1. thread' \in [Threads -> Thread]
    BY <1>0, <1>4, ThreadMoves DEF CloseChannels, ThreadPhase
  <2> QED
    BY <1>0, <2>1, <1>4 DEF CloseChannels, TypeOK, world, manager
<1> QED
  BY <1>1, <1>2, <1>3, <1>4 DEF ThreadStep

\* And what a watch does.
LEMMA WatchTyped ==
  ASSUME TypeOK, crashed = FALSE, NEW s \in Streams, WatchStep(s)
  PROVE  TypeOK'
<1>0. stream \in [Streams -> Stream] /\ table \subseteq Streams /\ closed \subseteq Owners
  BY DEF TypeOK
<1>1. \A os : Send(os) => crashed' \in BOOLEAN
  BY DEF Send
<1>2. CASE Check(s)
  <2>1. stream' \in [Streams -> Stream]
    BY <1>0, <1>2, WatchMoves DEF Check, Phase
  <2> QED
    BY <2>1, <1>2 DEF Check, TypeOK, world, manager, owners
<1>3. CASE Connect(s)
  <2>1. PICK n \in SecondOf(LastSeen(s)) .. Now :
          stream' = [stream EXCEPT ![s].watch = "follow", ![s].pos = n]
    BY <1>3 DEF Connect
  <2>2. n \in Int
    BY <2>1
  <2>3. stream' \in [Streams -> Stream]
    BY <1>0, <2>1, <2>2 DEF Stream
  <2> QED
    BY <2>3, <1>3 DEF Connect, TypeOK, world, manager, owners
<1>4. CASE Refuse(s)
  <2>1. stream' \in [Streams -> Stream]
    BY <1>0, <1>4, WatchMoves DEF Refuse, Phase
  <2>2. crashed' \in BOOLEAN
    BY <1>1, <1>4 DEF Refuse, TypeOK
  <2> QED
    BY <2>1, <2>2, <1>4 DEF Refuse, TypeOK, world, manager, owners
<1>5. CASE Deliver(s)
  <2>1. PICK n \in stream[s].pos .. Len(log) :
          IF n \in Seen(s)
          THEN stream' = [stream EXCEPT ![s].pos = n + 1] /\ UNCHANGED crashed
          ELSE /\ stream' = [stream EXCEPT ![s].pos = n + 1, ![s].shown = Append(@, n)]
               /\ Send({o \in stream[s].subs : n >= since[o]})
    BY <1>5 DEF Deliver
  <2>2. n \in Int /\ n + 1 \in Int
    BY <2>1
  <2>3. Append(stream[s].shown, n) \in Seq(Int)
    BY <1>0, <2>2 DEF Stream
  <2>4. stream' \in [Streams -> Stream]
    <3>1. [stream EXCEPT ![s].pos = n + 1] \in [Streams -> Stream]
      BY <1>0, <2>2 DEF Stream
    <3>2. [stream EXCEPT ![s].pos = n + 1, ![s].shown = Append(@, n)] \in [Streams -> Stream]
      BY <1>0, <2>2, <2>3 DEF Stream
    <3> QED
      BY <2>1, <3>1, <3>2
  <2>5. crashed' \in BOOLEAN
    BY <1>1, <2>1 DEF TypeOK
  <2> QED
    BY <2>4, <2>5, <1>5 DEF Deliver, TypeOK, world, manager, owners
<1>6. CASE Disconnect(s)
  <2>1. stream' \in [Streams -> Stream]
    BY <1>0, <1>6, WatchMoves DEF Disconnect, Phase
  <2>2. crashed' \in BOOLEAN
    BY <1>1, <1>6 DEF Disconnect, TypeOK
  <2> QED
    BY <2>1, <2>2, <1>6 DEF Disconnect, TypeOK, world, manager, owners
<1>7. CASE Resume(s)
  <2>1. stream' \in [Streams -> Stream]
    <3>1. /\ [stream EXCEPT ![s].watch = "check"] \in [Streams -> Stream]
          /\ [stream EXCEPT ![s].watch = "leave"] \in [Streams -> Stream]
      BY <1>0, WatchMoves DEF Phase
    <3> QED
      BY <3>1, <1>7 DEF Resume
  <2> QED
    BY <2>1, <1>7 DEF Resume, TypeOK, world, manager, owners
<1>8. CASE Leave(s)
  <2>1. stream' \in [Streams -> Stream]
    BY <1>0, <1>8, WatchMoves DEF Leave, Phase
  <2>2. table' \subseteq table
    BY <1>8 DEF Leave
  <2> QED
    BY <2>1, <2>2, <1>8 DEF Leave, TypeOK, world, owners
<1> QED
  BY <1>2, <1>3, <1>4, <1>5, <1>6, <1>7, <1>8 DEF WatchStep

\* Docker, the stop and Manager.Close.
LEMMA RestTyped ==
  ASSUME TypeOK,
         (\E c \in Containers : Change(c) \/ WriteLine(c)) \/ Stop \/ CloseManager
  PROVE  TypeOK'
<1>1. ASSUME NEW c \in Containers, Change(c) PROVE TypeOK'
  BY <1>1 DEF Change, TypeOK, manager, owners
<1>2. ASSUME NEW c \in Containers, WriteLine(c) PROVE TypeOK'
  <2>1. log' \in Seq(Containers) /\ Len(log') <= MaxLines
    BY <1>2, LogStreamAssumption DEF WriteLine, TypeOK, LogStreamAssumption
  <2> QED
    BY <2>1, <1>2 DEF WriteLine, TypeOK, manager, owners
<1>3. CASE Stop
  BY <1>3 DEF Stop, TypeOK, world, manager, owners
<1>4. CASE CloseManager
  <2>1. stream' \in [Streams -> Stream]
    <3>1. \A s \in Streams : [stream[s] EXCEPT !.cancelled = TRUE] \in Stream
      BY DEF TypeOK, Stream
    <3> QED
      BY <3>1, <1>4 DEF CloseManager
  <2> QED
    BY <2>1, <1>4 DEF CloseManager, TypeOK, world, owners
<1> QED
  BY <1>1, <1>2, <1>3, <1>4

\* Every variable keeps its type, and the map holds at most one stream per
\* container, whatever Subscribe, Refresh and the watches do to it.
THEOREM LogStreamTyped == Spec => []TypeOK
<1>1. Init => TypeOK
  BY InitTyped
<1>2. TypeOK /\ [Next]_vars => TypeOK'
  <2> SUFFICES ASSUME TypeOK, [Next]_vars PROVE TypeOK'
    OBVIOUS
  <2>1. CASE Next
    <3>1. crashed = FALSE
      BY <2>1 DEF Next, TypeOK
    <3> QED
      BY <2>1, <3>1, MainTyped, ThreadTyped, WatchTyped, RestTyped DEF Next
  <2>2. CASE UNCHANGED vars
    BY <2>2 DEF vars, world, manager, owners, TypeOK
  <2> QED
    BY <2>1, <2>2
<1> QED
  BY <1>1, <1>2, PTL DEF Spec

-----------------------------------------------------------------------------
(***************************************************************************)
(* Closed channels.                                                        *)
(***************************************************************************)
MainPhase == {"idle", "listed", "settling", "consuming", "relisted", "closing", "detached", "gone"}
CtxPhase  == {"none", "waiting", "closing", "detached", "gone"}

\* A subscriber lives once: its ctx goroutine starts after it has registered,
\* it closes only after that, and one that is detached is not registered again.
LivesOnce ==
  /\ \A o \in Owners :
       /\ thread[Main(o)].pc \in MainPhase /\ thread[Ctx(o)].pc \in CtxPhase
       /\ thread[Main(o)].pc \in {"idle", "listed"} =>
            thread[Ctx(o)].pc = "none" /\ o \notin closed
  /\ \A t \in Threads : thread[t].pc \in {"detached", "gone"} => t[1] \notin registered

IInv == TypeOK /\ LivesOnce /\ MapSendsToOpenChannels

\* Steps that leave subscribers, their goroutines and their channels alone.
LEMMA SubscribersUntouched ==
  ASSUME IInv, TypeOK',
         UNCHANGED <<registered, closed, thread>>,
         table' \subseteq table,
         \A r \in Streams : stream'[r].subs = stream[r].subs
  PROVE  IInv'
<1>1. LivesOnce'
  BY DEF IInv, LivesOnce
<1>2. registered' \cap closed' = {}
  BY DEF IInv, MapSendsToOpenChannels
<1>3. ASSUME NEW r \in table' PROVE stream'[r].subs \subseteq registered'
  BY <1>3 DEF IInv, MapSendsToOpenChannels, TypeOK
<1> QED
  BY <1>1, <1>2, <1>3 DEF IInv, MapSendsToOpenChannels

\* A watch never gives its stream a subscriber.
LEMMA WatchKeepsSubscribers ==
  ASSUME TypeOK, NEW s \in Streams, WatchStep(s)
  PROVE  /\ UNCHANGED <<registered, closed, thread>>
         /\ table' \subseteq table
         /\ \A r \in Streams : stream'[r].subs = stream[r].subs
<1>0. stream \in [Streams -> Stream]
  BY DEF TypeOK
<1>1. UNCHANGED <<registered, closed, thread>> /\ table' \subseteq table
  BY DEF WatchStep, Check, Connect, Refuse, Deliver, Disconnect, Resume, Leave, manager, owners
<1> DEFINE Moves == \E w \in Phase : stream' = [stream EXCEPT ![s].watch = w]
<1>1a. Moves => \A r \in Streams : stream'[r].subs = stream[r].subs
  <2> SUFFICES ASSUME Moves PROVE \A r \in Streams : stream'[r].subs = stream[r].subs
    OBVIOUS
  <2>1. PICK w \in Phase : stream' = [stream EXCEPT ![s].watch = w]
    OBVIOUS
  <2> QED
    BY <1>0, <2>1 DEF Stream
<1>2. CASE Check(s)
  <2>1. Moves
    BY <1>2 DEF Check, Phase
  <2> QED
    BY <1>1, <1>1a, <2>1
<1>3. CASE Connect(s)
  <2>1. PICK n : stream' = [stream EXCEPT ![s].watch = "follow", ![s].pos = n]
    BY <1>3 DEF Connect
  <2> QED
    BY <1>0, <1>1, <2>1 DEF Stream
<1>4. CASE Refuse(s)
  <2>1. Moves
    BY <1>4 DEF Refuse, Phase
  <2> QED
    BY <1>1, <1>1a, <2>1
<1>5. CASE Deliver(s)
  <2>1. PICK n : \/ stream' = [stream EXCEPT ![s].pos = n + 1]
                 \/ stream' = [stream EXCEPT ![s].pos = n + 1, ![s].shown = Append(@, n)]
    BY <1>5 DEF Deliver
  <2>2. CASE stream' = [stream EXCEPT ![s].pos = n + 1]
    BY <1>0, <1>1, <2>2 DEF Stream
  <2>3. CASE stream' = [stream EXCEPT ![s].pos = n + 1, ![s].shown = Append(@, n)]
    BY <1>0, <1>1, <2>3 DEF Stream
  <2> QED
    BY <2>1, <2>2, <2>3
<1>6. CASE Disconnect(s)
  <2>1. Moves
    BY <1>6 DEF Disconnect, Phase
  <2> QED
    BY <1>1, <1>1a, <2>1
<1>7. CASE Resume(s)
  <2>1. Moves
    BY <1>7 DEF Resume, Phase
  <2> QED
    BY <1>1, <1>1a, <2>1
<1>8. CASE Leave(s)
  <2>1. Moves
    BY <1>8 DEF Leave, Phase
  <2> QED
    BY <1>1, <1>1a, <2>1
<1> QED
  BY <1>1, <1>2, <1>3, <1>4, <1>5, <1>6, <1>7, <1>8 DEF WatchStep

LEMMA RestKeepsSubscribers ==
  ASSUME TypeOK,
         (\E c \in Containers : Change(c) \/ WriteLine(c)) \/ Stop \/ CloseManager
  PROVE  /\ UNCHANGED <<registered, closed, thread>>
         /\ table' \subseteq table
         /\ \A r \in Streams : stream'[r].subs = stream[r].subs
<1>1. CASE CloseManager
  BY <1>1 DEF CloseManager, TypeOK, Stream, owners
<1>2. CASE (\E c \in Containers : Change(c) \/ WriteLine(c)) \/ Stop
  BY <1>2 DEF Change, WriteLine, Stop, manager, owners
<1> QED
  BY <1>1, <1>2

\* Each step of a subscriber's goroutine.
LEMMA MainKeepsOpen ==
  ASSUME IInv, TypeOK', NEW o \in Owners, MainStep(o)
  PROVE  IInv'
<1>0. /\ Main(o) \in Threads /\ Ctx(o) \in Threads
      /\ \A q \in Owners : Main(q) \in Threads /\ Ctx(q) \in Threads
      /\ stream \in [Streams -> Stream] /\ thread \in [Threads -> Thread]
      /\ table \subseteq Streams /\ LivesOnce /\ MapSendsToOpenChannels
  BY DEF IInv, TypeOK, Threads
<1>2. CASE List(o)
  <2>1. /\ thread'[Main(o)].pc = "listed"
        /\ \A u \in Threads \ {Main(o)} : thread'[u] = thread[u]
    BY <1>0, <1>2 DEF List, Resting
  <2>2. LivesOnce'
    BY <1>0, <1>2, <2>1 DEF List, LivesOnce, MainPhase, manager, Threads
  <2> QED
    BY <1>0, <1>2, <2>2 DEF List, IInv, MapSendsToOpenChannels, manager
<1>3. CASE Register(o)
  <2>1. /\ thread'[Main(o)].pc = "settling"
        /\ \A u \in Threads \ {Main(o)} : thread'[u] = thread[u]
    BY <1>0, <1>3 DEF Register, Resting
  <2>2. o \notin closed /\ thread[Ctx(o)].pc = "none"
    BY <1>0, <1>3 DEF Register, LivesOnce
  <2>3. LivesOnce'
    BY <1>0, <1>3, <2>1, <2>2 DEF Register, LivesOnce, MainPhase, owners, Threads
  <2>4. registered' \cap closed' = {}
    BY <1>0, <1>3, <2>2 DEF Register, MapSendsToOpenChannels, owners
  <2>5. ASSUME NEW s \in table' PROVE stream'[s].subs \subseteq registered'
    <3>1. s \in Streams
      BY <2>5 DEF TypeOK
    <3>2. CASE s \in Created(thread[Main(o)].listing)
      BY <1>3, <3>1, <3>2 DEF Register, NewStream
    <3>3. CASE s \notin Created(thread[Main(o)].listing)
      <4>1. s \in table /\ stream[s].subs \subseteq registered
        BY <1>0, <1>3, <2>5, <3>3 DEF Register, MapSendsToOpenChannels
      <4>2. [stream[s] EXCEPT !.subs = @ \cup {o}].subs = stream[s].subs \cup {o}
        BY <1>0, <3>1 DEF Stream
      <4> QED
        BY <1>3, <3>1, <3>3, <4>1, <4>2 DEF Register
    <3> QED
      BY <3>2, <3>3
  <2> QED
    BY <2>3, <2>4, <2>5 DEF IInv, MapSendsToOpenChannels
<1>4. CASE Settled(o)
  <2>1. /\ thread'[Main(o)].pc = "consuming"
        /\ thread'[Ctx(o)].pc \in {"waiting", thread[Ctx(o)].pc}
        /\ \A u \in Threads \ {Main(o), Ctx(o)} : thread'[u] = thread[u]
    BY <1>0, <1>4 DEF Settled, Resting, Thread
  <2>2. LivesOnce'
    BY <1>0, <1>4, <2>1 DEF Settled, LivesOnce, MainPhase, CtxPhase, manager, owners, Threads
  <2> QED
    BY <1>0, <1>4, <2>2 DEF Settled, IInv, MapSendsToOpenChannels, manager, owners
<1>5. CASE Relist(o)
  <2>1. /\ thread'[Main(o)].pc = "relisted"
        /\ \A u \in Threads \ {Main(o)} : thread'[u] = thread[u]
    BY <1>0, <1>5 DEF Relist, Resting
  <2>2. LivesOnce'
    BY <1>0, <1>5, <2>1 DEF Relist, LivesOnce, MainPhase, manager, owners, Threads
  <2> QED
    BY <1>0, <1>5, <2>2 DEF Relist, IInv, MapSendsToOpenChannels, manager, owners
<1>6. CASE Reconcile(o)
  <2>1. /\ thread'[Main(o)].pc = "settling"
        /\ \A u \in Threads \ {Main(o)} : thread'[u] = thread[u]
    BY <1>0, <1>6 DEF Reconcile, Resting
  <2>2. LivesOnce'
    BY <1>0, <1>6, <2>1 DEF Reconcile, LivesOnce, MainPhase, owners, Threads
  <2>3. registered' \cap closed' = {}
    BY <1>0, <1>6 DEF Reconcile, MapSendsToOpenChannels, owners
  <2>4. ASSUME NEW s \in table' PROVE stream'[s].subs \subseteq registered'
    <3>1. s \in Streams
      BY <2>4 DEF TypeOK
    <3>2. CASE s \in Created(thread[Main(o)].listing)
      BY <1>6, <3>1, <3>2 DEF Reconcile, NewStream, Matching
    <3>3. CASE s \notin Created(thread[Main(o)].listing)
      BY <1>0, <1>6, <2>4, <3>1, <3>3 DEF Reconcile, MapSendsToOpenChannels
    <3> QED
      BY <3>2, <3>3
  <2> QED
    BY <2>2, <2>3, <2>4 DEF IInv, MapSendsToOpenChannels
<1>7. CASE Return(o)
  <2>1. /\ thread'[Main(o)].pc = "closing" /\ \A u \in Threads \ {Main(o)} : thread'[u] = thread[u]
    BY <1>0, <1>7 DEF Return, Thread
  <2>2. LivesOnce'
    BY <1>0, <1>7, <2>1 DEF Return, LivesOnce, MainPhase, manager, owners, Threads
  <2> QED
    BY <1>0, <1>7, <2>2 DEF Return, IInv, MapSendsToOpenChannels, manager, owners
<1>8. CASE Wake(o)
  <2>1. /\ \/ thread'[Ctx(o)].pc = "closing"
           \/ thread'[Ctx(o)].pc = "gone" /\ o \in closed
        /\ \A u \in Threads \ {Ctx(o)} : thread'[u] = thread[u]
        /\ thread[Ctx(o)].pc = "waiting"
    BY <1>0, <1>8 DEF Wake, Thread
  <2>2. LivesOnce'
    <3>1. UNCHANGED <<registered, closed>>
      BY <1>8 DEF Wake, manager, owners
    <3>2. ASSUME NEW q \in Owners
          PROVE  /\ thread'[Main(q)].pc = thread[Main(q)].pc
                 /\ thread'[Ctx(q)].pc \in CtxPhase
                 /\ thread[Ctx(q)].pc = "none" => thread'[Ctx(q)].pc = "none"
      <4>1. CASE q = o
        BY <1>0, <2>1, <4>1 DEF CtxPhase
      <4>2. CASE q # o
        BY <1>0, <2>1, <4>2 DEF LivesOnce
      <4> QED
        BY <4>1, <4>2
    <3>3. ASSUME NEW u \in Threads, thread'[u].pc \in {"detached", "gone"}
          PROVE  u[1] \notin registered
      <4>1. CASE u = Ctx(o)
        BY <1>0, <2>1, <3>3, <4>1 DEF MapSendsToOpenChannels
      <4>2. CASE u # Ctx(o)
        BY <1>0, <2>1, <3>3, <4>2 DEF LivesOnce
      <4> QED
        BY <4>1, <4>2
    <3> QED
      BY <1>0, <3>1, <3>2, <3>3 DEF LivesOnce
  <2> QED
    BY <1>0, <1>8, <2>2 DEF Wake, IInv, MapSendsToOpenChannels, manager, owners
<1> QED
  BY <1>2, <1>3, <1>4, <1>5, <1>6, <1>7, <1>8 DEF MainStep

\* Each step that main and ctx goroutines share.
LEMMA ThreadKeepsOpen ==
  ASSUME IInv, TypeOK', NEW t \in Threads, ThreadStep(t)
  PROVE  IInv'
<1>0. /\ t[1] \in Owners /\ t \in {Main(t[1]), Ctx(t[1])}
      /\ \A q \in Owners : Main(q) \in Threads /\ Ctx(q) \in Threads
      /\ stream \in [Streams -> Stream] /\ thread \in [Threads -> Thread]
      /\ table \subseteq Streams /\ LivesOnce /\ MapSendsToOpenChannels
      /\ thread[t].cancel \subseteq Streams /\ thread[t].start \subseteq Streams
  BY DEF IInv, TypeOK, Threads, Thread
<1>1. CASE CancelNext(t) \/ StartNext(t)
  <2>1. \A u \in Threads : thread'[u].pc = thread[u].pc
    <3>1. PICK s : \/ thread' = [thread EXCEPT ![t].cancel = @ \ {s}]
                   \/ thread' = [thread EXCEPT ![t].start = @ \ {s}]
      BY <1>1 DEF CancelNext, StartNext
    <3>2. CASE thread' = [thread EXCEPT ![t].cancel = @ \ {s}]
      BY <1>0, <3>2 DEF Thread
    <3>3. CASE thread' = [thread EXCEPT ![t].start = @ \ {s}]
      BY <1>0, <3>3 DEF Thread
    <3> QED
      BY <3>1, <3>2, <3>3
  <2>2. \A r \in Streams : stream'[r].subs = stream[r].subs
    <3>1. PICK s \in Streams :
            \/ stream' = [stream EXCEPT ![s].cancelled = TRUE]
            \/ stream' = stream
            \/ stream' = [stream EXCEPT ![s].started = TRUE, ![s].watch = "check"]
      BY <1>0, <1>1 DEF CancelNext, StartNext
    <3>2. CASE stream' = [stream EXCEPT ![s].cancelled = TRUE]
      BY <1>0, <3>2 DEF Stream
    <3>3. CASE stream' = [stream EXCEPT ![s].started = TRUE, ![s].watch = "check"]
      BY <1>0, <3>3 DEF Stream
    <3> QED
      BY <3>1, <3>2, <3>3
  <2>3. UNCHANGED <<registered, table, closed>>
    BY <1>1 DEF CancelNext, StartNext, manager, owners
  <2>4. LivesOnce'
    BY <1>0, <2>1, <2>3 DEF LivesOnce
  <2> QED
    BY <1>0, <2>2, <2>3, <2>4 DEF IInv, MapSendsToOpenChannels
<1>2. CASE Detach(t)
  <2>1. /\ thread'[t].pc = "detached" /\ \A u \in Threads \ {t} : thread'[u] = thread[u]
    BY <1>0, <1>2 DEF Detach, Resting
  <2>2. registered' = registered \ {t[1]} /\ closed' = closed /\ table' \subseteq table
    BY <1>2 DEF Detach, owners
  <2>3. LivesOnce'
    BY <1>0, <1>2, <2>1, <2>2 DEF Detach, LivesOnce, MainPhase, CtxPhase, Threads
  <2>4. ASSUME NEW s \in table' PROVE stream'[s].subs \subseteq registered'
    <3>1. s \in table /\ s \in Streams
      BY <1>0, <2>2, <2>4
    <3>2. stream'[s].subs = stream[s].subs \ {t[1]}
      BY <1>0, <1>2, <3>1 DEF Detach, Stream
    <3> QED
      BY <1>0, <2>2, <3>1, <3>2 DEF MapSendsToOpenChannels
  <2> QED
    BY <1>0, <2>2, <2>3, <2>4 DEF IInv, MapSendsToOpenChannels
<1>3. CASE CloseChannels(t)
  <2>1. /\ thread[t].pc = "detached" /\ thread'[t].pc = "gone"
        /\ \A u \in Threads \ {t} : thread'[u] = thread[u]
        /\ closed' = closed \cup {t[1]} /\ UNCHANGED <<table, registered, stream>>
    BY <1>0, <1>3 DEF CloseChannels, Thread, manager
  <2>2. t[1] \notin registered
    BY <1>0, <2>1 DEF LivesOnce
  <2>3. thread[Main(t[1])].pc \notin {"idle", "listed"}
    BY <1>0, <2>1 DEF LivesOnce
  <2>4. LivesOnce'
    BY <1>0, <2>1, <2>2, <2>3 DEF LivesOnce, MainPhase, CtxPhase, Threads
  <2> QED
    BY <1>0, <2>1, <2>2, <2>4 DEF IInv, MapSendsToOpenChannels
<1> QED
  BY <1>1, <1>2, <1>3 DEF ThreadStep

LEMMA IInvHolds == Spec => []IInv
<1>1. Init => IInv
  <2>1. Init => LivesOnce /\ MapSendsToOpenChannels
    BY DEF Init, LivesOnce, MapSendsToOpenChannels, MainPhase, CtxPhase, Resting, Threads
  <2> QED
    BY <2>1, InitTyped DEF IInv
<1>2. TypeOK /\ TypeOK' /\ IInv /\ [Next]_vars => IInv'
  <2> SUFFICES ASSUME TypeOK, TypeOK', IInv, [Next]_vars PROVE IInv'
    OBVIOUS
  <2>1. CASE Next
    BY <2>1, SubscribersUntouched, WatchKeepsSubscribers, RestKeepsSubscribers,
       MainKeepsOpen, ThreadKeepsOpen DEF Next
  <2>2. CASE UNCHANGED vars
    BY <2>2, SubscribersUntouched DEF vars, manager, owners
  <2> QED
    BY <2>1, <2>2
<1> QED
  BY <1>1, <1>2, LogStreamTyped, PTL DEF Spec

\* Streams of the map send only to registered subscribers with open channels,
\* however Subscribe, Refresh, closeSubscription and the watches interleave.
THEOREM MapKeepsToOpenChannels == Spec => []MapSendsToOpenChannels
<1>1. IInv => MapSendsToOpenChannels
  BY DEF IInv
<1> QED
  BY <1>1, IInvHolds, PTL

-----------------------------------------------------------------------------
(***************************************************************************)
(* The map and the watches.                                                *)
(***************************************************************************)
\* A goroutine has streams to cancel or to start only on its way out of the
\* lock that gave it the task.
Errands ==
  \A t \in Threads :
    /\ thread[t].pc \notin {"settling", "detached"} => thread[t].cancel = {}
    /\ thread[t].pc # "settling" => thread[t].start = {}

\* What is about to be cancelled has left the map.
CancelledLeft == \A t \in Threads : thread[t].cancel \cap table = {}

StartedWatches == \A s \in Streams : stream[s].started <=> stream[s].watch # "none"

ActivePhase == {"check", "connect", "follow", "pause"}

\* A stream that follows its container, or is about to, and was not cancelled.
Pending(s) == ~ stream[s].started /\ stream[s].subs # {} /\ \E t \in Threads : s \in thread[t].start
Followers  == {s \in Streams : ~ stream[s].cancelled /\ (stream[s].watch \in ActivePhase \/ Pending(s))}

\* It is in the map or about to be cancelled.
FollowersFound == \A s \in Followers : s \in table \/ \E t \in Threads : s \in thread[t].cancel

WatchInv ==
  /\ TypeOK /\ Errands /\ CancelledLeft /\ StartedWatches /\ FollowersFound
  /\ TableHoldsLiveStreams /\ StartsPending

\* A step that moves goroutines about, without their errands.
LEMMA ThreadsMove ==
  ASSUME WatchInv, TypeOK', UNCHANGED <<table, stream>>,
         \A t \in Threads :
           /\ thread'[t].cancel = thread[t].cancel /\ thread'[t].start = thread[t].start
           /\ thread'[t].pc = thread[t].pc \/ (thread[t].cancel = {} /\ thread[t].start = {})
  PROVE  WatchInv' /\ Followers' = Followers
<1>1. Errands'  BY DEF WatchInv, Errands
<1>2. CancelledLeft'  BY DEF WatchInv, CancelledLeft
<1>3. StartedWatches' /\ TableHoldsLiveStreams'
  BY DEF WatchInv, StartedWatches, TableHoldsLiveStreams
<1>4. Followers' = Followers  BY DEF Followers, Pending
<1>5. FollowersFound'  BY <1>4 DEF WatchInv, FollowersFound
<1>6. StartsPending'  BY DEF WatchInv, StartsPending
<1>. QED  BY <1>1, <1>2, <1>3, <1>4, <1>5, <1>6 DEF WatchInv

\* A watch only ends what it does: it neither starts nor cancels a stream, and
\* takes a stream out of the map when it goes.
Fades ==
  /\ thread' = thread /\ table' \subseteq table
  /\ \A r \in Streams :
       /\ stream'[r].subs = stream[r].subs /\ stream'[r].started = stream[r].started
       /\ stream'[r].cancelled = stream[r].cancelled
       /\ stream'[r].watch = "none" <=> stream[r].watch = "none"
       /\ stream'[r].watch \in ActivePhase => stream[r].watch \in ActivePhase
       /\ stream'[r].watch = "gone" => stream[r].watch = "gone" \/ r \notin table'
       /\ r \in table \ table' => stream'[r].watch = "gone"

LEMMA FadesKeeps ==
  ASSUME WatchInv, TypeOK', Fades PROVE WatchInv' /\ Followers' \subseteq Followers
<1>0. table' \subseteq Streams /\ table \subseteq Streams  BY DEF WatchInv, TypeOK
<1>1. Errands' /\ CancelledLeft'  BY DEF WatchInv, Errands, CancelledLeft, Fades
<1>2. StartedWatches'  BY DEF WatchInv, StartedWatches, Fades
<1>3. TableHoldsLiveStreams'  BY <1>0 DEF WatchInv, TableHoldsLiveStreams, Fades
<1>4. Followers' \subseteq Followers  BY DEF Followers, Pending, Fades
<1>5. FollowersFound'
  <2> SUFFICES ASSUME NEW s \in Followers'
               PROVE  s \in table' \/ \E t \in Threads : s \in thread'[t].cancel
    BY DEF FollowersFound
  <2>1. s \in table \/ \E t \in Threads : s \in thread[t].cancel
    BY <1>4 DEF WatchInv, FollowersFound
  <2>2. CASE s \in table \ table'
    <3>1. stream'[s].watch = "gone" /\ s \in Streams
      BY <1>0, <2>2 DEF Fades
    <3>2. ~ stream'[s].started
      BY <3>1 DEF Followers, Pending, ActivePhase
    <3>. QED  BY <1>2, <3>1, <3>2 DEF StartedWatches
  <2>. QED  BY <2>1, <2>2 DEF Fades
<1>6. StartsPending'  BY <1>0 DEF WatchInv, StartsPending, Fades
<1>. QED  BY <1>1, <1>2, <1>3, <1>4, <1>5, <1>6 DEF WatchInv

LEMMA WatchMovesOne ==
  ASSUME TypeOK, NEW s \in Streams, NEW w \in Phase, thread' = thread, table' = table,
         stream' = [stream EXCEPT ![s].watch = w],
         stream[s].watch \notin {"none", "gone"}, w \notin {"none", "gone"},
         w \in ActivePhase => stream[s].watch \in ActivePhase
  PROVE  Fades
<1>0. stream \in [Streams -> Stream]  BY DEF TypeOK
<1>1. /\ stream'[s].watch = w /\ stream'[s].subs = stream[s].subs
      /\ stream'[s].started = stream[s].started /\ stream'[s].cancelled = stream[s].cancelled
      /\ \A r \in Streams \ {s} : stream'[r] = stream[r]
  BY <1>0 DEF Stream
<1>. QED  BY <1>1 DEF Fades

LEMMA WatchFades ==
  ASSUME TypeOK, NEW s \in Streams, WatchStep(s) PROVE Fades
<1>0. stream \in [Streams -> Stream]  BY DEF TypeOK
<1>1. CASE Check(s)
  BY <1>1, WatchMovesOne DEF Check, Phase, ActivePhase, manager
<1>2. CASE Connect(s)
  <2>1. PICK n : stream' = [stream EXCEPT ![s].watch = "follow", ![s].pos = n]
    BY <1>2 DEF Connect
  <2>2. /\ stream'[s].watch = "follow" /\ stream'[s].subs = stream[s].subs
        /\ stream'[s].started = stream[s].started /\ stream'[s].cancelled = stream[s].cancelled
        /\ \A r \in Streams \ {s} : stream'[r] = stream[r]
    BY <1>0, <2>1 DEF Stream
  <2>. QED  BY <1>2, <2>2 DEF Connect, manager, Fades, ActivePhase
<1>3. CASE Refuse(s)
  BY <1>3, WatchMovesOne DEF Refuse, Phase, ActivePhase, manager
<1>4. CASE Deliver(s)
  <2>1. PICK n : \/ stream' = [stream EXCEPT ![s].pos = n + 1]
                 \/ stream' = [stream EXCEPT ![s].pos = n + 1, ![s].shown = Append(@, n)]
    BY <1>4 DEF Deliver
  <2>2. /\ stream'[s].watch = stream[s].watch /\ stream'[s].subs = stream[s].subs
        /\ stream'[s].started = stream[s].started /\ stream'[s].cancelled = stream[s].cancelled
        /\ \A r \in Streams \ {s} : stream'[r] = stream[r]
    <3>1. CASE stream' = [stream EXCEPT ![s].pos = n + 1]
      BY <1>0, <3>1 DEF Stream
    <3>2. CASE stream' = [stream EXCEPT ![s].pos = n + 1, ![s].shown = Append(@, n)]
      BY <1>0, <3>2 DEF Stream
    <3>. QED  BY <2>1, <3>1, <3>2
  <2>. QED  BY <1>4, <2>2 DEF Deliver, manager, Fades
<1>5. CASE Disconnect(s)
  BY <1>5, WatchMovesOne DEF Disconnect, Phase, ActivePhase, manager
<1>6. CASE Resume(s)
  BY <1>6, WatchMovesOne DEF Resume, Phase, ActivePhase, manager
<1>7. CASE Leave(s)
  <2>1. /\ stream'[s].watch = "gone" /\ stream'[s].subs = stream[s].subs
        /\ stream'[s].started = stream[s].started /\ stream'[s].cancelled = stream[s].cancelled
        /\ \A r \in Streams \ {s} : stream'[r] = stream[r]
    BY <1>0, <1>7 DEF Leave, Stream
  <2>. QED  BY <1>7, <2>1 DEF Leave, Fades, ActivePhase
<1>. QED  BY <1>1, <1>2, <1>3, <1>4, <1>5, <1>6, <1>7 DEF WatchStep

LEMMA RestWatches ==
  ASSUME WatchInv, TypeOK',
         (\E c \in Containers : Change(c) \/ WriteLine(c)) \/ Stop \/ CloseManager
  PROVE  WatchInv' /\ Followers' \subseteq Followers
<1>1. CASE CloseManager
  <2>1. /\ table' = {} /\ thread' = thread
        /\ \A s \in Streams : /\ stream'[s].cancelled = TRUE
                              /\ stream'[s].watch = stream[s].watch
                              /\ stream'[s].started = stream[s].started
    BY <1>1 DEF CloseManager, WatchInv, TypeOK, Stream
  <2>2. Errands' /\ CancelledLeft' /\ TableHoldsLiveStreams' /\ StartsPending'
    BY <2>1 DEF WatchInv, Errands, CancelledLeft, TableHoldsLiveStreams, StartsPending
  <2>3. StartedWatches'  BY <2>1 DEF WatchInv, StartedWatches
  <2>4. Followers' = {}  BY <2>1 DEF Followers
  <2>. QED  BY <2>2, <2>3, <2>4 DEF WatchInv, FollowersFound
<1>2. CASE (\E c \in Containers : Change(c) \/ WriteLine(c)) \/ Stop
  <2>1. UNCHANGED <<table, stream, thread>>
    BY <1>2 DEF Change, WriteLine, Stop, manager
  <2>. QED  BY <2>1, ThreadsMove
<1>. QED  BY <1>1, <1>2

\* The steps of a subscriber's main goroutine that do not touch the map.
LEMMA MainWatches ==
  ASSUME WatchInv, TypeOK', NEW o \in Owners,
         List(o) \/ Settled(o) \/ Relist(o) \/ Return(o) \/ Wake(o)
  PROVE  WatchInv' /\ Followers' = Followers
<1>0. /\ Main(o) \in Threads /\ Ctx(o) \in Threads /\ Main(o) # Ctx(o)
      /\ thread \in [Threads -> Thread] /\ Errands
  BY DEF WatchInv, TypeOK, Threads
<1>1. UNCHANGED <<table, stream>>
  BY DEF List, Settled, Relist, Return, Wake, manager
<1>2. CASE List(o) \/ Relist(o)
  <2>1. /\ thread'[Main(o)].cancel = {} /\ thread'[Main(o)].start = {}
        /\ \A u \in Threads \ {Main(o)} : thread'[u] = thread[u]
        /\ thread[Main(o)].cancel = {} /\ thread[Main(o)].start = {}
    BY <1>0, <1>2 DEF List, Relist, Resting, Errands
  <2>. QED  BY <1>1, <2>1, ThreadsMove
<1>3. CASE Settled(o)
  <2>1. /\ thread'[Main(o)].cancel = {} /\ thread'[Main(o)].start = {}
        /\ thread[Main(o)].cancel = {} /\ thread[Main(o)].start = {}
    BY <1>0, <1>3 DEF Settled, Resting
  <2>2. /\ \A u \in Threads \ {Main(o), Ctx(o)} : thread'[u] = thread[u]
        /\ thread'[Ctx(o)].cancel = thread[Ctx(o)].cancel
        /\ thread'[Ctx(o)].start = thread[Ctx(o)].start
        /\ thread'[Ctx(o)].pc = thread[Ctx(o)].pc \/ thread[Ctx(o)].pc = "none"
    BY <1>0, <1>3 DEF Settled, Thread
  <2>3. thread[Ctx(o)].pc = "none" => thread[Ctx(o)].cancel = {} /\ thread[Ctx(o)].start = {}
    BY <1>0 DEF Errands
  <2>. QED  BY <1>1, <2>1, <2>2, <2>3, ThreadsMove
<1>4. CASE Return(o)
  <2>1. /\ thread'[Main(o)].cancel = thread[Main(o)].cancel
        /\ thread'[Main(o)].start = thread[Main(o)].start
        /\ \A u \in Threads \ {Main(o)} : thread'[u] = thread[u]
        /\ thread[Main(o)].cancel = {} /\ thread[Main(o)].start = {}
    BY <1>0, <1>4 DEF Return, Errands, Thread
  <2>. QED  BY <1>1, <2>1, ThreadsMove
<1>5. CASE Wake(o)
  <2>1. /\ thread'[Ctx(o)].cancel = thread[Ctx(o)].cancel
        /\ thread'[Ctx(o)].start = thread[Ctx(o)].start
        /\ \A u \in Threads \ {Ctx(o)} : thread'[u] = thread[u]
        /\ thread[Ctx(o)].cancel = {} /\ thread[Ctx(o)].start = {}
    BY <1>0, <1>5 DEF Wake, Errands, Thread
  <2>. QED  BY <1>1, <2>1, ThreadsMove
<1>. QED  BY <1>2, <1>3, <1>4, <1>5

\* Streams that a call creates are new: nobody is about to cancel or start them.
LEMMA CreatedAreUnused ==
  ASSUME NEW cs, NEW s \in Created(cs)
  PROVE  s \notin table /\ \A t \in Threads : s \notin thread[t].cancel /\ s \notin thread[t].start
BY DEF Created, Garbage

LEMMA RegisterWatches ==
  ASSUME WatchInv, TypeOK', NEW o \in Owners, Register(o)
  PROVE  WatchInv' /\ Followers' \subseteq Followers \cup table'
<1> DEFINE new    == Created(thread[Main(o)].listing)
           joined == {s \in table : ContainerOf(s) \in thread[Main(o)].listing}
<1>0. /\ Main(o) \in Threads /\ thread \in [Threads -> Thread] /\ stream \in [Streams -> Stream]
      /\ Errands /\ table \subseteq Streams
  BY DEF WatchInv, TypeOK, Threads
<1>1. /\ thread'[Main(o)].pc = "settling" /\ thread'[Main(o)].cancel = {}
      /\ thread'[Main(o)].start = new \cup Unstarted(joined)
      /\ \A u \in Threads \ {Main(o)} : thread'[u] = thread[u]
  BY <1>0 DEF Register, Resting
<1>2. thread[Main(o)].cancel = {} /\ thread[Main(o)].start = {}
  BY <1>0 DEF Register, Errands
<1>3. table' = table \cup new  BY DEF Register
<1>4. new \subseteq Streams  BY <1>3 DEF TypeOK
<1>5. \A s \in new : /\ ~ stream'[s].started /\ ~ stream'[s].cancelled
                     /\ stream'[s].watch = "none"
  BY <1>4 DEF Register, NewStream
<1>6. \A s \in Streams \ new : /\ stream'[s].started = stream[s].started
                               /\ stream'[s].cancelled = stream[s].cancelled
                               /\ stream'[s].watch = stream[s].watch
                               /\ s \notin joined => stream'[s].subs = stream[s].subs
  BY <1>0 DEF Register, Stream
<1>7. \A s \in new : s \notin table /\ \A t \in Threads : s \notin thread[t].cancel
  BY CreatedAreUnused
<1>8. Errands'
  BY <1>0, <1>1 DEF Errands
<1>9. CancelledLeft'
  BY <1>1, <1>3, <1>7 DEF WatchInv, CancelledLeft
<1>10. StartedWatches'
  BY <1>5, <1>6 DEF WatchInv, StartedWatches
<1>11. TableHoldsLiveStreams'
  BY <1>0, <1>3, <1>5, <1>6 DEF WatchInv, TableHoldsLiveStreams
<1>12. Followers' \subseteq Followers \cup table'
  <2> SUFFICES ASSUME NEW s \in Followers', s \notin table' PROVE s \in Followers
    OBVIOUS
  <2>1. s \in Streams \ new /\ s \notin joined  BY <1>3 DEF Followers
  <2>2. s \notin Unstarted(joined)  BY <2>1 DEF Unstarted
  <2>3. Pending(s)' => Pending(s)
    BY <1>1, <1>6, <2>1, <2>2 DEF Pending
  <2>. QED  BY <1>6, <2>1, <2>3 DEF Followers
<1>13. FollowersFound'
  <2> SUFFICES ASSUME NEW s \in Followers', s \notin table'
               PROVE  \E t \in Threads : s \in thread'[t].cancel
    BY DEF FollowersFound
  <2>1. \E t \in Threads : s \in thread[t].cancel
    BY <1>3, <1>12 DEF WatchInv, FollowersFound
  <2>. QED  BY <1>1, <1>2, <2>1
<1>14. StartsPending'
  <2> SUFFICES ASSUME NEW s \in table', stream'[s].subs # {}, ~ stream'[s].started
               PROVE  \E t \in Threads : s \in thread'[t].start
    BY DEF StartsPending
  <2>1. CASE s \in new \/ s \in joined
    BY <1>0, <1>1, <1>3, <1>6, <2>1 DEF Unstarted
  <2>2. CASE s \notin new /\ s \notin joined
    <3>1. \E t \in Threads : s \in thread[t].start
      BY <1>0, <1>3, <1>6, <2>2 DEF WatchInv, StartsPending
    <3>. QED  BY <1>1, <1>2, <3>1
  <2>. QED  BY <2>1, <2>2
<1>. QED  BY <1>8, <1>9, <1>10, <1>11, <1>12, <1>13, <1>14 DEF WatchInv

LEMMA ReconcileWatches ==
  ASSUME WatchInv, TypeOK', NEW o \in Owners, Reconcile(o)
  PROVE  /\ WatchInv'
         /\ Followers' \subseteq Followers \cup Created(thread[Main(o)].listing)
         /\ registered = {} => Followers' \subseteq Followers
<1> DEFINE running == thread[Main(o)].listing
           new     == Created(running)
           stale   == {s \in table : ContainerOf(s) \notin running}
<1>0. /\ Main(o) \in Threads /\ thread \in [Threads -> Thread] /\ stream \in [Streams -> Stream]
      /\ Errands /\ table \subseteq Streams
  BY DEF WatchInv, TypeOK, Threads
<1>1. /\ thread'[Main(o)].pc = "settling" /\ thread'[Main(o)].cancel = stale
      /\ thread'[Main(o)].start = Startable(new)
      /\ \A u \in Threads \ {Main(o)} : thread'[u] = thread[u]
  BY <1>0 DEF Reconcile, Resting
<1>2. thread[Main(o)].cancel = {} /\ thread[Main(o)].start = {}
  BY <1>0 DEF Reconcile, Errands
<1>3. table' = (table \ stale) \cup new  BY DEF Reconcile
<1>4. new \subseteq Streams  BY <1>3 DEF TypeOK
<1>5. \A s \in new : /\ ~ stream'[s].started /\ ~ stream'[s].cancelled
                     /\ stream'[s].watch = "none" /\ stream'[s].subs = registered
  BY <1>4 DEF Reconcile, NewStream, Matching
<1>6. \A s \in Streams \ new : stream'[s] = stream[s]
  BY <1>0 DEF Reconcile
<1>7. \A s \in new : /\ s \notin table
                     /\ \A t \in Threads : s \notin thread[t].cancel /\ s \notin thread[t].start
  BY CreatedAreUnused
<1>8. Errands'
  BY <1>0, <1>1 DEF Errands
<1>9. CancelledLeft'
  BY <1>1, <1>3, <1>7 DEF WatchInv, CancelledLeft
<1>10. StartedWatches'
  BY <1>5, <1>6 DEF WatchInv, StartedWatches
<1>11. TableHoldsLiveStreams'
  BY <1>0, <1>3, <1>5, <1>6 DEF WatchInv, TableHoldsLiveStreams
<1>12. ASSUME NEW s \in Followers', s \notin new PROVE s \in Followers
  <2>1. s \in Streams \ new  BY <1>12 DEF Followers
  <2>2. s \notin Startable(new)  BY <1>12 DEF Startable
  <2>3. Pending(s)' => Pending(s)
    BY <1>1, <1>6, <2>1, <2>2 DEF Pending
  <2>. QED  BY <1>6, <2>1, <2>3 DEF Followers
<1>13. registered = {} => Followers' \cap new = {}
  BY <1>5 DEF Followers, Pending, ActivePhase
<1>14. FollowersFound'
  <2> SUFFICES ASSUME NEW s \in Followers', s \notin table'
               PROVE  \E t \in Threads : s \in thread'[t].cancel
    BY DEF FollowersFound
  <2>1. s \in table \/ \E t \in Threads : s \in thread[t].cancel
    BY <1>3, <1>12 DEF WatchInv, FollowersFound
  <2>. QED  BY <1>0, <1>1, <1>2, <1>3, <2>1
<1>15. StartsPending'
  <2> SUFFICES ASSUME NEW s \in table', stream'[s].subs # {}, ~ stream'[s].started
               PROVE  \E t \in Threads : s \in thread'[t].start
    BY DEF StartsPending
  <2>1. CASE s \in new
    BY <1>0, <1>1, <1>5, <2>1 DEF Startable, Matching
  <2>2. CASE s \notin new
    <3>1. \E t \in Threads : s \in thread[t].start
      BY <1>0, <1>3, <1>6, <2>2 DEF WatchInv, StartsPending
    <3>. QED  BY <1>1, <1>2, <3>1
  <2>. QED  BY <2>1, <2>2
<1>. QED  BY <1>8, <1>9, <1>10, <1>11, <1>12, <1>13, <1>14, <1>15 DEF WatchInv

LEMMA CancelNextWatches ==
  ASSUME WatchInv, TypeOK', NEW t \in Threads, CancelNext(t)
  PROVE  WatchInv' /\ Followers' \subseteq Followers
<1>0. /\ thread \in [Threads -> Thread] /\ stream \in [Streams -> Stream]
      /\ thread[t].cancel \subseteq Streams
  BY DEF WatchInv, TypeOK, Thread
<1>1. PICK s \in thread[t].cancel :
        /\ stream' = [stream EXCEPT ![s].cancelled = TRUE]
        /\ thread' = [thread EXCEPT ![t].cancel = @ \ {s}]
        /\ table' = table
  BY DEF CancelNext, manager
<1>2. /\ s \in Streams /\ stream'[s].cancelled = TRUE
      /\ \A r \in Streams \ {s} : stream'[r] = stream[r]
      /\ \A r \in Streams : /\ stream'[r].subs = stream[r].subs
                            /\ stream'[r].started = stream[r].started
                            /\ stream'[r].watch = stream[r].watch
  BY <1>0, <1>1 DEF Stream
<1>3. /\ thread'[t].cancel = thread[t].cancel \ {s}
      /\ \A u \in Threads \ {t} : thread'[u] = thread[u]
      /\ \A u \in Threads : thread'[u].start = thread[u].start /\ thread'[u].pc = thread[u].pc
  BY <1>0, <1>1 DEF Thread
<1>4. s \notin table  BY <1>1 DEF WatchInv, CancelledLeft
<1>5. Errands' /\ CancelledLeft'
  BY <1>1, <1>3 DEF WatchInv, Errands, CancelledLeft
<1>6. StartedWatches'  BY <1>2 DEF WatchInv, StartedWatches
<1>7. TableHoldsLiveStreams'
  BY <1>1, <1>2, <1>4 DEF WatchInv, TableHoldsLiveStreams, TypeOK
<1>8. Followers' \subseteq Followers \ {s}
  BY <1>2, <1>3 DEF Followers, Pending
<1>9. FollowersFound'
  BY <1>1, <1>3, <1>8 DEF WatchInv, FollowersFound
<1>10. StartsPending'
  <2> SUFFICES ASSUME NEW r \in table', stream'[r].subs # {}, ~ stream'[r].started
               PROVE  \E u \in Threads : r \in thread'[u].start
    BY DEF StartsPending
  <2>1. r \in table /\ r \in Streams  BY <1>1 DEF WatchInv, TypeOK
  <2>2. \E u \in Threads : r \in thread[u].start
    BY <1>2, <2>1 DEF WatchInv, StartsPending
  <2>. QED  BY <1>3, <2>2
<1>. QED  BY <1>5, <1>6, <1>7, <1>8, <1>9, <1>10 DEF WatchInv

LEMMA StartNextWatches ==
  ASSUME WatchInv, TypeOK', NEW t \in Threads, StartNext(t)
  PROVE  WatchInv' /\ Followers' \subseteq Followers
<1>0. /\ thread \in [Threads -> Thread] /\ stream \in [Streams -> Stream]
      /\ thread[t].start \subseteq Streams
  BY DEF WatchInv, TypeOK, Thread
<1>1. PICK s \in thread[t].start :
        /\ stream' = IF stream[s].started \/ stream[s].subs = {} THEN stream
                     ELSE [stream EXCEPT ![s].started = TRUE, ![s].watch = "check"]
        /\ thread' = [thread EXCEPT ![t].start = @ \ {s}]
        /\ table' = table
  BY DEF StartNext, manager
<1>2. /\ s \in Streams
      /\ \A r \in Streams \ {s} : stream'[r] = stream[r]
      /\ \A r \in Streams : /\ stream'[r].subs = stream[r].subs
                            /\ stream'[r].cancelled = stream[r].cancelled
      /\ \/ stream'[s] = stream[s] /\ (stream[s].started \/ stream[s].subs = {})
         \/ /\ ~ stream[s].started /\ stream[s].subs # {}
            /\ stream'[s].started = TRUE /\ stream'[s].watch = "check"
  <2>1. CASE stream' = stream /\ (stream[s].started \/ stream[s].subs = {})
    BY <1>0, <2>1
  <2>2. CASE /\ stream' = [stream EXCEPT ![s].started = TRUE, ![s].watch = "check"]
             /\ ~ stream[s].started /\ stream[s].subs # {}
    BY <1>0, <2>2 DEF Stream
  <2>. QED  BY <1>1, <2>1, <2>2
<1>3. /\ thread'[t].start = thread[t].start \ {s}
      /\ \A u \in Threads \ {t} : thread'[u] = thread[u]
      /\ \A u \in Threads : thread'[u].cancel = thread[u].cancel /\ thread'[u].pc = thread[u].pc
  BY <1>0, <1>1 DEF Thread
<1>4. Errands' /\ CancelledLeft'
  BY <1>1, <1>3 DEF WatchInv, Errands, CancelledLeft
<1>5. StartedWatches'  BY <1>2 DEF WatchInv, StartedWatches
<1>6. TableHoldsLiveStreams'
  BY <1>1, <1>2 DEF WatchInv, TableHoldsLiveStreams, TypeOK
<1>7. Followers' \subseteq Followers
  BY <1>1, <1>2, <1>3 DEF Followers, Pending
<1>8. FollowersFound'
  BY <1>1, <1>3, <1>7 DEF WatchInv, FollowersFound
<1>9. StartsPending'
  BY <1>1, <1>2, <1>3 DEF WatchInv, StartsPending, TypeOK
<1>. QED  BY <1>4, <1>5, <1>6, <1>7, <1>8, <1>9 DEF WatchInv

LEMMA DetachWatches ==
  ASSUME WatchInv, TypeOK', NEW t \in Threads, Detach(t)
  PROVE  WatchInv' /\ Followers' \subseteq Followers
<1> DEFINE emptied == {s \in table : stream[s].subs \subseteq {t[1]}}
<1>0. /\ thread \in [Threads -> Thread] /\ stream \in [Streams -> Stream]
      /\ Errands /\ table \subseteq Streams
  BY DEF WatchInv, TypeOK
<1>1. /\ thread'[t].pc = "detached" /\ thread'[t].cancel = emptied /\ thread'[t].start = {}
      /\ \A u \in Threads \ {t} : thread'[u] = thread[u]
      /\ thread[t].cancel = {} /\ thread[t].start = {}
      /\ table' = table \ emptied
  BY <1>0 DEF Detach, Resting, Errands
<1>2. \A s \in Streams : /\ stream'[s].started = stream[s].started
                         /\ stream'[s].cancelled = stream[s].cancelled
                         /\ stream'[s].watch = stream[s].watch
                         /\ stream'[s].subs \subseteq stream[s].subs
  BY <1>0 DEF Detach, Stream
<1>3. Errands' /\ CancelledLeft'
  BY <1>0, <1>1 DEF WatchInv, Errands, CancelledLeft
<1>4. StartedWatches'  BY <1>2 DEF WatchInv, StartedWatches
<1>5. TableHoldsLiveStreams'
  BY <1>0, <1>1, <1>2 DEF WatchInv, TableHoldsLiveStreams
<1>6. Followers' \subseteq Followers
  <2> SUFFICES ASSUME NEW s \in Followers' PROVE s \in Followers
    OBVIOUS
  <2>1. s \in Streams  BY DEF Followers
  <2>2. Pending(s)' => Pending(s)  BY <1>1, <1>2, <2>1 DEF Pending
  <2>. QED  BY <1>2, <2>1, <2>2 DEF Followers
<1>7. FollowersFound'
  BY <1>1, <1>6 DEF WatchInv, FollowersFound
<1>8. StartsPending'
  <2> SUFFICES ASSUME NEW s \in table', stream'[s].subs # {}, ~ stream'[s].started
               PROVE  \E u \in Threads : s \in thread'[u].start
    BY DEF StartsPending
  <2>1. \E u \in Threads : s \in thread[u].start
    BY <1>0, <1>1, <1>2 DEF WatchInv, StartsPending
  <2>. QED  BY <1>1, <2>1
<1>. QED  BY <1>3, <1>4, <1>5, <1>6, <1>7, <1>8 DEF WatchInv

LEMMA CloseChannelsWatches ==
  ASSUME WatchInv, TypeOK', NEW t \in Threads, CloseChannels(t)
  PROVE  WatchInv' /\ Followers' = Followers
<1>0. thread \in [Threads -> Thread] /\ Errands  BY DEF WatchInv, TypeOK
<1>1. /\ \A u \in Threads \ {t} : thread'[u] = thread[u]
      /\ thread'[t].cancel = thread[t].cancel /\ thread'[t].start = thread[t].start
      /\ thread[t].cancel = {} /\ thread[t].start = {}
      /\ UNCHANGED <<table, stream>>
  BY <1>0 DEF CloseChannels, Thread, Errands, manager
<1>. QED  BY <1>1, ThreadsMove

LEMMA WatchInvHolds == Spec => []WatchInv
<1>1. Init => WatchInv
  <2> SUFFICES ASSUME Init PROVE WatchInv
    OBVIOUS
  <2>1. TypeOK  BY InitTyped
  <2>2. /\ table = {}
        /\ \A s \in Streams : /\ ~ stream[s].started /\ stream[s].watch = "none"
                              /\ stream[s].subs = {}
        /\ \A t \in Threads : thread[t].cancel = {} /\ thread[t].start = {}
    BY DEF Init, NewStream, Resting
  <2>3. Followers = {}  BY <2>2 DEF Followers, Pending, ActivePhase
  <2>. QED  BY <2>1, <2>2, <2>3 DEF WatchInv, Errands, CancelledLeft, StartedWatches,
              FollowersFound, TableHoldsLiveStreams, StartsPending
<1>2. WatchInv /\ TypeOK' /\ [Next]_vars => WatchInv'
  <2> SUFFICES ASSUME WatchInv, TypeOK', [Next]_vars PROVE WatchInv'
    OBVIOUS
  <2>1. CASE UNCHANGED vars
    BY <2>1, ThreadsMove DEF vars, manager
  <2>2. ASSUME NEW o \in Owners, MainStep(o) PROVE WatchInv'
    BY <2>2, MainWatches, RegisterWatches, ReconcileWatches DEF MainStep
  <2>3. ASSUME NEW t \in Threads, ThreadStep(t) PROVE WatchInv'
    BY <2>3, CancelNextWatches, StartNextWatches, DetachWatches, CloseChannelsWatches
    DEF ThreadStep
  <2>4. ASSUME NEW s \in Streams, WatchStep(s) PROVE WatchInv'
    BY <2>4, WatchFades, FadesKeeps DEF WatchInv
  <2>. QED  BY <2>1, <2>2, <2>3, <2>4, RestWatches DEF Next
<1>. QED  BY <1>1, <1>2, LogStreamTyped, PTL DEF Spec

\* The map and the goroutines agree between any two of their steps: what follows
\* can be found and cancelled, what is in the map is alive, and what waits to be
\* started will be, however Subscribe, Refresh and closeSubscription interleave.
THEOREM MapAndWatchesAgree == Spec => []WatchesAgree
<1>1. WatchInv => WatchesAgree
  <2> SUFFICES ASSUME WatchInv, NEW s \in Streams, Active(s), ~ stream[s].cancelled
               PROVE  s \in table \/ \E t \in Threads : s \in thread[t].cancel
    BY DEF WatchInv, WatchesAgree, NoOrphanFollower
  <2>1. s \in Followers  BY DEF Active, Followers, ActivePhase
  <2>. QED  BY <2>1 DEF WatchInv, FollowersFound
<1>. QED  BY <1>1, WatchInvHolds, PTL

-----------------------------------------------------------------------------
(***************************************************************************)
(* One subscription after the other.                                       *)
(***************************************************************************)
\* Between Subscribe's lock and closeSubscription's.
Serving == {"settling", "consuming", "relisted", "closing"}

\* Who has not subscribed is not registered, a ctx goroutine closes only because
\* the process ends, and finitely many subscriptions are open.
Openings ==
  /\ \A o \in Owners :
       /\ thread[Main(o)].pc \in {"idle", "listed"} => o \notin registered
       /\ thread[Ctx(o)].pc \in {"closing", "detached"} => stopped
  /\ IsFiniteSet(Open)

CtxIdle == \A o \in Owners : thread[Ctx(o)].cancel = {}

\* With one subscription after the other: the map is empty unless one is served,
\* ctx goroutines have nothing to cancel while one is listed or registered, and
\* a container has at most one follower.
InTurn ==
  /\ \A o, p \in Open : o = p
  /\ AttachedToAll
  /\ table # {} => \E o \in Owners : thread[Main(o)].pc \in Serving
  /\ \A o \in Owners : thread[Main(o)].pc = "listed" \/ o \in registered => CtxIdle
  /\ \A s, r \in Followers : ContainerOf(s) = ContainerOf(r) => s = r

Orderly == IInv /\ WatchInv /\ Openings

LEMMA OneElement ==
  ASSUME NEW S, IsFiniteSet(S), ~ (Cardinality(S) > 1), NEW x \in S, NEW y \in S
  PROVE  x = y
<1> SUFFICES ASSUME x # y PROVE FALSE
  OBVIOUS
<1>1. IsFiniteSet({x}) /\ Cardinality({x}) = 1
  BY FS_Singleton
<1>2. Cardinality({x} \cup {y}) = 2
  BY <1>1, FS_AddElement
<1>3. Cardinality({x} \cup {y}) <= Cardinality(S)
  BY FS_Subset
<1>4. Cardinality(S) \in Nat
  BY FS_CardinalityType
<1>. QED  BY <1>2, <1>3, <1>4

\* A step that neither opens nor detaches a subscription.
Calm ==
  /\ registered' \subseteq registered /\ table' \subseteq table
  /\ \A s \in table' : stream'[s].subs = stream[s].subs
  /\ stopped => stopped'
  /\ \A o \in Owners :
       /\ \/ thread'[Main(o)].pc = thread[Main(o)].pc
          \/ thread[Main(o)].pc \in Serving /\ thread'[Main(o)].pc \in Serving
          \/ thread[Main(o)].pc = "detached" /\ thread'[Main(o)].pc = "gone"
       /\ thread'[Ctx(o)].cancel \subseteq thread[Ctx(o)].cancel
       /\ thread'[Ctx(o)].pc \in {"closing", "detached"} =>
            stopped \/ thread[Ctx(o)].pc \in {"closing", "detached"}

LEMMA CalmKeeps ==
  ASSUME Calm
  PROVE  /\ Openings => Openings'
         /\ InTurn /\ Followers' \subseteq Followers => InTurn'
<1>1. Open' \subseteq Open
  BY DEF Calm, Open, Serving
<1>2. ASSUME Openings PROVE Openings'
  <2>1. IsFiniteSet(Open')
    BY <1>1, <1>2, FS_Subset DEF Openings
  <2>2. \A o \in Owners : thread'[Main(o)].pc \in {"idle", "listed"} =>
                            thread[Main(o)].pc \in {"idle", "listed"}
    BY DEF Calm, Serving
  <2>. QED  BY <1>2, <2>1, <2>2 DEF Openings, Calm
<1>3. ASSUME InTurn, Followers' \subseteq Followers PROVE InTurn'
  <2>1. AttachedToAll'
    BY <1>3 DEF Calm, InTurn, AttachedToAll
  <2>2. table' # {} => \E o \in Owners : thread'[Main(o)].pc \in Serving
    BY <1>3 DEF Calm, InTurn, Serving
  <2>3. CtxIdle => CtxIdle'
    BY DEF CtxIdle, Calm
  <2>4. \A o \in Owners : thread'[Main(o)].pc = "listed" \/ o \in registered' => CtxIdle'
    BY <1>3, <2>3 DEF Calm, InTurn, Serving
  <2>. QED  BY <1>1, <1>3, <2>1, <2>2, <2>4 DEF InTurn
<1>. QED  BY <1>2, <1>3

LEMMA WorldIsCalm ==
  ASSUME TypeOK,
         \/ (\E c \in Containers : Change(c) \/ WriteLine(c)) \/ Stop \/ CloseManager
         \/ \E s \in Streams : WatchStep(s)
         \/ UNCHANGED vars
  PROVE  Calm
<1>0. table \subseteq Streams  BY DEF TypeOK
<1>1. CASE (\E c \in Containers : Change(c) \/ WriteLine(c)) \/ Stop \/ CloseManager
  <2>1. stopped => stopped'
    BY <1>1 DEF Change, WriteLine, Stop, CloseManager
  <2>. QED  BY <1>0, <1>1, <2>1, RestKeepsSubscribers DEF Calm
<1>2. ASSUME NEW s \in Streams, WatchStep(s) PROVE Calm
  <2>1. stopped' = stopped
    BY <1>2 DEF WatchStep, Check, Connect, Refuse, Deliver, Disconnect, Resume, Leave
  <2>. QED  BY <1>0, <1>2, <2>1, WatchKeepsSubscribers DEF Calm
<1>3. CASE UNCHANGED vars
  BY <1>3 DEF vars, manager, Calm
<1>. QED  BY <1>1, <1>2, <1>3

LEMMA GoroutinesAreCalm ==
  ASSUME TypeOK,
         \/ \E o \in Owners : Settled(o) \/ Relist(o) \/ Return(o) \/ Wake(o)
         \/ \E t \in Threads : CancelNext(t) \/ StartNext(t) \/ CloseChannels(t)
  PROVE  Calm
<1>0. /\ thread \in [Threads -> Thread] /\ stream \in [Streams -> Stream] /\ table \subseteq Streams
      /\ \A o \in Owners : Main(o) \in Threads /\ Ctx(o) \in Threads /\ Main(o) # Ctx(o)
  BY DEF TypeOK, Threads
<1>1. ASSUME NEW o \in Owners, Settled(o) PROVE Calm
  <2>1. /\ thread[Main(o)].pc = "settling" /\ thread'[Main(o)].pc = "consuming"
        /\ thread'[Ctx(o)].pc \in {"waiting", thread[Ctx(o)].pc}
        /\ thread'[Ctx(o)].cancel = thread[Ctx(o)].cancel
        /\ \A u \in Threads \ {Main(o), Ctx(o)} : thread'[u] = thread[u]
        /\ UNCHANGED <<registered, table, stream, stopped>>
    BY <1>0, <1>1 DEF Settled, Resting, Thread, manager
  <2>. QED  BY <1>0, <2>1 DEF Calm, Serving
<1>2. ASSUME NEW o \in Owners, Relist(o) \/ Return(o) PROVE Calm
  <2>1. /\ thread[Main(o)].pc = "consuming" /\ thread'[Main(o)].pc \in Serving
        /\ \A u \in Threads \ {Main(o)} : thread'[u] = thread[u]
        /\ UNCHANGED <<registered, table, stream, stopped>>
    BY <1>0, <1>2 DEF Relist, Return, Resting, Thread, Serving, manager
  <2>. QED  BY <1>0, <2>1 DEF Calm, Serving
<1>3. ASSUME NEW o \in Owners, Wake(o) PROVE Calm
  <2>1. /\ (thread'[Ctx(o)].pc = "closing" /\ stopped) \/ thread'[Ctx(o)].pc = "gone"
        /\ thread'[Ctx(o)].cancel = thread[Ctx(o)].cancel
        /\ \A u \in Threads \ {Ctx(o)} : thread'[u] = thread[u]
        /\ UNCHANGED <<registered, table, stream, stopped>>
    BY <1>0, <1>3 DEF Wake, Thread, manager
  <2>. QED  BY <1>0, <2>1 DEF Calm
<1>4. ASSUME NEW t \in Threads, CancelNext(t) \/ StartNext(t) PROVE Calm
  <2>1. PICK s \in thread[t].cancel \cup thread[t].start :
             /\ \/ thread' = [thread EXCEPT ![t].cancel = @ \ {s}]
                \/ thread' = [thread EXCEPT ![t].start = @ \ {s}]
             /\ \/ stream' = [stream EXCEPT ![s].cancelled = TRUE]
                \/ stream' = stream
                \/ stream' = [stream EXCEPT ![s].started = TRUE, ![s].watch = "check"]
             /\ UNCHANGED <<registered, table, stopped>>
    BY <1>4 DEF CancelNext, StartNext, manager
  <2>2. \A u \in Threads : /\ thread'[u].pc = thread[u].pc
                           /\ thread'[u].cancel \subseteq thread[u].cancel
    <3>1. CASE thread' = [thread EXCEPT ![t].cancel = @ \ {s}]
      BY <1>0, <3>1 DEF Thread
    <3>2. CASE thread' = [thread EXCEPT ![t].start = @ \ {s}]
      BY <1>0, <3>2 DEF Thread
    <3>. QED  BY <2>1, <3>1, <3>2
  <2>3. \A r \in Streams : stream'[r].subs = stream[r].subs
    <3>1. CASE stream' = [stream EXCEPT ![s].cancelled = TRUE]
      BY <1>0, <3>1 DEF Stream
    <3>2. CASE stream' = [stream EXCEPT ![s].started = TRUE, ![s].watch = "check"]
      BY <1>0, <3>2 DEF Stream
    <3>. QED  BY <2>1, <3>1, <3>2
  <2>. QED  BY <1>0, <2>1, <2>2, <2>3 DEF Calm
<1>5. ASSUME NEW t \in Threads, CloseChannels(t) PROVE Calm
  <2>1. /\ thread[t].pc = "detached" /\ thread'[t].pc = "gone"
        /\ thread'[t].cancel = thread[t].cancel
        /\ \A u \in Threads \ {t} : thread'[u] = thread[u]
        /\ UNCHANGED <<registered, table, stream, stopped>>
    BY <1>0, <1>5 DEF CloseChannels, Thread, manager
  <2>. QED  BY <1>0, <2>1 DEF Calm
<1>. QED  BY <1>1, <1>2, <1>3, <1>4, <1>5

\* Who is registered is served; who is about to cancel streams is served, or
\* closes for the ctx goroutine.
LEMMA RegisteredAreServed ==
  ASSUME Orderly, NEW o \in registered
  PROVE  o \in Open /\ thread[Main(o)].pc \in Serving
<1>1. o \in Owners /\ Main(o) \in Threads  BY DEF Orderly, IInv, TypeOK, Threads
<1>2. /\ thread[Main(o)].pc \in MainPhase
      /\ thread[Main(o)].pc \notin {"idle", "listed", "detached", "gone"}
  BY <1>1 DEF Orderly, IInv, LivesOnce, Openings
<1>. QED  BY <1>1, <1>2 DEF MainPhase, Open, Serving

LEMMA ErrandsOfOthers ==
  ASSUME Orderly, InTurn, CtxIdle, NEW o \in Owners, NEW t \in Threads,
         o \in Open, thread[Main(o)].pc \in {"listed", "relisted"}
  PROVE  thread[t].cancel = {}
<1>1. t = Main(t[1]) \/ t = Ctx(t[1])  BY DEF Threads
<1>2. t[1] \in Owners  BY DEF Threads
<1>3. CASE t = Ctx(t[1])  BY <1>2, <1>3 DEF CtxIdle
<1>4. CASE t = Main(t[1])
  <2>1. t[1] \notin Open \/ t[1] = o  BY DEF InTurn
  <2>2. thread[t].pc \in {"idle", "gone", "listed", "relisted"}
    BY <1>2, <1>4, <2>1 DEF Open
  <2>. QED  BY <2>2 DEF Orderly, WatchInv, Errands
<1>. QED  BY <1>1, <1>3, <1>4

\* A step that opens at most one subscription.
LEMMA StillFinite ==
  ASSUME IsFiniteSet(Open), NEW o \in Owners,
         \A p \in Owners \ {o} : thread'[Main(p)].pc = thread[Main(p)].pc
  PROVE  IsFiniteSet(Open')
<1>1. Open' \subseteq Open \cup {o}  BY DEF Open
<1>2. IsFiniteSet(Open \cup {o})  BY FS_AddElement
<1>. QED  BY <1>1, <1>2, FS_Subset

LEMMA ListKeepsTurns ==
  ASSUME Orderly, TypeOK', NEW o \in Owners, List(o)
  PROVE  Openings' /\ (InTurn /\ ~ (Cardinality(Open') > 1) => InTurn')
<1>0. /\ thread \in [Threads -> Thread] /\ Main(o) \in Threads
      /\ \A p \in Owners : Main(p) \in Threads /\ Ctx(p) \in Threads
  BY DEF Orderly, IInv, TypeOK, Threads
<1>1. /\ thread[Main(o)].pc = "idle" /\ thread'[Main(o)].pc = "listed"
      /\ \A u \in Threads \ {Main(o)} : thread'[u] = thread[u]
      /\ UNCHANGED <<registered, table, stream, stopped>> /\ ~ stopped
  BY <1>0 DEF List, Resting, manager
<1>2. IsFiniteSet(Open')
  BY <1>0, <1>1, StillFinite DEF Orderly, Openings
<1>3. Openings'
  BY <1>0, <1>1, <1>2 DEF Orderly, Openings
<1>4. ASSUME InTurn, ~ (Cardinality(Open') > 1) PROVE InTurn'
  <2>1. \A p, q \in Open' : p = q
    BY <1>2, <1>4, OneElement
  <2>2. CtxIdle
    <3> SUFFICES ASSUME NEW p \in Owners PROVE thread[Ctx(p)].cancel = {}
      BY DEF CtxIdle
    <3>1. thread[Ctx(p)].pc \in CtxPhase \ {"closing", "detached"}
      BY <1>1 DEF Orderly, Openings, IInv, LivesOnce
    <3>. QED  BY <1>0, <3>1 DEF Orderly, WatchInv, Errands, CtxPhase
  <2>3. CtxIdle'
    BY <1>0, <1>1, <2>2 DEF CtxIdle
  <2>4. Followers' = Followers
    BY MainWatches DEF Orderly
  <2>5. table' # {} => \E p \in Owners : thread'[Main(p)].pc \in Serving
    BY <1>0, <1>1, <1>4 DEF InTurn, Serving
  <2>. QED  BY <1>1, <1>4, <2>1, <2>3, <2>4, <2>5 DEF InTurn, AttachedToAll
<1>. QED  BY <1>3, <1>4

LEMMA RegisterKeepsTurns ==
  ASSUME Orderly, TypeOK', NEW o \in Owners, Register(o)
  PROVE  Openings' /\ (InTurn => InTurn')
<1> DEFINE new == Created(thread[Main(o)].listing)
<1>0. /\ thread \in [Threads -> Thread] /\ Main(o) \in Threads /\ table \subseteq Streams
      /\ \A p \in Owners : Main(p) \in Threads /\ Ctx(p) \in Threads
  BY DEF Orderly, IInv, TypeOK, Threads
<1>1. /\ thread[Main(o)].pc = "listed" /\ thread'[Main(o)].pc = "settling"
      /\ \A u \in Threads \ {Main(o)} : thread'[u] = thread[u]
      /\ stopped' = stopped /\ registered' = registered \cup {o} /\ table' = table \cup new
  BY <1>0 DEF Register, Resting
<1>2. IsFiniteSet(Open')
  BY <1>0, <1>1, StillFinite DEF Orderly, Openings
<1>3. Openings'
  BY <1>0, <1>1, <1>2 DEF Orderly, Openings
<1>4. ASSUME InTurn PROVE InTurn'
  <2>1. o \in Open /\ Open' \subseteq Open
    BY <1>0, <1>1 DEF Open
  <2>2. table = {}
    BY <1>1, <1>4, <2>1 DEF InTurn, Open, Serving
  <2>3. registered = {}
    BY <1>1, <1>4, <2>1, RegisteredAreServed DEF InTurn, Serving
  <2>4. CtxIdle
    BY <1>1, <1>4 DEF InTurn
  <2>5. Followers = {}
    BY <1>1, <1>4, <2>1, <2>2, <2>4, ErrandsOfOthers DEF Orderly, WatchInv, FollowersFound
  <2>6. \A s, r \in Followers' : ContainerOf(s) = ContainerOf(r) => s = r
    BY <2>5, RegisterWatches DEF Orderly, TypeOK
  <2>7. \A s \in table' : s \in Streams /\ s \in new
    BY <1>1, <2>2 DEF TypeOK
  <2>8. \A s \in table' : stream'[s].subs = {o}
    BY <2>7 DEF Register, NewStream
  <2>9. AttachedToAll'
    BY <1>1, <2>3, <2>8 DEF AttachedToAll
  <2>10. CtxIdle'
    BY <1>0, <1>1, <2>4 DEF CtxIdle
  <2>11. \E p \in Owners : thread'[Main(p)].pc \in Serving
    BY <1>1 DEF Serving
  <2>. QED  BY <1>4, <2>1, <2>6, <2>9, <2>10, <2>11 DEF InTurn
<1>. QED  BY <1>3, <1>4

LEMMA ReconcileKeepsTurns ==
  ASSUME Orderly, TypeOK', NEW o \in Owners, Reconcile(o)
  PROVE  Openings' /\ (InTurn => InTurn')
<1> DEFINE new == Created(thread[Main(o)].listing)
<1>0. /\ thread \in [Threads -> Thread] /\ Main(o) \in Threads /\ table \subseteq Streams
      /\ \A p \in Owners : Main(p) \in Threads /\ Ctx(p) \in Threads
      /\ thread[Main(o)].listing \in SUBSET Containers
  BY DEF Orderly, IInv, TypeOK, Threads, Thread
<1>1. /\ thread[Main(o)].pc = "relisted" /\ thread'[Main(o)].pc = "settling"
      /\ \A u \in Threads \ {Main(o)} : thread'[u] = thread[u]
      /\ stopped' = stopped /\ registered' = registered /\ table' \subseteq table \cup new
  BY <1>0 DEF Reconcile, Resting
<1>2. IsFiniteSet(Open')
  BY <1>0, <1>1, StillFinite DEF Orderly, Openings
<1>3. Openings'
  BY <1>0, <1>1, <1>2 DEF Orderly, Openings
<1>4. ASSUME InTurn PROVE InTurn'
  <2>1. o \in Open /\ Open' \subseteq Open
    BY <1>0, <1>1 DEF Open
  <2>2. \A s, r \in Followers' : ContainerOf(s) = ContainerOf(r) => s = r
    <3>1. CASE registered = {}
      BY <1>4, <3>1, ReconcileWatches DEF Orderly, InTurn
    <3>2. CASE registered # {}
      <4>1. CtxIdle
        BY <1>4, <3>2 DEF InTurn, Orderly, IInv, TypeOK
      <4>2. Followers \subseteq table
        BY <1>1, <1>4, <2>1, <4>1, ErrandsOfOthers DEF Orderly, WatchInv, FollowersFound
      <4>3. Followers' \subseteq Followers \cup new
        BY ReconcileWatches DEF Orderly
      <4>4. /\ \A s \in new, t \in table : ContainerOf(s) # ContainerOf(t)
            /\ \A s, t \in new : ContainerOf(s) = ContainerOf(t) => s = t
        BY <1>0, CreatedStreams
      <4>5. \A s, t \in table : ContainerOf(s) = ContainerOf(t) => s = t
        BY DEF Orderly, IInv, TypeOK
      <4>. QED  BY <4>2, <4>3, <4>4, <4>5
    <3>. QED  BY <3>1, <3>2
  <2>3. ASSUME NEW s \in table' PROVE registered' \subseteq stream'[s].subs
    <3>1. s \in Streams  BY DEF TypeOK
    <3>2. CASE s \in new
      BY <1>1, <3>1, <3>2 DEF Reconcile, NewStream, Matching
    <3>3. CASE s \notin new
      BY <1>1, <1>4, <3>1, <3>3 DEF Reconcile, InTurn, AttachedToAll
    <3>. QED  BY <3>2, <3>3
  <2>4. CtxIdle => CtxIdle'
    BY <1>0, <1>1 DEF CtxIdle
  <2>5. \A p \in Owners : thread'[Main(p)].pc = "listed" \/ p \in registered' => CtxIdle'
    BY <1>0, <1>1, <1>4, <2>4 DEF InTurn
  <2>6. \E p \in Owners : thread'[Main(p)].pc \in Serving
    BY <1>1 DEF Serving
  <2>. QED  BY <1>4, <2>1, <2>2, <2>3, <2>5, <2>6 DEF InTurn, AttachedToAll
<1>. QED  BY <1>3, <1>4

LEMMA DetachKeepsTurns ==
  ASSUME Orderly, TypeOK', NEW t \in Threads, Detach(t)
  PROVE  Openings' /\ (InTurn => InTurn')
<1> DEFINE o       == t[1]
           emptied == {s \in table : stream[s].subs \subseteq {o}}
<1>0. /\ thread \in [Threads -> Thread] /\ stream \in [Streams -> Stream]
      /\ table \subseteq Streams /\ o \in Owners /\ (t = Main(o) \/ t = Ctx(o))
      /\ \A p \in Owners : /\ Main(p) \in Threads /\ Ctx(p) \in Threads
                           /\ \A q \in Owners : Main(p) # Ctx(q)
  BY DEF Orderly, IInv, TypeOK, Threads
<1>1. /\ thread[t].pc = "closing" /\ thread'[t].pc = "detached" /\ thread'[t].cancel = emptied
      /\ \A u \in Threads \ {t} : thread'[u] = thread[u]
      /\ stopped' = stopped /\ registered' = registered \ {o} /\ table' = table \ emptied
  BY <1>0 DEF Detach, Resting
<1>2. Open' \subseteq Open
  BY <1>0, <1>1 DEF Open
<1>3. Openings'
  <2>1. IsFiniteSet(Open')
    BY <1>2, FS_Subset DEF Orderly, Openings
  <2>. QED  BY <1>0, <1>1, <2>1 DEF Orderly, Openings
<1>4. ASSUME InTurn PROVE InTurn'
  <2>1. \A s \in table' : stream'[s].subs = stream[s].subs \ {o}
    BY <1>0, <1>1 DEF Detach, Stream
  <2>2. AttachedToAll'
    BY <1>1, <1>4, <2>1 DEF InTurn, AttachedToAll
  <2>3. Followers' \subseteq Followers
    BY DetachWatches DEF Orderly
  <2>4. table' # {} => \E p \in Owners : thread'[Main(p)].pc \in Serving
    <3>1. CASE t = Main(o)
      <4>1. o \in Open
        BY <1>0, <1>1, <3>1 DEF Open
      <4>2. registered \subseteq {o}
        BY <1>4, <4>1, RegisteredAreServed DEF InTurn
      <4>3. \A s \in table : stream[s].subs \subseteq {o}
        BY <4>2 DEF Orderly, IInv, MapSendsToOpenChannels
      <4>. QED  BY <1>1, <4>3
    <3>2. CASE t = Ctx(o)
      <4>1. \A p \in Owners : thread'[Main(p)] = thread[Main(p)]
        BY <1>0, <1>1, <3>2
      <4>. QED  BY <1>1, <1>4, <4>1 DEF InTurn
    <3>. QED  BY <1>0, <3>1, <3>2
  <2>5. ASSUME NEW p \in Owners, thread'[Main(p)].pc = "listed" \/ p \in registered'
        PROVE  CtxIdle'
    <3>1. thread[Main(p)].pc = "listed" \/ p \in registered
      BY <1>0, <1>1, <2>5
    <3>2. CtxIdle
      BY <1>4, <3>1 DEF InTurn
    <3>3. CASE t = Main(o)
      BY <1>0, <1>1, <3>2, <3>3 DEF CtxIdle
    <3>4. CASE t = Ctx(o)
      <4>1. emptied = {}
        <5>1. CASE p \in registered'
          BY <1>1, <1>4, <5>1 DEF InTurn, AttachedToAll
        <5>2. CASE p \notin registered'
          <6>1. thread[Main(p)].pc = "listed" /\ p \in Open
            BY <1>0, <1>1, <2>5, <5>2, <3>4 DEF Open
          <6>2. table = {}
            BY <1>4, <6>1 DEF InTurn, Open, Serving
          <6>. QED  BY <6>2
        <5>. QED  BY <5>1, <5>2
      <4>. QED  BY <1>0, <1>1, <3>2, <3>4, <4>1 DEF CtxIdle
    <3>. QED  BY <1>0, <3>3, <3>4
  <2>. QED  BY <1>2, <1>4, <2>2, <2>3, <2>4, <2>5 DEF InTurn
<1>. QED  BY <1>3, <1>4

LEMMA OrderlyStep ==
  ASSUME Orderly, TypeOK', [Next]_vars
  PROVE  Openings' /\ (InTurn /\ ~ (Cardinality(Open') > 1) => InTurn')
<1>0. TypeOK /\ WatchInv  BY DEF Orderly, IInv
<1>1. CASE \/ (\E c \in Containers : Change(c) \/ WriteLine(c)) \/ Stop \/ CloseManager
           \/ \E s \in Streams : WatchStep(s)
           \/ UNCHANGED vars
  <2>1. Followers' \subseteq Followers
    <3>1. CASE UNCHANGED vars
      BY <1>0, <3>1, ThreadsMove DEF vars, manager
    <3>2. ASSUME NEW s \in Streams, WatchStep(s) PROVE Followers' \subseteq Followers
      BY <1>0, <3>2, WatchFades, FadesKeeps
    <3>. QED  BY <1>0, <1>1, <3>1, <3>2, RestWatches
  <2>. QED  BY <1>0, <1>1, <2>1, WorldIsCalm, CalmKeeps DEF Orderly
<1>2. ASSUME NEW o \in Owners, Settled(o) \/ Relist(o) \/ Return(o) \/ Wake(o)
      PROVE  Openings' /\ (InTurn => InTurn')
  BY <1>0, <1>2, GoroutinesAreCalm, MainWatches, CalmKeeps DEF Orderly
<1>3. ASSUME NEW t \in Threads, CancelNext(t) \/ StartNext(t) \/ CloseChannels(t)
      PROVE  Openings' /\ (InTurn => InTurn')
  BY <1>0, <1>3, GoroutinesAreCalm, CancelNextWatches, StartNextWatches, CloseChannelsWatches,
     CalmKeeps DEF Orderly
<1>. QED  BY <1>1, <1>2, <1>3, ListKeepsTurns, RegisterKeepsTurns, ReconcileKeepsTurns,
            DetachKeepsTurns DEF Next, MainStep, ThreadStep

LEMMA OrderlyHolds == Spec => []Orderly
<1>1. Init => Openings
  <2> SUFFICES ASSUME Init PROVE Openings
    OBVIOUS
  <2>1. \A o \in Owners : thread[Main(o)].pc = "idle" /\ thread[Ctx(o)].pc = "none"
    BY DEF Init, Resting, Threads
  <2>2. Open = {}
    BY <2>1 DEF Open
  <2>. QED  BY <2>1, <2>2, FS_EmptySet DEF Openings, Init
<1>2. IInv /\ WatchInv /\ Openings /\ IInv' /\ [Next]_vars => Openings'
  BY OrderlyStep DEF Orderly, IInv
<1>. QED  BY <1>1, <1>2, IInvHolds, WatchInvHolds, PTL DEF Spec, Orderly

\* In a process that opens one subscription after the other, each container has
\* at most one follow stream, and the subscriber is attached to every stream of
\* the map, however Refresh, the context's end and the watches interleave.
THEOREM OneFollowInTurn == TurnsSpec => []ServedInTurn
<1> DEFINE TurnInv == overlapped \in BOOLEAN /\ (~ overlapped => InTurn)
<1>1. TurnsSpec => Spec
  <2>1. [TurnsNext]_<<vars, overlapped>> => [Next]_vars
    BY DEF TurnsNext
  <2>. QED  BY <2>1, PTL DEF TurnsSpec, TurnsInit, Spec
<1>2. TurnsInit => TurnInv
  <2> SUFFICES ASSUME Init PROVE InTurn
    BY DEF TurnsInit
  <2>1. \A o \in Owners : thread[Main(o)].pc = "idle"
    BY DEF Init, Resting, Threads
  <2>2. /\ table = {} /\ registered = {}
        /\ \A s \in Streams : stream[s].watch = "none" /\ stream[s].subs = {}
    BY DEF Init, NewStream
  <2>3. Followers = {}
    BY <2>2 DEF Followers, Pending, ActivePhase
  <2>. QED  BY <2>1, <2>2, <2>3 DEF InTurn, Open, AttachedToAll
<1>3. Orderly /\ Orderly' /\ TurnInv /\ [TurnsNext]_<<vars, overlapped>> => TurnInv'
  <2> SUFFICES ASSUME Orderly, Orderly', TurnInv, [TurnsNext]_<<vars, overlapped>>
               PROVE  TurnInv'
    OBVIOUS
  <2>1. TypeOK'  BY DEF Orderly, IInv
  <2>2. CASE TurnsNext
    BY <2>1, <2>2, OrderlyStep DEF TurnsNext
  <2>3. CASE UNCHANGED <<vars, overlapped>>
    <3>1. InTurn => InTurn'
      BY <2>3, WorldIsCalm, CalmKeeps, ThreadsMove DEF Orderly, IInv, vars, manager
    <3>. QED  BY <2>3, <3>1
  <2>. QED  BY <2>2, <2>3
<1>4. TurnInv => ServedInTurn
  <2> SUFFICES ASSUME InTurn PROVE AtMostOneFollow /\ AttachedToAll
    BY DEF ServedInTurn
  <2>1. \A s \in Streams : stream[s].watch = "follow" /\ ~ stream[s].cancelled => s \in Followers
    BY DEF Followers, ActivePhase
  <2>. QED  BY <2>1 DEF InTurn, AtMostOneFollow
<1>5. TurnsSpec => []Orderly
  BY <1>1, OrderlyHolds
<1>. QED  BY <1>2, <1>3, <1>4, <1>5, PTL DEF TurnsSpec

-----------------------------------------------------------------------------
(***************************************************************************)
(* Lines seen again.                                                       *)
(***************************************************************************)
\* A line is in the second it starts from.
LEMMA SecondStarts ==
  ASSUME NEW n \in Int
  PROVE  SecondOf(n) \in Int /\ SecondOf(n) <= n /\ n < SecondOf(n) + PerSecond
<1>1. PerSecond \in Nat \ {0}  BY LogStreamAssumption DEF LogStreamAssumption
<1>2. (n - 1) % PerSecond \in 0 .. PerSecond - 1  BY <1>1
<1>. QED  BY <1>1, <1>2 DEF SecondOf

\* A second that starts by line n starts by the start of n's second.
LEMMA SecondsInOrder ==
  ASSUME NEW m \in Int, NEW n \in Int, SecondOf(m) <= n
  PROVE  SecondOf(m) <= SecondOf(n)
<1> DEFINE q == (m - 1) \div PerSecond
           r == (n - 1) \div PerSecond
<1>1. PerSecond \in Nat \ {0}  BY LogStreamAssumption DEF LogStreamAssumption
<1>2. q \in Int /\ r \in Int  BY <1>1
<1>3. m - 1 = PerSecond * q + ((m - 1) % PerSecond)  BY <1>1
<1>4. n - 1 = PerSecond * r + ((n - 1) % PerSecond)  BY <1>1
<1>5. (n - 1) % PerSecond \in 0 .. PerSecond - 1 /\ (m - 1) % PerSecond \in 0 .. PerSecond - 1  BY <1>1
<1>. HIDE DEF q, r
<1>6. PerSecond * q \in Int /\ PerSecond * r \in Int  BY <1>1, <1>2
<1>7. SecondOf(m) = PerSecond * q + 1 /\ SecondOf(n) = PerSecond * r + 1
  BY <1>1, <1>3, <1>4, <1>5, <1>6 DEF SecondOf
<1>8. PerSecond * q < PerSecond * r + PerSecond
  BY <1>1, <1>4, <1>5, <1>6, <1>7
<1>9. q <= r
  <2> SUFFICES ASSUME q >= r + 1 PROVE FALSE
    BY <1>2
  <2>1. PerSecond * q >= PerSecond * (r + 1)  BY <1>1, <1>2
  <2>2. PerSecond * (r + 1) = PerSecond * r + PerSecond  BY <1>1, <1>2
  <2>. QED  BY <1>1, <1>6, <1>8, <2>1, <2>2
<1>10. PerSecond * q <= PerSecond * r  BY <1>1, <1>2, <1>9
<1>. QED  BY <1>6, <1>7, <1>10

Times(r) == {r.since} \cup {r.shown[i] : i \in DOMAIN r.shown}

\* What a stream publishes never falls behind the second of what it published
\* before, there is a last line, and a connection continues from its second.
Replays(r) ==
  /\ \A i, j \in DOMAIN r.shown : i < j => r.shown[j] >= SecondOf(r.shown[i])
  /\ \E t \in Times(r) : \A u \in Times(r) : u <= t
  /\ r.watch = "follow" => \A i \in DOMAIN r.shown : r.pos >= SecondOf(r.shown[i])
  /\ PerSecond <= MaxSeen =>
       \A i, j \in DOMAIN r.shown : r.shown[i] = r.shown[j] => i = j

ReplayInv == TypeOK /\ \A s \in Streams : Replays(stream[s])

LEMMA NewReplays ==
  ASSUME NEW os, NEW time \in Nat
  PROVE  Replays(NewStream(os, time))
BY DEF Replays, NewStream, Times

\* A step of a stream that publishes nothing and does not connect.
LEMMA SameReplays ==
  ASSUME NEW r, NEW q, Replays(r), q.shown = r.shown, q.since = r.since,
         q.watch = "follow" => r.watch = "follow" /\ q.pos = r.pos
  PROVE  Replays(q)
BY DEF Replays, Times

\* LastSeen is no earlier than any line published.
LEMMA LastSeenIsLast ==
  ASSUME NEW s \in Streams, stream[s] \in Stream, Replays(stream[s])
  PROVE  /\ LastSeen(s) \in Int
         /\ \A i \in DOMAIN stream[s].shown : stream[s].shown[i] <= LastSeen(s)
<1> DEFINE r == stream[s]
<1>1. LastSeen(s) = CHOOSE t \in Times(r) : \A u \in Times(r) : u <= t
  BY DEF LastSeen, Times
<1>2. \E t \in Times(r) : \A u \in Times(r) : u <= t
  BY DEF Replays
<1>3. LastSeen(s) \in Times(r) /\ \A u \in Times(r) : u <= LastSeen(s)
  BY <1>1, <1>2
<1>4. /\ \A i \in DOMAIN r.shown : r.shown[i] \in Int /\ r.shown[i] \in Times(r)
      /\ r.since \in Int
  BY DEF Stream, Times
<1>. QED  BY <1>3, <1>4 DEF Times

LEMMA LinesOfASecond ==
  ASSUME NEW a \in Int, NEW p \in Nat \ {0}
  PROVE  IsFiniteSet(a .. a + p - 1) /\ Cardinality(a .. a + p - 1) = p
<1>1. /\ a + p - 1 \in Int /\ ~ (a > a + p - 1) /\ (a + p - 1) - a + 1 = p
  OBVIOUS
<1>2. \A b \in Int : ~ (a > b) => IsFiniteSet(a .. b) /\ Cardinality(a .. b) = b - a + 1
  BY FS_Interval
<1>. QED  BY <1>1, <1>2

\* A line that the cache has forgotten is not published again: since it was
\* published, more lines of its second have been than fit in one.
LEMMA ForgottenIsPast ==
  ASSUME NEW r \in Stream, Replays(r), PerSecond <= MaxSeen,
         NEW n \in Int, \A i \in DOMAIN r.shown : n >= SecondOf(r.shown[i]),
         NEW i \in DOMAIN r.shown, i <= Len(r.shown) - MaxSeen
  PROVE  r.shown[i] # n
<1> SUFFICES ASSUME r.shown[i] = n PROVE FALSE
  OBVIOUS
<1> DEFINE S == i .. Len(r.shown)
           T == SecondOf(n) .. SecondOf(n) + PerSecond - 1
           f == [j \in S |-> r.shown[j]]
<1>0. /\ PerSecond \in Nat \ {0} /\ MaxSeen \in Nat \ {0} /\ r.shown \in Seq(Int)
      /\ SecondOf(n) \in Int
  BY SecondStarts, LogStreamAssumption DEF LogStreamAssumption, Stream
<1>1. i \in 1 .. Len(r.shown) /\ Len(r.shown) \in Nat /\ S \subseteq DOMAIN r.shown
  BY <1>0
<1>2. IsFiniteSet(S) /\ Cardinality(S) = Len(r.shown) - i + 1
  <2>1. i \in Int /\ Len(r.shown) \in Int /\ ~ (i > Len(r.shown))
    BY <1>1
  <2>. QED  BY ONLY <2>1, FS_Interval
<1>3. IsFiniteSet(T) /\ Cardinality(T) = PerSecond
  BY ONLY <1>0, LinesOfASecond
<1>4. Cardinality(T) < Cardinality(S)
  BY <1>0, <1>1, <1>2, <1>3
<1>5. ASSUME NEW j \in S PROVE r.shown[j] \in T
  <2>1. r.shown[j] \in Int /\ j \in DOMAIN r.shown /\ j >= i
    BY <1>0, <1>1
  <2>2. r.shown[j] >= SecondOf(n)
    <3>1. CASE j = i
      BY <3>1, SecondStarts
    <3>2. CASE j # i
      <4>1. i < j  BY <1>1, <2>1, <3>2
      <4>. QED  BY <2>1, <4>1 DEF Replays
    <3>. QED  BY <3>1, <3>2
  <2>3. SecondOf(r.shown[j]) <= SecondOf(n)
    BY <2>1, SecondsInOrder
  <2>4. r.shown[j] < SecondOf(r.shown[j]) + PerSecond /\ SecondOf(r.shown[j]) \in Int
    BY <2>1, SecondStarts
  <2>. QED  BY <1>0, <2>1, <2>2, <2>3, <2>4
<1>6. f \in [S -> T]
  BY <1>5
<1>. HIDE DEF S, T
<1>7. \E x, y \in S : x # y /\ f[x] = f[y]
  <2>. HIDE DEF f
  <2>. QED  BY <1>2, <1>3, <1>4, <1>6, FS_PigeonHole
<1>. QED  BY <1>1, <1>7 DEF Replays

LEMMA ConnectReplays ==
  ASSUME ReplayInv, NEW s \in Streams, Connect(s)
  PROVE  \A r \in Streams : Replays(stream'[r])
<1>0. stream \in [Streams -> Stream] /\ stream[s] \in Stream /\ Replays(stream[s])
  BY DEF ReplayInv, TypeOK
<1>1. PICK n \in SecondOf(LastSeen(s)) .. Now :
             stream' = [stream EXCEPT ![s].watch = "follow", ![s].pos = n]
  BY DEF Connect
<1>2. /\ \A r \in Streams \ {s} : stream'[r] = stream[r]
      /\ stream'[s].shown = stream[s].shown /\ stream'[s].since = stream[s].since
      /\ stream'[s].pos = n
  BY <1>0, <1>1 DEF Stream
<1>3. ASSUME NEW i \in DOMAIN stream[s].shown PROVE n >= SecondOf(stream[s].shown[i])
  <2>1. /\ stream[s].shown[i] \in Int /\ LastSeen(s) \in Int
        /\ stream[s].shown[i] <= LastSeen(s)
    BY <1>0, LastSeenIsLast DEF Stream
  <2>2. /\ SecondOf(stream[s].shown[i]) \in Int /\ SecondOf(LastSeen(s)) \in Int
        /\ SecondOf(stream[s].shown[i]) <= stream[s].shown[i]
    BY <2>1, SecondStarts
  <2>3. SecondOf(stream[s].shown[i]) <= SecondOf(LastSeen(s))
    BY <2>1, <2>2, SecondsInOrder
  <2>. QED  BY <2>2, <2>3, <1>1
<1>4. Replays(stream'[s])
  BY <1>0, <1>2, <1>3 DEF Replays, Times
<1>. QED  BY <1>2, <1>4 DEF ReplayInv

LEMMA DeliverReplays ==
  ASSUME ReplayInv, NEW s \in Streams, Deliver(s)
  PROVE  \A r \in Streams : Replays(stream'[r])
<1>0. stream \in [Streams -> Stream] /\ stream[s] \in Stream /\ Replays(stream[s])
  BY DEF ReplayInv, TypeOK
<1>1. PICK n \in stream[s].pos .. Len(log) :
             IF n \in Seen(s) THEN stream' = [stream EXCEPT ![s].pos = n + 1]
             ELSE stream' = [stream EXCEPT ![s].pos = n + 1, ![s].shown = Append(@, n)]
  BY DEF Deliver
<1> DEFINE r == stream[s]
<1>2. /\ r.shown \in Seq(Int) /\ r.since \in Int /\ r.pos \in Int /\ n \in Int /\ n >= r.pos
      /\ r.watch = "follow"
  BY <1>0, <1>1 DEF Stream, Deliver
<1>3. \A i \in DOMAIN r.shown : n >= SecondOf(r.shown[i])
  <2> SUFFICES ASSUME NEW i \in DOMAIN r.shown PROVE n >= SecondOf(r.shown[i])
    OBVIOUS
  <2>1. r.shown[i] \in Int
    BY <1>2
  <2>2. SecondOf(r.shown[i]) \in Int
    BY <2>1, SecondStarts
  <2>3. r.pos >= SecondOf(r.shown[i])
    BY <1>0, <1>2 DEF Replays
  <2>. QED  BY <1>2, <2>2, <2>3
<1>4. CASE n \in Seen(s)
  <2>1. /\ \A q \in Streams \ {s} : stream'[q] = stream[q]
        /\ stream'[s].shown = r.shown /\ stream'[s].since = r.since /\ stream'[s].pos = n + 1
    BY <1>0, <1>1, <1>4 DEF Stream
  <2>2. \A i \in DOMAIN r.shown : n + 1 >= SecondOf(r.shown[i])
    <3> SUFFICES ASSUME NEW i \in DOMAIN r.shown PROVE n + 1 >= SecondOf(r.shown[i])
      OBVIOUS
    <3>1. r.shown[i] \in Int  BY <1>2
    <3>2. SecondOf(r.shown[i]) \in Int  BY <3>1, SecondStarts
    <3>. QED  BY <1>2, <1>3, <3>2
  <2>3. Replays(stream'[s])
    <3>1. Times(stream'[s]) = Times(r)
      BY <2>1 DEF Times
    <3>. QED  BY <1>0, <2>1, <2>2, <3>1 DEF Replays
  <2>. QED  BY <2>1, <2>3 DEF ReplayInv
<1>5. CASE n \notin Seen(s)
  <2> DEFINE q == stream'[s]
  <2>1. /\ \A u \in Streams \ {s} : stream'[u] = stream[u]
        /\ q.shown = Append(r.shown, n) /\ q.since = r.since /\ q.pos = n + 1
    BY <1>0, <1>1, <1>5 DEF Stream
  <2>. HIDE DEF q
  <2>2. /\ Len(r.shown) \in Nat /\ DOMAIN r.shown = 1 .. Len(r.shown)
        /\ DOMAIN q.shown = 1 .. Len(r.shown) + 1
        /\ \A i \in 1 .. Len(r.shown) : q.shown[i] = r.shown[i] /\ r.shown[i] \in Int
        /\ q.shown[Len(r.shown) + 1] = n
    BY <1>2, <2>1
  <2>3. \A i, j \in DOMAIN q.shown : i < j => q.shown[j] >= SecondOf(q.shown[i])
    BY <1>0, <1>3, <2>2 DEF Replays
  <2>4. \E t \in Times(q) : \A u \in Times(q) : u <= t
    <3>1. PICK t \in Times(r) : \A u \in Times(r) : u <= t
      BY <1>0 DEF Replays
    <3>2. Times(q) = Times(r) \cup {n}
      <4>1. {q.shown[i] : i \in DOMAIN q.shown} = {r.shown[i] : i \in DOMAIN r.shown} \cup {n}
        <5>1. ASSUME NEW i \in DOMAIN q.shown
              PROVE  q.shown[i] \in {r.shown[k] : k \in DOMAIN r.shown} \cup {n}
          <6>1. i \in 1 .. Len(r.shown) \/ i = Len(r.shown) + 1
            BY <2>2
          <6>. QED  BY <2>2, <6>1
        <5>2. ASSUME NEW k \in DOMAIN r.shown
              PROVE  k \in DOMAIN q.shown /\ q.shown[k] = r.shown[k]
          BY <2>2
        <5>3. Len(r.shown) + 1 \in DOMAIN q.shown
          BY <2>2
        <5>. QED  BY <2>2, <5>1, <5>2, <5>3
      <4>. QED  BY <2>1, <4>1 DEF Times
    <3>3. Times(r) \subseteq Int
      BY <1>2 DEF Times
    <3>4. CASE n <= t
      BY <3>1, <3>2, <3>4
    <3>5. CASE ~ (n <= t)
      BY <1>2, <3>1, <3>2, <3>3, <3>5
    <3>. QED  BY <3>4, <3>5
  <2>5. \A i \in DOMAIN q.shown : q.pos >= SecondOf(q.shown[i])
    <3> SUFFICES ASSUME NEW i \in DOMAIN q.shown PROVE n + 1 >= SecondOf(q.shown[i])
      BY <2>1
    <3>1. q.shown[i] \in Int /\ n >= SecondOf(q.shown[i])
      <4>1. CASE i \in 1 .. Len(r.shown)
        BY <1>3, <2>2, <4>1
      <4>2. CASE i = Len(r.shown) + 1
        BY <1>2, <2>2, <4>2, SecondStarts
      <4>. QED  BY <2>2, <4>1, <4>2
    <3>2. SecondOf(q.shown[i]) \in Int  BY <3>1, SecondStarts
    <3>. QED  BY <1>2, <3>1, <3>2
  <2>6. ASSUME PerSecond <= MaxSeen, NEW i \in DOMAIN q.shown, NEW j \in DOMAIN q.shown,
               q.shown[i] = q.shown[j]
        PROVE  i = j
    <3>1. ASSUME NEW k \in 1 .. Len(r.shown) PROVE r.shown[k] # n
      <4>1. MaxSeen \in Nat  BY LogStreamAssumption DEF LogStreamAssumption
      <4>2. CASE k > Len(r.shown) - MaxSeen
        BY <1>5, <2>2, <4>2 DEF Seen
      <4>3. CASE k <= Len(r.shown) - MaxSeen
        BY <1>0, <1>2, <1>3, <2>2, <2>6, <4>3, ForgottenIsPast
      <4>4. Len(r.shown) - MaxSeen \in Int /\ k \in Int
        BY <2>2, <4>1
      <4>5. k > Len(r.shown) - MaxSeen \/ k <= Len(r.shown) - MaxSeen
        BY <4>4
      <4>. QED  BY <4>2, <4>3, <4>5
    <3>2. CASE i \in 1 .. Len(r.shown) /\ j \in 1 .. Len(r.shown)
      BY <1>0, <2>2, <2>6, <3>2 DEF Replays
    <3>3. CASE i = Len(r.shown) + 1 /\ j \in 1 .. Len(r.shown)
      BY <2>2, <2>6, <3>1, <3>3
    <3>4. CASE i \in 1 .. Len(r.shown) /\ j = Len(r.shown) + 1
      BY <2>2, <2>6, <3>1, <3>4
    <3>5. \A k \in DOMAIN q.shown : k \in 1 .. Len(r.shown) \/ k = Len(r.shown) + 1
      BY <2>2
    <3>. QED  BY <3>2, <3>3, <3>4, <3>5
  <2>7. Replays(q)
    BY <2>3, <2>4, <2>5, <2>6 DEF Replays
  <2>. QED  BY <2>1, <2>7 DEF ReplayInv, q
<1>. QED  BY <1>4, <1>5

\* The other steps of a watch publish nothing and do not connect.
LEMMA WatchReplays ==
  ASSUME ReplayInv, NEW s \in Streams, WatchStep(s)
  PROVE  \A r \in Streams : Replays(stream'[r])
<1>0. stream \in [Streams -> Stream] /\ \A r \in Streams : Replays(stream[r])
  BY DEF ReplayInv, TypeOK
<1>1. CASE Check(s) \/ Refuse(s) \/ Disconnect(s) \/ Resume(s) \/ Leave(s)
  <2>1. PICK w \in Phase \ {"follow"} : stream' = [stream EXCEPT ![s].watch = w]
    BY <1>1 DEF Check, Refuse, Disconnect, Resume, Leave, Phase
  <2>2. /\ \A r \in Streams \ {s} : stream'[r] = stream[r]
        /\ stream'[s].shown = stream[s].shown /\ stream'[s].since = stream[s].since
        /\ stream'[s].watch = w
    BY <1>0, <2>1 DEF Stream
  <2>3. Replays(stream'[s])
    BY <1>0, <2>2, SameReplays
  <2>. QED  BY <1>0, <2>2, <2>3
<1>. QED  BY <1>1, ConnectReplays, DeliverReplays DEF WatchStep

\* Steps that create streams publish nothing on the others.
LEMMA CallsReplay ==
  ASSUME ReplayInv, TypeOK',
         \/ \E o \in Owners : MainStep(o)
         \/ \E t \in Threads : ThreadStep(t)
         \/ CloseManager
  PROVE  \A r \in Streams : Replays(stream'[r])
<1>0. /\ stream \in [Streams -> Stream] /\ \A r \in Streams : Replays(stream[r])
      /\ since \in [Owners -> Nat] /\ Now \in Nat
  BY DEF ReplayInv, TypeOK, Now
<1>1. ASSUME NEW r \in Streams, NEW os, NEW time \in Nat,
             \/ stream'[r] = NewStream(os, time)
             \/ /\ stream'[r].shown = stream[r].shown /\ stream'[r].since = stream[r].since
                /\ stream'[r].pos = stream[r].pos
                /\ stream'[r].watch \in {stream[r].watch, "check"}
      PROVE  Replays(stream'[r])
  BY <1>0, <1>1, NewReplays, SameReplays
<1>2. ASSUME NEW o \in Owners, MainStep(o) PROVE \A r \in Streams : Replays(stream'[r])
  <2>1. CASE Register(o)
    <3>1. since[o] \in Nat  BY <1>0
    <3>. QED  BY <1>0, <1>1, <2>1, <3>1 DEF Register, Stream
  <2>2. CASE Reconcile(o)
    BY <1>0, <1>1, <2>2 DEF Reconcile
  <2>3. CASE List(o) \/ Settled(o) \/ Relist(o) \/ Return(o) \/ Wake(o)
    <3>1. stream' = stream
      BY <2>3 DEF List, Settled, Relist, Return, Wake
    <3>. QED  BY <1>0, <3>1
  <2>. QED  BY <1>2, <2>1, <2>2, <2>3 DEF MainStep
<1>3. ASSUME NEW t \in Threads, ThreadStep(t) PROVE \A r \in Streams : Replays(stream'[r])
  <2>0. thread[t].cancel \subseteq Streams /\ thread[t].start \subseteq Streams
    BY DEF ReplayInv, TypeOK, Thread
  <2>1. CASE CancelNext(t) \/ StartNext(t)
    <3>1. PICK s \in Streams :
            \/ stream' = [stream EXCEPT ![s].cancelled = TRUE]
            \/ stream' = stream
            \/ stream' = [stream EXCEPT ![s].started = TRUE, ![s].watch = "check"]
      BY <2>0, <2>1 DEF CancelNext, StartNext
    <3>2. CASE stream' = [stream EXCEPT ![s].cancelled = TRUE]
      BY <1>0, <1>1, <3>2 DEF Stream
    <3>3. CASE stream' = [stream EXCEPT ![s].started = TRUE, ![s].watch = "check"]
      BY <1>0, <1>1, <3>3 DEF Stream
    <3>. QED  BY <1>0, <3>1, <3>2, <3>3
  <2>2. CASE Detach(t)
    BY <1>0, <1>1, <2>2 DEF Detach, Stream
  <2>3. CASE CloseChannels(t)
    BY <1>0, <2>3 DEF CloseChannels
  <2>. QED  BY <1>3, <2>1, <2>2, <2>3 DEF ThreadStep
<1>4. CASE CloseManager
  BY <1>0, <1>1, <1>4 DEF CloseManager, Stream
<1>. QED  BY <1>2, <1>3, <1>4

\* However often FollowLogs reconnects from the second of the last line, a stream
\* publishes no line twice, as long as the lines of a second fit the seen cache.
THEOREM LinesShownOnce == Spec => []NoLineTwice
<1>1. Init => ReplayInv
  BY InitTyped, NewReplays DEF Init, ReplayInv
<1>2. ReplayInv /\ TypeOK' /\ [Next]_vars => ReplayInv'
  <2> SUFFICES ASSUME ReplayInv, TypeOK', [Next]_vars
               PROVE  \A r \in Streams : Replays(stream'[r])
    BY DEF ReplayInv
  <2>1. CASE Next
    <3>1. ASSUME NEW c \in Containers, Change(c) \/ WriteLine(c) PROVE stream' = stream
      BY <3>1 DEF Change, WriteLine
    <3>2. Stop => stream' = stream
      BY DEF Stop
    <3>. QED  BY <2>1, <3>1, <3>2, WatchReplays, CallsReplay DEF Next, ReplayInv
  <2>2. CASE UNCHANGED vars
    BY <2>2 DEF vars, ReplayInv
  <2>. QED  BY <2>1, <2>2
<1>3. ReplayInv => NoLineTwice
  BY DEF ReplayInv, Replays, NoLineTwice
<1>. QED  BY <1>1, <1>2, <1>3, LogStreamTyped, PTL DEF Spec
=============================================================================
