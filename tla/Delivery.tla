------------------------------ MODULE Delivery ------------------------------
(***************************************************************************)
(* Delivery of log batches from one Agent to the Hub.                      *)
(*                                                                         *)
(* The Agent's main goroutine (internal/agent/agent.go) collects entries   *)
(* into a BatchQueue (batch.go), flushes them into numbered batches, first *)
(* replays the spool (AgentSpool) and then posts the batch (sender.go).    *)
(* The Hub (internal/ingest/service.go) commits a batch (IngestStore) and  *)
(* hands its entries to the live-tail Broker.  Requests and answers may be *)
(* lost or outlive the caller's patience, and both processes may die.      *)
(*                                                                         *)
(* One clock serves both hosts.  Its unit is that of the retention and     *)
(* spool limits (hours), so it advances only between exchanges, which the  *)
(* HTTP client bounds to 20 seconds.                                       *)
(***************************************************************************)
EXTENDS IngestStore

CONSTANTS
  Slots,            \* names for the HTTP requests in flight at once
  MaxBatchEntries,  \* CAROLINE_AGENT_MAX_BATCH_ENTRIES
  QueueCapacity,    \* CAROLINE_AGENT_QUEUE_CAPACITY
  DiskFaults,       \* may the Agent's disk refuse a read, write or remove?
  MaxBoots,         \* bound: starts of the Agent
  MaxEntries,       \* bound: entries collected
  MaxDiscovered,    \* bound: sequence number from which no metadata is queued
  MaxClock          \* bound: clock

ASSUME DeliveryAssumption ==
  /\ MaxBatchEntries \in Nat \ {0}
  /\ QueueCapacity \in Nat \ {0}
  /\ DiskFaults \in BOOLEAN
  /\ MaxBoots \in Nat /\ MaxEntries \in Nat /\ MaxDiscovered \in Nat /\ MaxClock \in Nat

VARIABLES
  clock,
  pc,         \* what the Agent's main goroutine is doing
  stopping,   \* runs the last flush, after its context ended
  boot,       \* the boot ID, fresh for every process (New)
  seq,        \* BatchQueue.sequence, carried over by Agent.sequence
  nextEntry,  \* Agent.entryID
  queue,      \* BatchQueue.entries
  metadata,   \* is BatchQueue.containers non-empty?
  hand,       \* the batch flushQueue holds: {} or {b}
  call,       \* the SendBatch in progress: {} or {[slot, batch]}
  spool,      \* the spool directory
  req,        \* HTTP requests in flight, abandoned ones included
  accepted,   \* history: every batch WriteBatch accepted, with the time
  live,       \* history: the entries handed to Broker.Publish
  lost        \* history: entries given up by a death, a limit or the disk

agentVars == <<pc, stopping, boot, seq, nextEntry, queue, metadata, hand, call, spool, lost>>
hubVars   == <<receipts, rows, accepted, live>>
vars      == <<clock, agentVars, req, hubVars>>

(***************************************************************************)
(* A request in flight: "sent" to the Hub, "publishing" after its batch    *)
(* was accepted, with the entries still to publish, or "answered" with 200. *)
(***************************************************************************)
Request == [slot : Slots, batch : Batch, stage : {"sent", "publishing", "answered"},
            left : SUBSET Entry]
Call    == [slot : Slots, batch : Batch]
Accepted == [boot : Nat, seq : Nat, entries : SUBSET Entry, at : Nat]

Running == pc \notin {"stopped", "crashed"}

\* Every entry the Agent still holds, and every entry ever accepted.
Held      == queue \cup EntriesOf(hand) \cup EntriesOf(Batches(spool))
Stored    == EntriesOf(accepted)
Accounted == Held \cup Stored \cup lost

Init ==
  /\ clock = 0
  /\ pc = "stopped" /\ stopping = FALSE
  /\ boot = 0 /\ seq = 0 /\ nextEntry = 0
  /\ queue = {} /\ metadata = FALSE /\ hand = {} /\ call = {} /\ spool = {}
  /\ req = {}
  /\ StoreInit /\ accepted = {} /\ live = {} /\ lost = {}

-----------------------------------------------------------------------------
(***************************************************************************)
(* The Agent.                                                              *)
(***************************************************************************)
Flushed(entries) == [boot |-> boot, seq |-> seq + 1, entries |-> entries]

\* Slip: a file dated before its batch.
ItemOfYesterday(b) == [batch |-> b, mtime |-> clock - 1]

ItemOf(b) == [batch |-> b, mtime |-> clock]

\* flushQueue returns to the select loop, or ends the process after its last.
FlushReturns ==
  /\ pc' = IF stopping THEN "stopped" ELSE "select"
  /\ stopping' = FALSE

\* The spool becomes s after an attempt to write b: what is in neither is lost,
\* and so is `also'.
SpoolBecomes(s, b, also) ==
  /\ spool' = s
  /\ lost' = lost \cup also
       \cup (EntriesOf(Batches(spool \cup {ItemOf(b)})) \ EntriesOf(Batches(s)))

\* New and the head of runCollection: a fresh boot ID, discovery (which fails,
\* finds nothing or queues metadata), then a replay of the spool.
Start ==
  /\ ~ Running
  /\ boot < MaxBoots
  /\ boot' = boot + 1 /\ seq' = 0 /\ nextEntry' = 0
  /\ metadata' \in BOOLEAN
  /\ pc' = "replay"
  /\ UNCHANGED <<clock, stopping, queue, hand, call, spool, req, hubVars, lost>>

\* The next entry from the subscription, given its InsertID.
NewEntry == [boot |-> boot, n |-> nextEntry + 1, ts |-> clock]

\* The Entries case of the select loop, while the queue has room: Add, and
\* when that makes the queue Ready, the Flush that opens flushQueue.
Collect ==
  /\ pc = "select"
  /\ Cardinality(Accounted) < MaxEntries
  /\ Cardinality(queue) < QueueCapacity
  /\ nextEntry' = nextEntry + 1
  /\ LET added == queue \cup {NewEntry}
     IN  \/ /\ Cardinality(added) < MaxBatchEntries
            /\ queue' = added
            /\ UNCHANGED <<pc, seq, metadata, hand>>
         \/ /\ Cardinality(added) >= MaxBatchEntries
            /\ hand' = {Flushed(added)}
            /\ seq' = seq + 1
            /\ queue' = {} /\ metadata' = FALSE
            /\ pc' = "replay"
  /\ UNCHANGED <<clock, stopping, boot, call, spool, req, hubVars, lost>>

\* The Entries case when Add returns ErrQueueFull (QueueCapacity is below
\* MaxBatchEntries): the queue goes straight to the spool, unreplayed, and the
\* entry into the emptied queue, which is not Ready.
CollectOverflow ==
  /\ pc = "select"
  /\ Cardinality(Accounted) < MaxEntries
  /\ Cardinality(queue) >= QueueCapacity
  /\ nextEntry' = nextEntry + 1
  /\ seq' = seq + 1
  /\ SpoolBecomes(Written(spool, ItemOf(Flushed(queue)), clock), Flushed(queue), {})
  /\ queue' = {NewEntry}
  /\ metadata' = FALSE
  /\ UNCHANGED <<clock, pc, stopping, boot, hand, call, req, hubVars>>

\* Slip: the next collection numbers its batches from 0 again.
RestartedSequence == 0

\* What the deferred a.sequence = queue.Sequence() leaves after one more Flush.
CarriedSequence == seq + 1

\* The same, but the spool cannot be written: runCollection returns the error
\* and Run starts a new collection of the same boot a second later, with a new
\* BatchQueue that continues the sequence.  The entry being added is gone.
CollectOverflowFails ==
  /\ DiskFaults
  /\ pc = "select"
  /\ Cardinality(Accounted) < MaxEntries
  /\ Cardinality(queue) >= QueueCapacity
  /\ nextEntry' = nextEntry + 1
  /\ seq' = CarriedSequence
  /\ \E s \in FailedWrites(spool, ItemOf(Flushed(queue)), clock) :
       SpoolBecomes(s, Flushed(queue), {NewEntry})
  /\ queue' = {}
  /\ metadata' \in BOOLEAN
  /\ pc' = "replay"
  /\ UNCHANGED <<clock, stopping, boot, hand, call, req, hubVars>>

\* refreshContainers, at every discovery tick, queues container metadata.
Discover ==
  /\ pc = "select"
  /\ seq < MaxDiscovered
  /\ ~ metadata
  /\ metadata' = TRUE
  /\ UNCHANGED <<clock, pc, stopping, boot, seq, nextEntry, queue, hand, call, spool, req,
                 hubVars, lost>>

\* The flush ticker, or ctx.Done with its last flush: Flush takes the queue if
\* there is anything in it, and the spool is replayed in either case.
FlushQueue(last) ==
  /\ pc = "select"
  /\ stopping' = last
  /\ IF queue = {} /\ ~ metadata
     THEN UNCHANGED <<seq, queue, metadata, hand>>
     ELSE /\ hand' = {Flushed(queue)}
          /\ seq' = seq + 1
          /\ queue' = {} /\ metadata' = FALSE
  /\ pc' = "replay"
  /\ UNCHANGED <<clock, boot, nextEntry, call, spool, req, hubVars, lost>>

\* Slip: an empty queue ends flushQueue before replaySpool.
FlushTickNoReplay == (queue # {} \/ metadata) /\ FlushQueue(FALSE)

FlushTick == (queue # {} \/ metadata \/ spool # {}) /\ FlushQueue(FALSE)

\* The context ends.  Cancellation also closes the subscription, so select may
\* take the closed Entries or Errors channel instead of ctx.Done: runCollection
\* returns at once and Run exits.
StopWithFlush == boot < MaxBoots /\ FlushQueue(TRUE)
StopOnClosed ==
  /\ pc = "select"
  /\ boot < MaxBoots
  /\ pc' = "stopped"
  /\ queue' = {} /\ metadata' = FALSE
  /\ lost' = lost \cup queue
  /\ UNCHANGED <<clock, stopping, boot, seq, nextEntry, hand, call, spool, req, hubVars>>

\* Is SendBatch waiting for the answer to this request?
Waiting(m) == [slot |-> m.slot, batch |-> m.batch] \in call

\* The caller goes away: an answer on its way back finds nobody.
HangUp == req' = {m \in req : m.stage # "answered"}

\* SendBatch: post the next batch, the spool's first or else the one in hand.
SendNext ==
  /\ pc = "replay"
  /\ \E b \in Batches({i \in spool : IsFirst(i, spool)}) \cup (IF spool = {} THEN hand ELSE {}),
        r \in Slots \ {m.slot : m \in req} :
       /\ req' = req \cup {[slot |-> r, batch |-> b, stage |-> "sent", left |-> {}]}
       /\ call' = {[slot |-> r, batch |-> b]}
  /\ pc' = "post"
  /\ UNCHANGED <<clock, stopping, boot, seq, nextEntry, queue, metadata, hand, spool,
                 hubVars, lost>>

\* replaySpool found nothing more and flushQueue holds no batch.
FlushDone ==
  /\ pc = "replay"
  /\ spool = {} /\ hand = {}
  /\ FlushReturns
  /\ UNCHANGED <<clock, boot, seq, nextEntry, queue, metadata, hand, call, spool, req, hubVars,
                 lost>>

\* Slip: a failed replay forgets the batch in hand.
GiveUpUnspooled ==
  /\ call' = {}
  /\ hand' = {}
  /\ FlushReturns
  /\ UNCHANGED <<clock, boot, seq, nextEntry, queue, metadata, spool, lost, hubVars>>

\* The rest of flushQueue after replaySpool or SendBatch failed: the batch in
\* hand goes to the spool.  An error of that write is dropped or only logged.
GiveUp ==
  /\ call' = {}
  /\ hand' = {}
  /\ FlushReturns
  /\ \/ hand = {} /\ UNCHANGED <<spool, lost>>
     \/ \E b \in hand :
          \/ SpoolBecomes(Written(spool, ItemOf(b), clock), b, {})
          \/ DiskFaults /\ \E s \in FailedWrites(spool, ItemOf(b), clock) : SpoolBecomes(s, b, {})
  /\ UNCHANGED <<clock, boot, seq, nextEntry, queue, metadata, hubVars>>

\* SendBatch returns nil: a spooled batch's file is removed and the replay
\* goes on; the batch in hand is done with.
SendSucceeds(m) ==
  /\ pc = "post"
  /\ m.stage = "answered" /\ Waiting(m)
  /\ req' = req \ {m}
  /\ \/ /\ m.batch \in Batches(spool)
        /\ spool' = {i \in spool : i.batch # m.batch}
        /\ call' = {}
        /\ pc' = "replay"
        /\ UNCHANGED <<clock, stopping, boot, seq, nextEntry, queue, metadata, hand, hubVars,
                       lost>>
     \/ /\ m.batch \in Batches(spool) /\ DiskFaults    \* os.Remove fails
        /\ GiveUp
     \/ /\ m.batch \notin Batches(spool)
        /\ call' = {} /\ hand' = {}
        /\ FlushReturns
        /\ UNCHANGED <<clock, boot, seq, nextEntry, queue, metadata, spool, hubVars, lost>>

\* SendBatch returns an error, a timeout included: the request may still be on
\* its way or its answer on the way back.
SendFails ==
  /\ pc = "post"
  /\ HangUp
  /\ GiveUp

\* replaySpool cannot read the spool directory.
ReplayFails == DiskFaults /\ pc = "replay" /\ UNCHANGED req /\ GiveUp

\* The process is killed.  A kill between the rename and the prune of a spool
\* write leaves the batch in hand in the spool.
Crash ==
  /\ Running
  /\ boot < MaxBoots
  /\ pc' = "crashed"
  /\ stopping' = FALSE
  /\ queue' = {} /\ metadata' = FALSE /\ hand' = {} /\ call' = {}
  /\ \/ spool' = spool /\ lost' = lost \cup queue \cup EntriesOf(hand)
     \/ /\ pc \in {"replay", "post"} /\ hand # {}
        /\ spool' = spool \cup {ItemOf(b) : b \in hand}
        /\ lost' = lost \cup queue
  /\ HangUp
  /\ UNCHANGED <<clock, boot, seq, nextEntry, hubVars>>

-----------------------------------------------------------------------------
(***************************************************************************)
(* The Hub, one goroutine per request.                                     *)
(***************************************************************************)
Become(m, stage, left) == req' = (req \ {m}) \cup {[m EXCEPT !.stage = stage, !.left = left]}

\* The answer 200; one that nobody waits for any more is dropped.
Reply(m) == IF Waiting(m) THEN Become(m, "answered", {}) ELSE req' = req \ {m}

\* Ingest of a batch seen for the first time: WriteBatch accepts it.
IngestNew(m) ==
  /\ m.stage = "sent"
  /\ Accept(m.batch, clock)
  /\ accepted' = accepted \cup {[boot |-> m.batch.boot, seq |-> m.batch.seq,
                                 entries |-> m.batch.entries, at |-> clock]}
  /\ Become(m, "publishing", m.batch.entries)
  /\ UNCHANGED <<clock, agentVars, live>>

\* Slip: a duplicate is published like a new batch.
IngestDuplicateLoudly(m) ==
  /\ m.stage = "sent"
  /\ Ignore(m.batch)
  /\ Become(m, "publishing", m.batch.entries)
  /\ UNCHANGED <<clock, agentVars, accepted, live>>

\* Ingest of a batch whose receipt is there: answered 200, not published.
IngestDuplicate(m) ==
  /\ m.stage = "sent"
  /\ Ignore(m.batch)
  /\ Reply(m)
  /\ UNCHANGED <<clock, agentVars, accepted, live>>

\* The loop over the accepted entries, in order, and the answer after it.
PublishEntry(m) ==
  /\ m.stage = "publishing"
  /\ \E e \in m.left :
       /\ \A x \in m.left : x.n >= e.n
       /\ live' = live \cup {e}
       /\ Become(m, "publishing", m.left \ {e})
  /\ UNCHANGED <<clock, agentVars, receipts, rows, accepted>>

Answer(m) ==
  /\ m.stage = "publishing" /\ m.left = {}
  /\ Reply(m)
  /\ UNCHANGED <<clock, agentVars, hubVars>>

\* A request that never reaches Ingest or that the Hub refuses.  (An answer
\* that is lost is a SendFails that ignores it.)
Lose(m) ==
  /\ m.stage = "sent"
  /\ req' = req \ {m}
  /\ UNCHANGED <<clock, agentVars, hubVars>>

\* The Hub process is replaced: open requests die, the committed tables stay.
HubRestart ==
  /\ req # {}
  /\ req' = {}
  /\ UNCHANGED <<clock, agentVars, hubVars>>

\* runRetention, at start and every hour.
Retain ==
  /\ Cleanup(clock)
  /\ UNCHANGED <<clock, agentVars, req, accepted, live>>

-----------------------------------------------------------------------------
\* An hour passes: no exchange and no queue lasts that long.  Failed replays in
\* the meantime leave the state as it is.
Tick ==
  /\ clock < MaxClock
  /\ req = {} /\ pc \notin {"replay", "post"}
  /\ queue = {} /\ ~ metadata
  /\ clock' = clock + 1
  /\ UNCHANGED <<agentVars, req, hubVars>>

AgentNext ==
  \/ Start \/ Collect \/ CollectOverflow \/ CollectOverflowFails \/ Discover
  \/ FlushTick \/ StopWithFlush \/ StopOnClosed
  \/ SendNext \/ FlushDone \/ SendFails \/ ReplayFails \/ Crash
  \/ \E m \in req : SendSucceeds(m)

HubNext ==
  \/ \E m \in req : IngestNew(m) \/ IngestDuplicate(m) \/ PublishEntry(m) \/ Answer(m) \/ Lose(m)
  \/ HubRestart \/ Retain

Next == AgentNext \/ HubNext \/ Tick

Spec == Init /\ [][Next]_vars

-----------------------------------------------------------------------------
(***************************************************************************)
(* Safety.                                                                 *)
(***************************************************************************)
TypeOK ==
  /\ clock \in Nat /\ boot \in Nat /\ seq \in Nat /\ nextEntry \in Nat
  /\ pc \in {"stopped", "crashed", "select", "replay", "post"}
  /\ stopping \in BOOLEAN /\ metadata \in BOOLEAN
  /\ queue \subseteq Entry /\ live \subseteq Entry /\ lost \subseteq Entry
  /\ hand \subseteq Batch /\ call \subseteq Call
  /\ spool \subseteq Item
  /\ req \subseteq Request
  /\ receipts \subseteq Receipt /\ rows \subseteq Row /\ accepted \subseteq Accepted

AllBatches == hand \cup Batches(spool) \cup {m.batch : m \in req} \cup {c.batch : c \in call}

\* Duplicate protection for every retained log (sqlite.go, cleanupAuxiliary):
\* the batch of a row in logs has its receipt, however old the receipt is.
RowsProtected == \A row \in rows : Known(row)

\* Boot and sequence identify a batch, across new collections of one boot and
\* restarts of the Agent, and an entry travels in one batch only.  Otherwise
\* the Hub would suppress a batch it has never seen (batch.go, agent.go).
SequenceIdentifiesBatch ==
  /\ \A b \in AllBatches, c \in AllBatches \cup accepted :
       IF SameBatch(b, c) THEN b.entries = c.entries ELSE b.entries \cap c.entries = {}
  /\ \A c \in AllBatches \cup accepted : queue \cap c.entries = {}

\* README, duplicate suppression: the Hub accepts a batch again only when its
\* receipt has outlived the replay window and none of its logs is retained,
\* whatever the interleaving of retries, late requests, cleanup and restarts.
ReacceptOnlyAfterExpiry ==
  [][\A r \in receipts' \ receipts :
       /\ RowsOf(r) = {}
       /\ \A a \in accepted : SameBatch(a, r) => r.at - a.at > DedupRetention]_vars

JustPublished(m, e) ==
  /\ m.stage = "publishing"
  /\ [m EXCEPT !.left = m.left \ {e}] \in req'

\* Live tails and alert rules see an entry a second time only if its batch was
\* accepted a second time: a retry alone publishes nothing (Ingest).
NoDuplicateLiveEvents ==
  [][\A m \in req : \A e \in m.left :
       JustPublished(m, e) /\ e \in live =>
         \E a, b \in accepted : a.at # b.at /\ SameBatch(a, m.batch) /\ SameBatch(b, m.batch)]_vars

\* At-least-once: an entry the Agent holds leaves it only into the Hub's store
\* or through a death, a spool limit or a disk error (flushQueue, replaySpool).
NothingVanishes == [][Accounted \subseteq Accounted']_vars

\* README: "At-least-once delivery".  A stop on request, unlike a kill, keeps
\* what the queue holds.
StopKeepsQueue ==
  [][pc = "select" /\ pc' = "stopped" => queue \subseteq Held' \cup Stored']_vars

\* README: "oldest batches are dropped after the limit".  What a running Agent
\* gives up to the spool's limits is no newer than what the spool retains.
SpoolDropsOldest ==
  [][pc' \in {"select", "replay", "post"} =>
       \A x \in lost' \ lost, y \in EntriesOf(Batches(spool')) : x.ts <= y.ts]_vars

\* README: a window longer than the spool's age limit rules out a second
\* acceptance.
AcceptedOnce == \A a, b \in accepted : SameBatch(a, b) => a = b

-----------------------------------------------------------------------------
(***************************************************************************)
(* Refinement.                                                             *)
(***************************************************************************)
Promise == INSTANCE ExactlyOnce WITH
  Entries    <- [boot : 1 .. MaxBoots, n : 1 .. MaxEntries, ts : 0 .. MaxClock],
  Times      <- 0 .. MaxClock,
  collected  <- Accounted,
  deliveries <- UNION {{[entry |-> e, at |-> a.at] : e \in a.entries} : a \in accepted},
  visible    <- {row.entry : row \in rows}

\* Within the replay window the pipeline delivers each entry at most once and
\* what retention removed stays removed.
ExactlyOnceDelivery == Promise!Spec

-----------------------------------------------------------------------------
(***************************************************************************)
(* Liveness.  The main goroutine keeps running and its calls return; a     *)
(* killed Agent is restarted; of infinitely many attempts the Hub answers  *)
(* some in time.                                                           *)
(***************************************************************************)
Awaited(m, r) == m.slot = r /\ Waiting(m)

Fairness ==
  /\ WF_vars(Start) /\ WF_vars(FlushTick) /\ WF_vars(SendNext) /\ WF_vars(FlushDone)
  /\ WF_vars(SendFails)
  /\ \A r \in Slots :
       /\ SF_vars(\E m \in req : Awaited(m, r) /\ IngestNew(m))
       /\ SF_vars(\E m \in req : Awaited(m, r) /\ IngestDuplicate(m))
       /\ WF_vars(\E m \in req : m.slot = r /\ (PublishEntry(m) \/ Answer(m)))
       /\ WF_vars(\E m \in req : m.slot = r /\ (IngestNew(m) \/ IngestDuplicate(m) \/ Lose(m)))
       /\ SF_vars(\E m \in req : m.slot = r /\ SendSucceeds(m))

FairSpec == Spec /\ Fairness

Holds(b, n) == \E e \in Held : e.boot = b /\ e.n = n
Settled(b, n) == \E e \in Stored \cup lost : e.boot = b /\ e.n = n

\* At-least-once: an entry the Agent holds is stored by the Hub in the end, or
\* given up to a death or a spool limit; no retry or replay blocks for ever.
EventuallyDelivered ==
  \A b \in 1 .. MaxBoots, n \in 1 .. MaxEntries : Holds(b, n) ~> Settled(b, n)
=============================================================================
