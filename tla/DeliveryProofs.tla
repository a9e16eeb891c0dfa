--------------------------- MODULE DeliveryProofs ---------------------------
(***************************************************************************)
(* Safety of Delivery, for every value of its constants.                   *)
(***************************************************************************)
EXTENDS Delivery, FiniteSetTheorems, TLAPS

(***************************************************************************)
(* What the operators of AgentSpool and IngestStore may return.            *)
(***************************************************************************)
\* Pruning only removes items (spool.go, pruneLocked).
LEMMA PrunedIsSubset ==
  ASSUME NEW s, NEW now PROVE Pruned(s, now) \subseteq s
BY DEF Pruned, Fitting, Unexpired

\* A write that fails leaves nothing behind but the old items and the new one.
LEMMA FailedWritesSubset ==
  ASSUME NEW s, NEW i, NEW now, NEW t \in FailedWrites(s, i, now)
  PROVE  t \subseteq s \cup {i}
BY DEF FailedWrites

\* Retention only removes rows (sqlite.go, Cleanup).
LEMMA RetainedIsSubset ==
  ASSUME NEW now PROVE Retained(now) \subseteq rows
BY DEF Retained, Recent

LEMMA NewRowsType ==
  ASSUME NEW b \in Batch PROVE NewRows(b) \subseteq Row
BY DEF NewRows, Batch, Entry, Row

LEMMA EntriesType ==
  /\ \A bs \in SUBSET Batch : EntriesOf(bs) \subseteq Entry
  /\ \A s \in SUBSET Item : Batches(s) \subseteq Batch
BY DEF EntriesOf, Batches, Batch, Item

-----------------------------------------------------------------------------
(***************************************************************************)
(* Type correctness.                                                       *)
(***************************************************************************)
LEMMA NewEntryType == TypeOK => NewEntry \in Entry
BY DEF TypeOK, NewEntry, Entry

LEMMA FlushedType ==
  ASSUME TypeOK, NEW q \in SUBSET Entry PROVE Flushed(q) \in Batch
BY DEF TypeOK, Flushed, Batch

LEMMA ItemOfType ==
  ASSUME TypeOK, NEW b \in Batch PROVE ItemOf(b) \in Item
BY DEF TypeOK, ItemOf, Item

LEMMA SpoolBecomesType ==
  ASSUME TypeOK, NEW b \in Batch, NEW s, s \subseteq spool \cup {ItemOf(b)},
         NEW also \in SUBSET Entry, SpoolBecomes(s, b, also)
  PROVE  spool' \subseteq Item /\ lost' \subseteq Entry
<1>1. spool \cup {ItemOf(b)} \subseteq Item
  BY ItemOfType DEF TypeOK
<1>2. EntriesOf(Batches(spool \cup {ItemOf(b)})) \subseteq Entry
  BY <1>1, EntriesType
<1>. QED  BY <1>1, <1>2 DEF SpoolBecomes, TypeOK

LEMMA GiveUpType ==
  ASSUME TypeOK, GiveUp, req' \subseteq Request
  PROVE  TypeOK'
<1>1. spool' \subseteq Item /\ lost' \subseteq Entry
  <2>1. CASE hand = {} /\ UNCHANGED <<spool, lost>>
    BY <2>1 DEF TypeOK
  <2>2. ASSUME NEW b \in hand, SpoolBecomes(Written(spool, ItemOf(b), clock), b, {})
        PROVE  spool' \subseteq Item /\ lost' \subseteq Entry
    <3>1. b \in Batch  BY DEF TypeOK
    <3>2. Written(spool, ItemOf(b), clock) \subseteq spool \cup {ItemOf(b)}
      BY PrunedIsSubset DEF Written
    <3>. QED  BY <2>2, <3>1, <3>2, SpoolBecomesType
  <2>3. ASSUME NEW b \in hand, NEW s \in FailedWrites(spool, ItemOf(b), clock),
               SpoolBecomes(s, b, {})
        PROVE  spool' \subseteq Item /\ lost' \subseteq Entry
    <3>1. b \in Batch  BY DEF TypeOK
    <3>2. s \subseteq spool \cup {ItemOf(b)}  BY FailedWritesSubset
    <3>. QED  BY <2>3, <3>1, <3>2, SpoolBecomesType
  <2>. QED  BY <2>1, <2>2, <2>3 DEF GiveUp
<1>. QED  BY <1>1 DEF GiveUp, FlushReturns, TypeOK, hubVars

\* The requests a Hub handler leaves behind.
LEMMA BecomeType ==
  ASSUME TypeOK, NEW m \in req, NEW stage \in {"sent", "publishing", "answered"},
         NEW left \in SUBSET Entry
  PROVE  /\ Become(m, stage, left) => req' \subseteq Request
         /\ Reply(m) => req' \subseteq Request
<1>1. [m EXCEPT !.stage = stage, !.left = left] \in Request
  BY DEF TypeOK, Request
<1>2. [m EXCEPT !.stage = "answered", !.left = {}] \in Request
  BY DEF TypeOK, Request
<1>. QED  BY <1>1, <1>2 DEF Become, Reply, TypeOK

LEMMA TypeOKInit == Init => TypeOK
<1> SUFFICES ASSUME Init PROVE TypeOK
  OBVIOUS
<1>1. stopping \in BOOLEAN /\ metadata \in BOOLEAN
  BY Zenon DEF Init
<1>. QED  BY <1>1 DEF Init, StoreInit, TypeOK

LEMMA TypeOKStep == TypeOK /\ [Next]_vars => TypeOK'
<1> SUFFICES ASSUME TypeOK, [Next]_vars PROVE TypeOK'
  OBVIOUS
<1>1. CASE Start
  BY <1>1 DEF Start, TypeOK, hubVars
<1>2. CASE Collect
  <2>1. NewEntry \in Entry  BY NewEntryType
  <2>2. queue \cup {NewEntry} \subseteq Entry  BY <2>1 DEF TypeOK
  <2>3. Flushed(queue \cup {NewEntry}) \in Batch  BY <2>2, FlushedType
  <2>4. metadata' \in BOOLEAN  BY <1>2, Zenon DEF Collect, TypeOK
  <2>5. CASE UNCHANGED <<pc, seq, hand>> /\ queue' = queue \cup {NewEntry}
    BY <1>2, <2>2, <2>4, <2>5 DEF Collect, TypeOK, hubVars
  <2>6. CASE /\ hand' = {Flushed(queue \cup {NewEntry})} /\ seq' = seq + 1
             /\ queue' = {} /\ pc' = "replay"
    BY <1>2, <2>3, <2>4, <2>6 DEF Collect, TypeOK, hubVars
  <2>. QED  BY <1>2, <2>5, <2>6 DEF Collect
<1>3. CASE CollectOverflow
  <2>1. NewEntry \in Entry /\ Flushed(queue) \in Batch
    BY NewEntryType, FlushedType DEF TypeOK
  <2>2. Written(spool, ItemOf(Flushed(queue)), clock) \subseteq spool \cup {ItemOf(Flushed(queue))}
    BY PrunedIsSubset DEF Written
  <2>3. spool' \subseteq Item /\ lost' \subseteq Entry
    BY <1>3, <2>1, <2>2, SpoolBecomesType DEF CollectOverflow
  <2>4. metadata' \in BOOLEAN  BY <1>3, Zenon DEF CollectOverflow
  <2>. QED  BY <1>3, <2>1, <2>3, <2>4 DEF CollectOverflow, TypeOK, hubVars
<1>4. CASE CollectOverflowFails
  <2>1. NewEntry \in Entry /\ Flushed(queue) \in Batch
    BY NewEntryType, FlushedType DEF TypeOK
  <2>2. PICK s \in FailedWrites(spool, ItemOf(Flushed(queue)), clock) :
             SpoolBecomes(s, Flushed(queue), {NewEntry})
    BY <1>4 DEF CollectOverflowFails
  <2>3. s \subseteq spool \cup {ItemOf(Flushed(queue))}  BY FailedWritesSubset
  <2>4. spool' \subseteq Item /\ lost' \subseteq Entry
    BY <2>1, <2>2, <2>3, SpoolBecomesType
  <2>. QED  BY <1>4, <2>1, <2>4 DEF CollectOverflowFails, CarriedSequence, TypeOK, hubVars
<1>5. CASE Discover
  <2>1. metadata' \in BOOLEAN  BY <1>5, Zenon DEF Discover
  <2>. QED  BY <1>5, <2>1 DEF Discover, TypeOK, hubVars
<1>6. ASSUME NEW last \in BOOLEAN, FlushQueue(last) PROVE TypeOK'
  <2>1. Flushed(queue) \in Batch  BY FlushedType DEF TypeOK
  <2>2. metadata' \in BOOLEAN  BY <1>6, Zenon DEF FlushQueue, TypeOK
  <2>3. hand' \subseteq Batch /\ queue' \subseteq Entry /\ seq' \in Nat
    BY <1>6, <2>1 DEF FlushQueue, TypeOK
  <2>. QED  BY <1>6, <2>2, <2>3 DEF FlushQueue, TypeOK, hubVars
<1>7. CASE StopOnClosed
  BY <1>7 DEF StopOnClosed, TypeOK, hubVars
<1>8. CASE SendNext
  <2>1. PICK b \in Batches({i \in spool : IsFirst(i, spool)}) \cup (IF spool = {} THEN hand ELSE {}),
             r \in Slots \ {m.slot : m \in req} :
          /\ req' = req \cup {[slot |-> r, batch |-> b, stage |-> "sent", left |-> {}]}
          /\ call' = {[slot |-> r, batch |-> b]}
    BY <1>8 DEF SendNext
  <2>2. b \in Batch  BY <2>1 DEF TypeOK, Batches, Item
  <2>3. req' \subseteq Request /\ call' \subseteq Call
    BY <2>1, <2>2 DEF TypeOK, Request, Call
  <2>. QED  BY <1>8, <2>3 DEF SendNext, TypeOK, hubVars
<1>9. CASE FlushDone
  BY <1>9 DEF FlushDone, FlushReturns, TypeOK, hubVars
<1>10. CASE SendFails
  BY <1>10, GiveUpType DEF SendFails, HangUp, TypeOK
<1>11. CASE ReplayFails
  BY <1>11, GiveUpType DEF ReplayFails, TypeOK
<1>12. CASE Crash
  <2>1. spool' \subseteq Item /\ lost' \subseteq Entry
    <3>1. \A b \in hand : ItemOf(b) \in Item  BY ItemOfType DEF TypeOK
    <3>2. EntriesOf(hand) \subseteq Entry  BY EntriesType DEF TypeOK
    <3>. QED  BY <1>12, <3>1, <3>2 DEF Crash, TypeOK
  <2>. QED  BY <1>12, <2>1 DEF Crash, HangUp, TypeOK, hubVars
<1>13. ASSUME NEW m \in req, SendSucceeds(m) PROVE TypeOK'
  <2>1. req' \subseteq Request  BY <1>13 DEF SendSucceeds, TypeOK
  <2>2. CASE GiveUp  BY <2>1, <2>2, GiveUpType
  <2>3. CASE ~ GiveUp
    BY <1>13, <2>1, <2>3 DEF SendSucceeds, FlushReturns, TypeOK, hubVars
  <2>. QED  BY <2>2, <2>3
<1>14. ASSUME NEW m \in req, IngestNew(m) PROVE TypeOK'
  <2>1. m.batch \in Batch  BY DEF TypeOK, Request
  <2>2. m.batch.boot \in Nat /\ m.batch.seq \in Nat /\ m.batch.entries \subseteq Entry
    BY <2>1 DEF Batch
  <2>3. req' \subseteq Request  BY <1>14, <2>2, BecomeType DEF IngestNew
  <2>4. rows' \subseteq Row /\ receipts' \subseteq Receipt
    BY <1>14, <2>1, <2>2, NewRowsType DEF IngestNew, Accept, TypeOK, Receipt
  <2>5. accepted' \subseteq Accepted
    BY <1>14, <2>2 DEF IngestNew, TypeOK, Accepted
  <2>. QED  BY <1>14, <2>3, <2>4, <2>5 DEF IngestNew, TypeOK, agentVars
<1>15. ASSUME NEW m \in req, IngestDuplicate(m) PROVE TypeOK'
  <2>1. req' \subseteq Request  BY <1>15, BecomeType DEF IngestDuplicate
  <2>. QED  BY <1>15, <2>1 DEF IngestDuplicate, Ignore, storeVars, TypeOK, agentVars
<1>16. ASSUME NEW m \in req, PublishEntry(m) PROVE TypeOK'
  <2>1. m.left \subseteq Entry  BY DEF TypeOK, Request
  <2>2. live' \subseteq Entry /\ req' \subseteq Request
    BY <1>16, <2>1, BecomeType DEF PublishEntry, TypeOK
  <2>. QED  BY <1>16, <2>2 DEF PublishEntry, TypeOK, agentVars
<1>17. ASSUME NEW m \in req, Answer(m) \/ Lose(m) PROVE TypeOK'
  <2>1. req' \subseteq Request  BY <1>17, BecomeType DEF Answer, Lose, TypeOK
  <2>. QED  BY <1>17, <2>1 DEF Answer, Lose, TypeOK, agentVars, hubVars
<1>18. CASE HubRestart
  BY <1>18 DEF HubRestart, TypeOK, agentVars, hubVars
<1>19. CASE Retain
  BY <1>19, RetainedIsSubset DEF Retain, Cleanup, TypeOK, agentVars
<1>20. CASE Tick
  BY <1>20 DEF Tick, TypeOK, agentVars, hubVars
<1>21. CASE UNCHANGED vars
  BY <1>21 DEF TypeOK, vars, agentVars, hubVars
<1>. QED
  BY <1>1, <1>2, <1>3, <1>4, <1>5, <1>6, <1>7, <1>8, <1>9, <1>10, <1>11, <1>12, <1>13, <1>14,
     <1>15, <1>16, <1>17, <1>18, <1>19, <1>20, <1>21
  DEF Next, AgentNext, HubNext, FlushTick, StopWithFlush

\* Every variable of Delivery keeps its type.
THEOREM TypeCorrect == Spec => []TypeOK
BY TypeOKInit, TypeOKStep, PTL DEF Spec

-----------------------------------------------------------------------------
(***************************************************************************)
(* Duplicate suppression.  Only three kinds of step matter to it.          *)
(***************************************************************************)
LEMMA StoreSteps ==
  [Next]_vars => \/ UNCHANGED <<clock, receipts, rows, accepted>>
                 \/ \E m \in req : IngestNew(m)
                 \/ Retain
                 \/ Tick
<1> SUFFICES ASSUME [Next]_vars, ~ Retain, ~ Tick, ~ \E m \in req : IngestNew(m)
             PROVE  UNCHANGED <<clock, receipts, rows, accepted>>
  OBVIOUS
<1>1. CASE Start \/ Collect \/ Discover \/ FlushTick \/ StopWithFlush \/ StopOnClosed
  BY <1>1 DEF Start, Collect, Discover, FlushTick, StopWithFlush, FlushQueue, StopOnClosed, hubVars
<1>2. CASE CollectOverflow \/ CollectOverflowFails \/ SendNext \/ FlushDone \/ Crash
  BY <1>2 DEF CollectOverflow, CollectOverflowFails, SendNext, FlushDone, Crash, hubVars
<1>3. CASE SendFails \/ ReplayFails \/ \E m \in req : SendSucceeds(m)
  BY <1>3 DEF SendFails, ReplayFails, SendSucceeds, GiveUp, hubVars
<1>4. CASE \E m \in req : IngestDuplicate(m) \/ PublishEntry(m) \/ Answer(m) \/ Lose(m)
  BY <1>4 DEF IngestDuplicate, Ignore, storeVars, PublishEntry, Answer, Lose, hubVars
<1>5. CASE HubRestart \/ UNCHANGED vars
  BY <1>5 DEF HubRestart, hubVars, vars
<1>. QED  BY <1>1, <1>2, <1>3, <1>4, <1>5 DEF Next, AgentNext, HubNext

\* A row's receipt survives both ingestion and cleanup: the sub-select of
\* cleanupAuxiliary sees the rows that the same transaction has left.
LEMMA RowsProtectedStep == RowsProtected /\ [Next]_vars => RowsProtected'
<1> SUFFICES ASSUME RowsProtected, [Next]_vars PROVE RowsProtected'
  OBVIOUS
<1>1. CASE UNCHANGED <<receipts, rows>>
  BY <1>1 DEF RowsProtected, Known, SameBatch
<1>2. ASSUME NEW m \in req, IngestNew(m) PROVE RowsProtected'
  <2> DEFINE r0 == [boot |-> m.batch.boot, seq |-> m.batch.seq, at |-> clock]
  <2>1. receipts' = receipts \cup {r0} /\ rows' = rows \cup NewRows(m.batch)
    BY <1>2 DEF IngestNew, Accept
  <2>2. ASSUME NEW row \in rows PROVE \E r \in receipts' : SameBatch(r, row)
    BY <2>1 DEF RowsProtected, Known
  <2>3. ASSUME NEW row \in NewRows(m.batch) PROVE SameBatch(r0, row)
    BY DEF NewRows, SameBatch
  <2>. QED  BY <2>1, <2>2, <2>3 DEF RowsProtected, Known, SameBatch
<1>3. CASE Retain
  <2>1. rows' \subseteq rows  BY <1>3, RetainedIsSubset DEF Retain, Cleanup
  <2>2. SUFFICES ASSUME NEW row \in rows' PROVE \E r \in receipts' : SameBatch(r, row)
    BY DEF RowsProtected, Known, SameBatch
  <2>3. PICK r \in receipts : SameBatch(r, row)
    BY <2>1, <2>2 DEF RowsProtected, Known
  <2>4. SameBatch(row, r)  BY <2>3 DEF SameBatch
  <2>5. r \in receipts'  BY <1>3, <2>2, <2>4 DEF Retain, Cleanup
  <2>. QED  BY <2>3, <2>5
<1>4. CASE Tick
  BY <1>1, <1>4 DEF Tick, hubVars
<1>. QED  BY <1>1, <1>2, <1>3, <1>4, StoreSteps

\* The Hub keeps duplicate protection for every retained log.
THEOREM RowsStayProtected == Spec => []RowsProtected
<1>1. Init => RowsProtected  BY DEF Init, StoreInit, RowsProtected
<1>. QED  BY <1>1, RowsProtectedStep, PTL DEF Spec

\* While the replay window of an acceptance is open its receipt is there.
WindowOpen == \A a \in accepted :
  /\ a.at <= clock
  /\ clock - a.at <= DedupRetention => \E r \in receipts : SameBatch(r, a) /\ r.at = a.at

LEMMA WindowOpenStep == TypeOK /\ WindowOpen /\ [Next]_vars => WindowOpen'
<1> SUFFICES ASSUME TypeOK, WindowOpen, [Next]_vars PROVE WindowOpen'
  OBVIOUS
<1>1. CASE UNCHANGED <<clock, receipts, rows, accepted>>
  BY <1>1 DEF WindowOpen
<1>2. ASSUME NEW m \in req, IngestNew(m) PROVE WindowOpen'
  <2> DEFINE r0 == [boot |-> m.batch.boot, seq |-> m.batch.seq, at |-> clock]
             a0 == [boot |-> m.batch.boot, seq |-> m.batch.seq,
                    entries |-> m.batch.entries, at |-> clock]
  <2>1. receipts' = receipts \cup {r0} /\ accepted' = accepted \cup {a0} /\ clock' = clock
    BY <1>2 DEF IngestNew, Accept
  <2>2. a0.at <= clock /\ SameBatch(r0, a0) /\ r0.at = a0.at
    BY DEF SameBatch, TypeOK
  <2>. QED  BY <2>1, <2>2 DEF WindowOpen
<1>3. CASE Retain
  <2>1. SUFFICES ASSUME NEW a \in accepted, clock - a.at <= DedupRetention
                 PROVE  \E r \in receipts' : SameBatch(r, a) /\ r.at = a.at
    BY <1>3 DEF WindowOpen, Retain
  <2>2. PICK r \in receipts : SameBatch(r, a) /\ r.at = a.at
    BY <2>1 DEF WindowOpen
  <2>3. r.at >= clock - DedupRetention
    BY <2>1, <2>2, RetentionAssumption DEF TypeOK, Accepted
  <2>4. r \in receipts'  BY <1>3, <2>3 DEF Retain, Cleanup
  <2>. QED  BY <2>2, <2>4
<1>4. CASE Tick
  <2>1. clock' = clock + 1 /\ receipts' = receipts /\ accepted' = accepted
    BY <1>4 DEF Tick, hubVars
  <2>2. SUFFICES ASSUME NEW a \in accepted'
                 PROVE  /\ a.at <= clock'
                        /\ clock' - a.at <= DedupRetention
                             => \E r \in receipts' : SameBatch(r, a) /\ r.at = a.at
    BY DEF WindowOpen, SameBatch
  <2>3. a.at \in Nat /\ clock \in Nat /\ DedupRetention \in Nat
    BY <2>1, <2>2, RetentionAssumption DEF TypeOK, Accepted
  <2>4. clock' - a.at <= DedupRetention => clock - a.at <= DedupRetention
    BY <2>1, <2>3
  <2>5. a.at <= clock  BY <2>1, <2>2 DEF WindowOpen
  <2>6. a.at <= clock'  BY <2>1, <2>3, <2>5
  <2>. QED  BY <2>1, <2>2, <2>4, <2>6 DEF WindowOpen
<1>. QED  BY <1>1, <1>2, <1>3, <1>4, StoreSteps

LEMMA WindowStaysOpen == Spec => []WindowOpen
<1>1. Init => WindowOpen  BY DEF Init, WindowOpen
<1>. QED  BY <1>1, WindowOpenStep, TypeCorrect, PTL DEF Spec

\* The Hub accepts a batch a second time only when the replay window of every
\* earlier acceptance has passed and retention has removed all its logs.
THEOREM SuppressionHolds == Spec => ReacceptOnlyAfterExpiry
<1> DEFINE Late(r) == /\ RowsOf(r) = {}
                      /\ \A a \in accepted : SameBatch(a, r) => r.at - a.at > DedupRetention
<1>1. TypeOK /\ RowsProtected /\ WindowOpen /\ [Next]_vars
        => [\A r \in receipts' \ receipts : Late(r)]_vars
  <2> SUFFICES ASSUME TypeOK, RowsProtected, WindowOpen, [Next]_vars,
                      NEW r \in receipts' \ receipts
               PROVE  Late(r)
    OBVIOUS
  <2>1. PICK m \in req : IngestNew(m)
    BY StoreSteps DEF Retain, Cleanup, Tick, hubVars
  <2>2. r = [boot |-> m.batch.boot, seq |-> m.batch.seq, at |-> clock] /\ ~ Known(m.batch)
    BY <2>1 DEF IngestNew, Accept
  <2>3. ~ Known(r)
    BY <2>2 DEF Known, SameBatch
  <2>4. RowsOf(r) = {}
    BY <2>3 DEF RowsOf, RowsProtected, Known, SameBatch
  <2>5. ASSUME NEW a \in accepted, SameBatch(a, r) PROVE r.at - a.at > DedupRetention
    <3>1. ~ \E q \in receipts : SameBatch(q, a)
      BY <2>3, <2>5 DEF Known, SameBatch
    <3>2. ~ (clock - a.at <= DedupRetention)
      BY <3>1 DEF WindowOpen
    <3>. QED  BY <2>2, <3>2, RetentionAssumption DEF TypeOK, Accepted
  <2>. QED  BY <2>4, <2>5
<1>2. Spec => [][\A r \in receipts' \ receipts : Late(r)]_vars
  BY <1>1, TypeCorrect, RowsStayProtected, WindowStaysOpen, PTL DEF Spec
<1>. QED  BY <1>2 DEF ReacceptOnlyAfterExpiry

-----------------------------------------------------------------------------
(***************************************************************************)
(* Where the main goroutine is when it holds what (agent.go, flushQueue).  *)
(***************************************************************************)
Stages ==
  /\ pc # "select" => queue = {}
  /\ pc \notin {"replay", "post"} => hand = {}
  /\ pc # "post" => call = {}
  /\ \A b, c \in hand : b = c
  /\ \A c \in call : c.batch \in Batches(spool) \cup hand

\* flushQueue gives up in the same way wherever it stops.
LEMMA GiveUpStages ==
  ASSUME Stages, pc \in {"replay", "post"}, GiveUp PROVE Stages'
BY DEF GiveUp, FlushReturns, Stages

LEMMA StagesStep == Stages /\ [Next]_vars => Stages'
<1> SUFFICES ASSUME Stages, [Next]_vars PROVE Stages'
  OBVIOUS
<1>1. CASE Start \/ Discover \/ StopOnClosed \/ FlushDone \/ Crash
  BY <1>1 DEF Start, Discover, StopOnClosed, FlushDone, FlushReturns, Crash, Running, Stages
<1>2. CASE Collect \/ CollectOverflow \/ CollectOverflowFails
  BY <1>2 DEF Collect, CollectOverflow, CollectOverflowFails, Stages
<1>3. CASE FlushTick \/ StopWithFlush
  BY <1>3 DEF FlushTick, StopWithFlush, FlushQueue, Stages
<1>4. CASE SendNext
  BY <1>4 DEF SendNext, Batches, Stages
<1>5. CASE SendFails \/ ReplayFails
  BY <1>5, GiveUpStages DEF SendFails, ReplayFails
<1>6. ASSUME NEW m \in req, SendSucceeds(m) PROVE Stages'
  <2>1. CASE GiveUp  BY <1>6, <2>1, GiveUpStages DEF SendSucceeds
  <2>2. CASE ~ GiveUp  BY <1>6, <2>2 DEF SendSucceeds, FlushReturns, Stages
  <2>. QED  BY <2>1, <2>2
<1>7. CASE UNCHANGED <<pc, queue, hand, call, spool>>
  BY <1>7 DEF Stages
<1>8. CASE HubNext \/ Tick \/ UNCHANGED vars
  BY <1>7, <1>8 DEF HubNext, IngestNew, IngestDuplicate, PublishEntry, Answer, Lose, HubRestart,
                    Retain, Tick, vars, agentVars
<1>. QED  BY <1>1, <1>2, <1>3, <1>4, <1>5, <1>6, <1>8 DEF Next, AgentNext

-----------------------------------------------------------------------------
(***************************************************************************)
(* What an operation of the spool does to the entries and the batches.     *)
(***************************************************************************)
LEMMA EntriesOfUnion ==
  /\ \A x, y : EntriesOf(x \cup y) = EntriesOf(x) \cup EntriesOf(y)
  /\ \A b : EntriesOf({b}) = b.entries
  /\ EntriesOf({}) = {}
  /\ \A x, b : b \in x => b.entries \subseteq EntriesOf(x)
BY DEF EntriesOf

LEMMA BatchesUnion ==
  \A s, i : Batches(s \cup {i}) = Batches(s) \cup {i.batch}
BY DEF Batches

\* Write loses what it counts as lost and nothing else, and adds one batch.
LEMMA SpoolBecomesKeeps ==
  ASSUME NEW b, NEW s, NEW also, s \subseteq spool \cup {ItemOf(b)}, SpoolBecomes(s, b, also)
  PROVE  /\ Batches(spool') \subseteq Batches(spool) \cup {b}
         /\ EntriesOf(Batches(spool')) \cup lost'
              = EntriesOf(Batches(spool)) \cup b.entries \cup lost \cup also
<1>1. Batches(spool \cup {ItemOf(b)}) = Batches(spool) \cup {b}
  BY BatchesUnion DEF ItemOf
<1>2. EntriesOf(Batches(spool \cup {ItemOf(b)})) = EntriesOf(Batches(spool)) \cup b.entries
  BY <1>1 DEF EntriesOf
<1>3. Batches(s) \subseteq Batches(spool \cup {ItemOf(b)})
  BY DEF Batches
<1>4. EntriesOf(Batches(s)) \subseteq EntriesOf(Batches(spool \cup {ItemOf(b)}))
  BY <1>3 DEF EntriesOf
<1>5. spool' = s /\ lost' = lost \cup also
                      \cup (EntriesOf(Batches(spool \cup {ItemOf(b)})) \ EntriesOf(Batches(s)))
  BY DEF SpoolBecomes
<1>. QED  BY <1>1, <1>2, <1>3, <1>4, <1>5

\* The two ways a write of b into the spool may end.
LEMMA WritesStayBelow ==
  ASSUME NEW b
  PROVE  /\ Written(spool, ItemOf(b), clock) \subseteq spool \cup {ItemOf(b)}
         /\ \A s \in FailedWrites(spool, ItemOf(b), clock) : s \subseteq spool \cup {ItemOf(b)}
BY PrunedIsSubset, FailedWritesSubset DEF Written

LEMMA GiveUpKeeps ==
  ASSUME Stages, GiveUp
  PROVE  /\ Batches(spool') \subseteq Batches(spool) \cup hand
         /\ hand' = {} /\ call' = {}
         /\ EntriesOf(Batches(spool')) \cup lost'
              = EntriesOf(Batches(spool)) \cup EntriesOf(hand) \cup lost
         /\ UNCHANGED <<clock, boot, seq, nextEntry, queue, hubVars>>
<1>1. hand' = {} /\ call' = {} /\ UNCHANGED <<clock, boot, seq, nextEntry, queue, hubVars>>
  BY DEF GiveUp
<1>2. CASE hand = {} /\ UNCHANGED <<spool, lost>>
  BY <1>1, <1>2, EntriesOfUnion
<1>3. ASSUME NEW b \in hand, NEW s, s \subseteq spool \cup {ItemOf(b)}, SpoolBecomes(s, b, {})
      PROVE  /\ Batches(spool') \subseteq Batches(spool) \cup hand
             /\ EntriesOf(Batches(spool')) \cup lost'
                  = EntriesOf(Batches(spool)) \cup EntriesOf(hand) \cup lost
  <2>1. hand = {b}  BY DEF Stages
  <2>2. EntriesOf(hand) = b.entries  BY <2>1, EntriesOfUnion
  <2>. QED  BY <1>3, <2>1, <2>2, SpoolBecomesKeeps
<1>. QED  BY <1>1, <1>2, <1>3, WritesStayBelow DEF GiveUp

-----------------------------------------------------------------------------
(***************************************************************************)
(* Nothing vanishes.  Every step leaves the entries accounted for as they  *)
(* are or adds the one just collected.                                     *)
(***************************************************************************)
\* What any two batches have in common, wherever they are and whatever became
\* of them: their entries if they are one batch, nothing otherwise.
Core(a)    == [boot |-> a.boot, seq |-> a.seq, entries |-> a.entries]
Travelling == AllBatches \cup {Core(a) : a \in accepted}

OneBatchEach ==
  \A b, c \in Travelling :
    IF SameBatch(b, c) THEN b.entries = c.entries ELSE b.entries \cap c.entries = {}

\* The Hub has accepted what it has a receipt of and what it has answered.
Remembered ==
  /\ \A r \in receipts : \E a \in accepted : SameBatch(a, r)
  /\ \A m \in req : m.stage # "sent" => \E a \in accepted : SameBatch(a, m.batch)

\* A request carries nothing that the Agent has not got or the Hub stored.
Carried == \A m \in req : m.batch.entries \subseteq Accounted

Steady    == Accounted' = Accounted /\ UNCHANGED <<boot, nextEntry>>
Restarted == /\ Accounted' = Accounted
             /\ boot < MaxBoots /\ boot' = boot + 1 /\ nextEntry' = 0
             /\ UNCHANGED <<clock, receipts, rows, accepted>>
Collected == /\ pc = "select"
             /\ Cardinality(Accounted) < MaxEntries
             /\ Accounted' = Accounted \cup {NewEntry}
             /\ nextEntry' = nextEntry + 1
             /\ UNCHANGED <<clock, boot, receipts, rows, accepted>>

LEMMA StoredHas ==
  ASSUME OneBatchEach, NEW b \in AllBatches, NEW a \in accepted, SameBatch(a, b)
  PROVE  b.entries = a.entries /\ b.entries \subseteq Stored
<1>1. Core(a) \in Travelling /\ b \in Travelling  BY DEF Travelling
<1>2. SameBatch(Core(a), b) /\ Core(a).entries = a.entries  BY DEF SameBatch, Core
<1>3. b.entries = a.entries  BY <1>1, <1>2 DEF OneBatchEach
<1>. QED  BY <1>3 DEF Stored, EntriesOf

LEMMA CollectKeeps == ASSUME Stages, Collect PROVE Collected
<1>1. /\ pc = "select" /\ Cardinality(Accounted) < MaxEntries
      /\ nextEntry' = nextEntry + 1 /\ UNCHANGED <<clock, boot, receipts, rows, accepted>>
  BY DEF Collect, hubVars
<1>2. UNCHANGED <<spool, lost, accepted>>  BY DEF Collect, hubVars
<1>3. queue' \cup EntriesOf(hand') = queue \cup EntriesOf(hand) \cup {NewEntry}
  <2>1. hand = {}  BY <1>1 DEF Stages
  <2>2. CASE queue' = queue \cup {NewEntry} /\ hand' = hand
    BY <2>2
  <2>3. CASE queue' = {} /\ hand' = {Flushed(queue \cup {NewEntry})}
    <3>1. EntriesOf(hand') = queue \cup {NewEntry}
      BY <2>3 DEF EntriesOf, Flushed
    <3>. QED  BY <2>1, <2>3, <3>1, EntriesOfUnion
  <2>. QED  BY <2>2, <2>3 DEF Collect
<1>. QED  BY <1>1, <1>2, <1>3 DEF Collected, Accounted, Held, Stored

LEMMA OverflowKeeps == ASSUME Stages, CollectOverflow \/ CollectOverflowFails PROVE Collected
<1>1. /\ pc = "select" /\ Cardinality(Accounted) < MaxEntries
      /\ nextEntry' = nextEntry + 1 /\ UNCHANGED <<clock, boot, receipts, rows, accepted>>
      /\ hand' = hand
  BY DEF CollectOverflow, CollectOverflowFails, hubVars
<1>2. Flushed(queue).entries = queue  BY DEF Flushed
<1>3. CASE CollectOverflow
  <2>1. /\ EntriesOf(Batches(spool')) \cup lost' = EntriesOf(Batches(spool)) \cup queue \cup lost
        /\ queue' = {NewEntry}
    BY <1>2, <1>3, SpoolBecomesKeeps, WritesStayBelow DEF CollectOverflow
  <2>. QED  BY <1>1, <2>1 DEF Collected, Accounted, Held, Stored
<1>4. CASE CollectOverflowFails
  <2>1. PICK s \in FailedWrites(spool, ItemOf(Flushed(queue)), clock) :
               SpoolBecomes(s, Flushed(queue), {NewEntry})
    BY <1>4 DEF CollectOverflowFails
  <2>2. EntriesOf(Batches(spool')) \cup lost'
          = EntriesOf(Batches(spool)) \cup queue \cup lost \cup {NewEntry}
    BY <1>2, <2>1, SpoolBecomesKeeps, WritesStayBelow
  <2>3. queue' = {}  BY <1>4 DEF CollectOverflowFails
  <2>. QED  BY <1>1, <2>2, <2>3 DEF Collected, Accounted, Held, Stored
<1>. QED  BY <1>3, <1>4

LEMMA FlushQueueKeeps == ASSUME Stages, NEW last, FlushQueue(last) PROVE Steady
<1>1. UNCHANGED <<boot, nextEntry, spool, lost, accepted>>  BY DEF FlushQueue, hubVars
<1>2. queue' \cup EntriesOf(hand') = queue \cup EntriesOf(hand)
  <2>1. CASE UNCHANGED <<queue, hand>>  BY <2>1
  <2>2. CASE queue' = {} /\ hand' = {Flushed(queue)}
    <3>1. EntriesOf(hand') = queue  BY <2>2 DEF EntriesOf, Flushed
    <3>2. hand = {}  BY DEF FlushQueue, Stages
    <3>. QED  BY <2>2, <3>1, <3>2, EntriesOfUnion
  <2>. QED  BY <2>1, <2>2 DEF FlushQueue
<1>. QED  BY <1>1, <1>2 DEF Steady, Accounted, Held, Stored

LEMMA GiveUpAccounts == ASSUME Stages, GiveUp PROVE Steady
<1>1. EntriesOf(hand') = {}  BY GiveUpKeeps, EntriesOfUnion
<1>. QED  BY <1>1, GiveUpKeeps DEF Steady, Accounted, Held, Stored, hubVars

\* The batch a call answered 200 leaves the Agent; the Hub has stored it.
LEMMA SendSucceedsKeeps ==
  ASSUME Stages, OneBatchEach, Remembered, NEW m \in req, SendSucceeds(m) PROVE Steady
<1>1. CASE GiveUp  BY <1>1, GiveUpAccounts
<1>2. m.batch.entries \subseteq Stored
  BY StoredHas DEF SendSucceeds, Remembered, AllBatches
<1>3. CASE ~ GiveUp /\ m.batch \in Batches(spool)
  <2>1. UNCHANGED <<boot, nextEntry, queue, hand, lost, accepted>>
    BY <1>3 DEF SendSucceeds, hubVars
  <2>2. spool' = {i \in spool : i.batch # m.batch}  BY <1>3 DEF SendSucceeds
  <2>3. EntriesOf(Batches(spool')) \cup m.batch.entries = EntriesOf(Batches(spool))
    BY <1>3, <2>2 DEF EntriesOf, Batches
  <2>. QED  BY <1>2, <2>1, <2>3 DEF Steady, Accounted, Held, Stored
<1>4. CASE ~ GiveUp /\ m.batch \notin Batches(spool)
  <2>1. UNCHANGED <<boot, nextEntry, queue, spool, lost, accepted>> /\ hand' = {}
    BY <1>4 DEF SendSucceeds, hubVars
  <2>2. m.batch \in hand
    BY <1>4 DEF SendSucceeds, Waiting, Stages
  <2>3. hand = {m.batch}  BY <2>2 DEF Stages
  <2>4. EntriesOf(hand) = m.batch.entries /\ EntriesOf(hand') = {}
    BY <2>1, <2>3, EntriesOfUnion
  <2>. QED  BY <1>2, <2>1, <2>4 DEF Steady, Accounted, Held, Stored
<1>. QED  BY <1>1, <1>3, <1>4

LEMMA CrashKeeps == ASSUME Stages, Crash PROVE Steady
<1>1. UNCHANGED <<boot, nextEntry, accepted>> /\ queue' = {} /\ hand' = {}
  BY DEF Crash, hubVars
<1>2. EntriesOf(hand') = {}  BY <1>1, EntriesOfUnion
<1>3. CASE spool' = spool /\ lost' = lost \cup queue \cup EntriesOf(hand)
  BY <1>1, <1>2, <1>3 DEF Steady, Accounted, Held, Stored
<1>4. CASE /\ hand # {}
           /\ spool' = spool \cup {ItemOf(b) : b \in hand} /\ lost' = lost \cup queue
  <2>1. PICK b : hand = {b}  BY <1>4 DEF Stages
  <2>2. spool' = spool \cup {ItemOf(b)} /\ EntriesOf(hand) = b.entries
    BY <1>4, <2>1, EntriesOfUnion
  <2>3. Batches(spool') = Batches(spool) \cup {b}
    BY <2>2, BatchesUnion DEF ItemOf
  <2>4. EntriesOf(Batches(spool')) = EntriesOf(Batches(spool)) \cup EntriesOf(hand)
    BY <2>2, <2>3 DEF EntriesOf
  <2>. QED  BY <1>1, <1>2, <1>4, <2>4 DEF Steady, Accounted, Held, Stored
<1>. QED  BY <1>3, <1>4 DEF Crash

LEMMA IngestKeeps == ASSUME Carried, NEW m \in req, IngestNew(m) PROVE Steady
<1>1. UNCHANGED <<boot, nextEntry, queue, hand, spool, lost>>  BY DEF IngestNew, agentVars
<1>2. Stored' = Stored \cup m.batch.entries
  <2> DEFINE a0 == [boot |-> m.batch.boot, seq |-> m.batch.seq,
                    entries |-> m.batch.entries, at |-> clock]
  <2>1. accepted' = accepted \cup {a0} /\ a0.entries = m.batch.entries  BY DEF IngestNew
  <2>. HIDE DEF a0
  <2>. QED  BY <2>1 DEF Stored, EntriesOf
<1>. QED  BY <1>1, <1>2 DEF Steady, Accounted, Held, Carried

LEMMA AccountedStep ==
  Stages /\ OneBatchEach /\ Remembered /\ Carried /\ [Next]_vars => Steady \/ Restarted \/ Collected
<1> SUFFICES ASSUME Stages, OneBatchEach, Remembered, Carried, [Next]_vars
             PROVE  Steady \/ Restarted \/ Collected
  OBVIOUS
<1>1. CASE UNCHANGED <<boot, nextEntry, queue, hand, spool, lost, accepted>>
  BY <1>1 DEF Steady, Accounted, Held, Stored
<1>2. CASE Start
  BY <1>2 DEF Start, Restarted, Accounted, Held, Stored, hubVars
<1>3. CASE Discover \/ SendNext \/ FlushDone
  BY <1>1, <1>3 DEF Discover, SendNext, FlushDone, hubVars
<1>4. CASE FlushTick \/ StopWithFlush
  BY <1>4, FlushQueueKeeps DEF FlushTick, StopWithFlush
<1>5. CASE StopOnClosed
  BY <1>5 DEF StopOnClosed, Steady, Accounted, Held, Stored, hubVars
<1>6. CASE SendFails \/ ReplayFails
  BY <1>6, GiveUpAccounts DEF SendFails, ReplayFails
<1>7. CASE \E m \in req : IngestDuplicate(m) \/ PublishEntry(m) \/ Answer(m) \/ Lose(m)
  BY <1>1, <1>7 DEF IngestDuplicate, PublishEntry, Answer, Lose, agentVars, hubVars
<1>8. CASE HubRestart \/ Retain \/ Tick \/ UNCHANGED vars
  BY <1>1, <1>8 DEF HubRestart, Retain, Tick, vars, agentVars, hubVars
<1>. QED  BY <1>2, <1>3, <1>4, <1>5, <1>6, <1>7, <1>8, CollectKeeps, OverflowKeeps, CrashKeeps,
            SendSucceedsKeeps, IngestKeeps DEF Next, AgentNext, HubNext

-----------------------------------------------------------------------------
(***************************************************************************)
(* Which batches travel.  A step moves batches about, except that a flush  *)
(* makes one of what is queued, under the next number of this boot.        *)
(***************************************************************************)
\* Every entry accounted for was counted by its boot.
Counted == \A e \in Accounted : e.boot <= boot /\ (e.boot = boot => e.n <= nextEntry)

\* Batches of this boot are numbered up to seq.
Numbered == \A b \in Travelling : b.boot <= boot /\ (b.boot = boot => b.seq <= seq)

\* What is queued is in no batch yet.
QueueApart == \A b \in Travelling : queue \cap b.entries = {}

Quiet     == /\ Travelling' \subseteq Travelling
             /\ queue' \subseteq queue \cup {NewEntry}
             /\ UNCHANGED <<boot, seq>>
Reborn    == /\ Travelling' \subseteq Travelling
             /\ queue' = {} /\ boot' = boot + 1 /\ seq' = 0
Numbering == /\ \E q \in SUBSET (queue \cup {NewEntry}) :
                  /\ Travelling' \subseteq Travelling \cup {Flushed(q)}
                  /\ queue' \subseteq {NewEntry} \ q
             /\ boot' = boot /\ seq' = seq + 1

LEMMA TravelsFrom ==
  ASSUME NEW X, hand' \subseteq AllBatches \cup X, Batches(spool') \subseteq AllBatches \cup X,
         \A m \in req' : m.batch \in AllBatches, \A c \in call' : c.batch \in AllBatches,
         accepted' = accepted
  PROVE  Travelling' \subseteq Travelling \cup X
BY DEF Travelling, AllBatches, Core

LEMMA GiveUpTravels ==
  ASSUME Stages, GiveUp, req' \subseteq req PROVE Quiet
<1>1. hand' = {} /\ call' = {} /\ accepted' = accepted /\ UNCHANGED <<boot, seq, queue>>
  BY GiveUpKeeps DEF hubVars
<1>2. Batches(spool') \subseteq AllBatches  BY GiveUpKeeps DEF AllBatches
<1>3. \A m \in req' : m.batch \in AllBatches  BY DEF AllBatches
<1>4. Travelling' \subseteq Travelling \cup {}
  BY <1>1, <1>2, <1>3, TravelsFrom
<1>. QED  BY <1>1, <1>4 DEF Quiet

\* A Hub handler changes how far a request got, not what it carries.
LEMMA BecomeCarries ==
  ASSUME TypeOK, NEW m \in req, NEW stage, NEW left, Become(m, stage, left) \/ Reply(m)
  PROVE  \A n \in req' : n \in req \/ n.batch = m.batch
<1>1. [m EXCEPT !.stage = stage, !.left = left].batch = m.batch  BY DEF TypeOK, Request
<1>2. [m EXCEPT !.stage = "answered", !.left = {}].batch = m.batch  BY DEF TypeOK, Request
<1>. QED  BY <1>1, <1>2 DEF Become, Reply

LEMMA HubTravels ==
  ASSUME TypeOK, NEW m \in req,
         IngestNew(m) \/ IngestDuplicate(m) \/ PublishEntry(m) \/ Answer(m) \/ Lose(m)
  PROVE  Quiet
<1>1. UNCHANGED <<boot, seq, queue, hand, call, spool>>
  BY DEF IngestNew, IngestDuplicate, PublishEntry, Answer, Lose, agentVars
<1>2. \A n \in req' : n \in req \/ n.batch = m.batch
  <2>1. CASE IngestNew(m) \/ PublishEntry(m)
    BY <2>1, BecomeCarries DEF IngestNew, PublishEntry
  <2>2. CASE IngestDuplicate(m) \/ Answer(m)
    BY <2>2, BecomeCarries DEF IngestDuplicate, Answer
  <2>3. CASE Lose(m)
    BY <2>3 DEF Lose
  <2>. QED  BY <2>1, <2>2, <2>3
<1>3. AllBatches' \subseteq AllBatches
  BY <1>1, <1>2 DEF AllBatches
<1>4. \A a \in accepted' : Core(a) \in Travelling
  <2>1. CASE accepted' = accepted  BY <2>1 DEF Travelling
  <2>2. CASE IngestNew(m)
    <3> DEFINE a0 == [boot |-> m.batch.boot, seq |-> m.batch.seq,
                      entries |-> m.batch.entries, at |-> clock]
    <3>1. accepted' = accepted \cup {a0}  BY <2>2 DEF IngestNew
    <3>2. Core(a0) = m.batch  BY DEF TypeOK, Request, Batch, Core
    <3>3. m.batch \in Travelling  BY DEF Travelling, AllBatches
    <3>. QED  BY <3>1, <3>2, <3>3 DEF Travelling
  <2>. QED  BY <2>1, <2>2 DEF IngestDuplicate, PublishEntry, Answer, Lose, hubVars
<1>5. Travelling' \subseteq Travelling
  BY <1>3, <1>4 DEF Travelling, Core
<1>. QED  BY <1>1, <1>5 DEF Quiet

LEMMA CollectTravels ==
  ASSUME Stages, NewEntry \notin queue,
         Collect \/ CollectOverflow \/ CollectOverflowFails
  PROVE  Quiet \/ Numbering
<1>1. UNCHANGED <<boot, call, req, accepted>>
  BY DEF Collect, CollectOverflow, CollectOverflowFails, hubVars
<1>2. /\ \A m \in req' : m.batch \in AllBatches
      /\ \A c \in call' : c.batch \in AllBatches
      /\ hand \subseteq AllBatches /\ Batches(spool) \subseteq AllBatches
  BY <1>1 DEF AllBatches
<1>3. CASE Collect /\ queue' = queue \cup {NewEntry} /\ UNCHANGED <<hand, seq>>
  <2>1. spool' = spool  BY <1>3 DEF Collect
  <2>2. Travelling' \subseteq Travelling \cup {}
    BY <1>1, <1>2, <1>3, <2>1, TravelsFrom
  <2>. QED  BY <1>1, <1>3, <2>2 DEF Quiet
<1>4. CASE Collect /\ hand' = {Flushed(queue \cup {NewEntry})} /\ queue' = {} /\ seq' = seq + 1
  <2>1. spool' = spool  BY <1>4 DEF Collect
  <2>2. Travelling' \subseteq Travelling \cup {Flushed(queue \cup {NewEntry})}
    BY <1>1, <1>2, <1>4, <2>1, TravelsFrom
  <2>. QED  BY <1>1, <1>4, <2>2 DEF Numbering
<1>5. CASE CollectOverflow \/ CollectOverflowFails
  <2>1. hand' = hand /\ seq' = seq + 1 /\ queue' \subseteq {NewEntry}
    BY <1>5 DEF CollectOverflow, CollectOverflowFails, CarriedSequence
  <2>2. Batches(spool') \subseteq Batches(spool) \cup {Flushed(queue)}
    <3>1. CASE CollectOverflow
      BY <3>1, SpoolBecomesKeeps, WritesStayBelow DEF CollectOverflow
    <3>2. CASE CollectOverflowFails
      BY <3>2, SpoolBecomesKeeps, WritesStayBelow DEF CollectOverflowFails
    <3>. QED  BY <1>5, <3>1, <3>2
  <2>3. Travelling' \subseteq Travelling \cup {Flushed(queue)}
    BY <1>1, <1>2, <2>1, <2>2, TravelsFrom
  <2>. QED  BY <1>1, <2>1, <2>3 DEF Numbering
<1>. QED  BY <1>3, <1>4, <1>5 DEF Collect

LEMMA FlushTravels ==
  ASSUME NEW last, FlushQueue(last) PROVE Quiet \/ Numbering
<1>1. UNCHANGED <<boot, call, spool, req, accepted>>
  BY DEF FlushQueue, hubVars
<1>2. /\ \A m \in req' : m.batch \in AllBatches
      /\ \A c \in call' : c.batch \in AllBatches
      /\ hand \subseteq AllBatches /\ Batches(spool') \subseteq AllBatches
  BY <1>1 DEF AllBatches
<1>3. CASE UNCHANGED <<seq, queue, metadata, hand>>
  <2>1. Travelling' \subseteq Travelling \cup {}
    BY <1>1, <1>2, <1>3, TravelsFrom
  <2>. QED  BY <1>1, <1>3, <2>1 DEF Quiet
<1>4. CASE hand' = {Flushed(queue)} /\ seq' = seq + 1 /\ queue' = {}
  <2>1. Travelling' \subseteq Travelling \cup {Flushed(queue)}
    BY <1>1, <1>2, <1>4, TravelsFrom
  <2>. QED  BY <1>1, <1>4, <2>1 DEF Numbering
<1>. QED  BY <1>3, <1>4 DEF FlushQueue

LEMMA SendTravels ==
  ASSUME Stages, SendNext \/ FlushDone \/ Discover \/ Crash \/ StopOnClosed PROVE Quiet
<1>1. UNCHANGED <<boot, seq, accepted>> /\ queue' \subseteq queue
  BY DEF SendNext, FlushDone, Discover, Crash, StopOnClosed, hubVars
<1>2. CASE SendNext
  <2>1. PICK b \in Batches({i \in spool : IsFirst(i, spool)}) \cup (IF spool = {} THEN hand ELSE {}),
             r \in Slots \ {m.slot : m \in req} :
          /\ req' = req \cup {[slot |-> r, batch |-> b, stage |-> "sent", left |-> {}]}
          /\ call' = {[slot |-> r, batch |-> b]}
    BY <1>2 DEF SendNext
  <2>2. b \in AllBatches  BY DEF AllBatches, Batches
  <2>3. /\ \A m \in req' : m.batch \in AllBatches
        /\ \A c \in call' : c.batch \in AllBatches
    BY <2>1, <2>2 DEF AllBatches
  <2>4. hand' \subseteq AllBatches /\ Batches(spool') \subseteq AllBatches
    BY <1>2 DEF SendNext, AllBatches
  <2>5. Travelling' \subseteq Travelling \cup {}
    BY <1>1, <2>3, <2>4, TravelsFrom
  <2>. QED  BY <1>1, <2>5 DEF Quiet
<1>3. CASE FlushDone \/ Discover \/ Crash \/ StopOnClosed
  <2>1. hand' \subseteq hand /\ call' \subseteq call /\ req' \subseteq req
    BY <1>3 DEF FlushDone, Discover, Crash, HangUp, StopOnClosed
  <2>2. Batches(spool') \subseteq Batches(spool) \cup hand
    BY <1>3 DEF FlushDone, Discover, Crash, StopOnClosed, Batches, ItemOf
  <2>3. Travelling' \subseteq Travelling \cup {}
    BY <1>1, <2>1, <2>2, TravelsFrom DEF AllBatches
  <2>. QED  BY <1>1, <2>3 DEF Quiet
<1>. QED  BY <1>2, <1>3

LEMMA SendSucceedsTravels ==
  ASSUME Stages, NEW m \in req, SendSucceeds(m) PROVE Quiet
<1>1. req' \subseteq req  BY DEF SendSucceeds
<1>2. CASE GiveUp  BY <1>1, <1>2, GiveUpTravels
<1>3. CASE ~ GiveUp
  <2>1. /\ hand' \subseteq hand /\ call' \subseteq call /\ spool' \subseteq spool
        /\ UNCHANGED <<boot, seq, queue, accepted>>
    BY <1>3 DEF SendSucceeds, hubVars
  <2>2. Travelling' \subseteq Travelling \cup {}
    BY <1>1, <2>1, TravelsFrom DEF AllBatches, Batches
  <2>. QED  BY <2>1, <2>2 DEF Quiet
<1>. QED  BY <1>2, <1>3

LEMMA TravelStep ==
  TypeOK /\ Stages /\ NewEntry \notin queue /\ [Next]_vars => Quiet \/ Reborn \/ Numbering
<1> SUFFICES ASSUME TypeOK, Stages, NewEntry \notin queue, [Next]_vars
             PROVE  Quiet \/ Reborn \/ Numbering
  OBVIOUS
<1>1. CASE Start
  <2>1. Travelling' = Travelling
    BY <1>1 DEF Start, Travelling, AllBatches, hubVars
  <2>. QED  BY <1>1, <2>1 DEF Start, Running, Stages, Reborn
<1>2. CASE SendFails \/ ReplayFails
  BY <1>2, GiveUpTravels DEF SendFails, HangUp, ReplayFails
<1>3. CASE FlushTick \/ StopWithFlush
  BY <1>3, FlushTravels DEF FlushTick, StopWithFlush
<1>4. CASE HubRestart \/ Retain \/ Tick \/ UNCHANGED vars
  <2>1. UNCHANGED <<boot, seq, queue, hand, call, spool, accepted>> /\ req' \subseteq req
    BY <1>4 DEF HubRestart, Retain, Tick, vars, agentVars, hubVars
  <2>2. Travelling' \subseteq Travelling \cup {}
    BY <2>1, TravelsFrom DEF AllBatches
  <2>. QED  BY <2>1, <2>2 DEF Quiet
<1>. QED  BY <1>1, <1>2, <1>3, <1>4, CollectTravels, SendTravels, SendSucceedsTravels, HubTravels
          DEF Next, AgentNext, HubNext

-----------------------------------------------------------------------------
(***************************************************************************)
(* The invariant of the batches: what the Agent and the Hub hold, and what *)
(* the Hub remembers, agrees.                                              *)
(***************************************************************************)
Ledger ==
  /\ TypeOK /\ Stages /\ Remembered /\ Carried /\ Counted
  /\ Numbered /\ OneBatchEach /\ QueueApart

LEMMA NewEntryIsNew == ASSUME TypeOK, Counted PROVE NewEntry \notin Accounted
BY DEF TypeOK, Counted, NewEntry

LEMMA TravellingAccounted ==
  ASSUME Stages, Carried, NEW b \in Travelling PROVE b.entries \subseteq Accounted
<1>1. \A c \in hand \cup Batches(spool) : c.entries \subseteq Accounted
  BY EntriesOfUnion DEF Accounted, Held
<1>2. \A c \in call : c.batch.entries \subseteq Accounted
  BY <1>1 DEF Stages
<1>3. \A a \in accepted : Core(a).entries \subseteq Accounted
  BY EntriesOfUnion DEF Accounted, Stored, Core
<1>. QED  BY <1>1, <1>2, <1>3 DEF Travelling, AllBatches, Carried

LEMMA AcceptedGrows == [Next]_vars => accepted \subseteq accepted'
BY StoreSteps DEF IngestNew, Retain, Tick, hubVars

LEMMA ReceiptsRemembered ==
  (\A r \in receipts : \E a \in accepted : SameBatch(a, r)) /\ [Next]_vars
    => (\A r \in receipts : \E a \in accepted : SameBatch(a, r))'
<1> SUFFICES ASSUME \A r \in receipts : \E a \in accepted : SameBatch(a, r), [Next]_vars,
                    NEW r \in receipts'
             PROVE  \E a \in accepted' : SameBatch(a, r)
  BY DEF SameBatch
<1>1. CASE r \in receipts  BY <1>1, AcceptedGrows
<1>2. CASE r \notin receipts
  <2>1. PICK m \in req : IngestNew(m)
    BY <1>2, StoreSteps DEF Retain, Cleanup, Tick, hubVars
  <2> DEFINE a0 == [boot |-> m.batch.boot, seq |-> m.batch.seq,
                    entries |-> m.batch.entries, at |-> clock]
  <2>2. r = [boot |-> m.batch.boot, seq |-> m.batch.seq, at |-> clock] /\ a0 \in accepted'
    BY <1>2, <2>1 DEF IngestNew, Accept
  <2>3. SameBatch(a0, r)  BY <2>2 DEF SameBatch
  <2>. QED  BY <2>2, <2>3
<1>. QED  BY <1>1, <1>2

\* Requests come from the Agent, and go ahead once their batch is accepted.
LEMMA RequestSteps ==
  ASSUME TypeOK, [Next]_vars, NEW n \in req'
  PROVE  \/ n \in req
         \/ n.stage = "sent" /\ n.batch \in hand \cup Batches(spool) /\ SendNext
         \/ \E m \in req : /\ n.batch = m.batch
                           /\ m.stage = "publishing" \/ IngestNew(m) \/ IngestDuplicate(m)
<1>1. CASE SendNext
  BY <1>1 DEF SendNext, Batches
<1>2. ASSUME NEW m \in req, IngestNew(m) \/ IngestDuplicate(m) \/ PublishEntry(m) \/ Answer(m)
      PROVE  \/ n \in req
             \/ /\ n.batch = m.batch
                /\ m.stage = "publishing" \/ IngestNew(m) \/ IngestDuplicate(m)
  <2>1. CASE IngestNew(m) \/ IngestDuplicate(m)
    BY <2>1, BecomeCarries DEF IngestNew, IngestDuplicate
  <2>2. CASE PublishEntry(m) \/ Answer(m)
    BY <2>2, BecomeCarries DEF PublishEntry, Answer
  <2>. QED  BY <1>2, <2>1, <2>2
<1>3. CASE req' \subseteq req  BY <1>3
<1>4. CASE Start \/ Collect \/ CollectOverflow \/ CollectOverflowFails \/ Discover \/ FlushTick
           \/ StopWithFlush \/ StopOnClosed \/ FlushDone \/ SendFails \/ ReplayFails \/ Crash
  BY <1>3, <1>4 DEF Start, Collect, CollectOverflow, CollectOverflowFails, Discover, FlushTick,
       StopWithFlush, FlushQueue, StopOnClosed, FlushDone, SendFails, HangUp, ReplayFails, Crash
<1>5. CASE \/ \E m \in req : SendSucceeds(m) \/ Lose(m)
           \/ HubRestart \/ Retain \/ Tick \/ UNCHANGED vars
  BY <1>3, <1>5 DEF SendSucceeds, Lose, HubRestart, Retain, Tick, vars
<1>. QED  BY <1>1, <1>2, <1>4, <1>5 DEF Next, AgentNext, HubNext

LEMMA RememberedStep == TypeOK /\ Remembered /\ [Next]_vars => Remembered'
<1> SUFFICES ASSUME TypeOK, Remembered, [Next]_vars PROVE Remembered'
  OBVIOUS
<1>1. (\A r \in receipts : \E a \in accepted : SameBatch(a, r))'
  BY ReceiptsRemembered DEF Remembered
<1>2. ASSUME NEW n \in req', n.stage # "sent" PROVE \E a \in accepted' : SameBatch(a, n.batch)
  <2>1. CASE n \in req
    BY <1>2, <2>1, AcceptedGrows DEF Remembered
  <2>2. ASSUME NEW m \in req, n.batch = m.batch,
               m.stage = "publishing" \/ IngestNew(m) \/ IngestDuplicate(m)
        PROVE  \E a \in accepted' : SameBatch(a, n.batch)
    <3>1. CASE m.stage = "publishing"
      BY <2>2, <3>1, AcceptedGrows DEF Remembered
    <3>2. CASE IngestNew(m)
      <4> DEFINE a0 == [boot |-> m.batch.boot, seq |-> m.batch.seq,
                        entries |-> m.batch.entries, at |-> clock]
      <4>1. a0 \in accepted' /\ SameBatch(a0, m.batch)
        BY <3>2 DEF IngestNew, SameBatch
      <4>. QED  BY <2>2, <4>1
    <3>3. CASE IngestDuplicate(m)
      <4>1. PICK r \in receipts : SameBatch(r, m.batch)
        BY <3>3 DEF IngestDuplicate, Ignore, Known
      <4>2. PICK a \in accepted : SameBatch(a, r)  BY DEF Remembered
      <4>3. SameBatch(a, m.batch)  BY <4>1, <4>2 DEF SameBatch
      <4>. QED  BY <2>2, <4>3, AcceptedGrows
    <3>. QED  BY <2>2, <3>1, <3>2, <3>3
  <2>. QED  BY <1>2, <2>1, <2>2, RequestSteps
<1>. QED  BY <1>1, <1>2 DEF Remembered, SameBatch

LEMMA CarriedStep ==
  TypeOK /\ Stages /\ OneBatchEach /\ Remembered /\ Carried /\ [Next]_vars => Carried'
<1> SUFFICES ASSUME TypeOK, Stages, OneBatchEach, Remembered, Carried, [Next]_vars,
                    NEW n \in req'
             PROVE  n.batch.entries \subseteq Accounted'
  BY DEF Carried
<1>1. Accounted \subseteq Accounted'
  BY AccountedStep DEF Steady, Restarted, Collected
<1>2. n.batch \in Travelling
  BY RequestSteps DEF Travelling, AllBatches
<1>. QED  BY <1>1, <1>2, TravellingAccounted

LEMMA CountedStep ==
  TypeOK /\ Stages /\ OneBatchEach /\ Remembered /\ Carried /\ Counted /\ [Next]_vars => Counted'
<1> SUFFICES ASSUME TypeOK, Stages, OneBatchEach, Remembered, Carried, Counted, [Next]_vars
             PROVE  Counted'
  OBVIOUS
<1>0. boot \in Nat /\ nextEntry \in Nat  BY DEF TypeOK
<1>1. \A e \in Accounted : e \in Entry
  <2>1. \A m \in req : m.batch \in Batch  BY DEF TypeOK, Request
  <2>2. EntriesOf(hand) \subseteq Entry /\ EntriesOf(Batches(spool)) \subseteq Entry
    BY EntriesType DEF TypeOK
  <2>3. Stored \subseteq Entry  BY DEF TypeOK, Accepted, Stored, EntriesOf
  <2>. QED  BY <2>2, <2>3 DEF Accounted, Held, TypeOK
<1>2. CASE Steady  BY <1>2 DEF Steady, Counted
<1>3. CASE Restarted
  <2>1. \A e \in Accounted : e.boot \in Nat  BY <1>1 DEF Entry
  <2>. QED  BY <1>0, <1>3, <2>1 DEF Restarted, Counted
<1>4. CASE Collected
  <2>1. \A e \in Accounted : e.boot \in Nat /\ e.n \in Nat  BY <1>1 DEF Entry
  <2>2. NewEntry.boot = boot /\ NewEntry.n = nextEntry + 1  BY DEF NewEntry
  <2>. QED  BY <1>0, <1>4, <2>1, <2>2 DEF Collected, Counted
<1>. QED  BY <1>2, <1>3, <1>4, AccountedStep

LEMMA TravellingTyped ==
  ASSUME TypeOK, NEW b \in Travelling
  PROVE  b.boot \in Nat /\ b.seq \in Nat
<1>1. \A c \in AllBatches : c \in Batch
  BY EntriesType DEF TypeOK, AllBatches, Request, Call
<1>2. \A a \in accepted : Core(a).boot \in Nat /\ Core(a).seq \in Nat
  BY DEF TypeOK, Accepted, Core
<1>. QED  BY <1>1, <1>2 DEF Travelling, Batch

\* A flush gives its batch a number that no batch has, and entries none has.
LEMMA NumberingStep ==
  ASSUME Ledger, Numbering PROVE Numbered' /\ OneBatchEach' /\ QueueApart'
<1>. USE DEF Ledger
<1>1. PICK q \in SUBSET (queue \cup {NewEntry}) :
         /\ Travelling' \subseteq Travelling \cup {Flushed(q)}
         /\ queue' \subseteq {NewEntry} \ q
  BY DEF Numbering
<1>2. boot' = boot /\ seq' = seq + 1 /\ boot \in Nat /\ seq \in Nat
  BY DEF Numbering, TypeOK
<1>3. Flushed(q).boot = boot /\ Flushed(q).seq = seq + 1 /\ Flushed(q).entries = q
  BY DEF Flushed
<1>4. \A b \in Travelling : NewEntry \notin b.entries
  BY NewEntryIsNew, TravellingAccounted
<1>5. \A b \in Travelling : q \cap b.entries = {} /\ ~ SameBatch(b, Flushed(q))
  <2> SUFFICES ASSUME NEW b \in Travelling PROVE q \cap b.entries = {} /\ ~ SameBatch(b, Flushed(q))
    OBVIOUS
  <2>1. q \cap b.entries = {}  BY <1>4 DEF QueueApart
  <2>2. b.boot = boot => b.seq <= seq  BY DEF Numbered
  <2>3. b.seq \in Nat  BY TravellingTyped
  <2>. QED  BY <1>2, <1>3, <2>1, <2>2, <2>3 DEF SameBatch
<1>6. Numbered'
  <2> SUFFICES ASSUME NEW b \in Travelling'
               PROVE  b.boot <= boot /\ (b.boot = boot => b.seq <= seq + 1)
    BY <1>2 DEF Numbered
  <2>1. CASE b \in Travelling
    <3>1. b.seq \in Nat  BY <2>1, TravellingTyped
    <3>2. b.boot <= boot /\ (b.boot = boot => b.seq <= seq)  BY <2>1 DEF Numbered
    <3>. QED  BY <1>2, <3>1, <3>2
  <2>2. CASE b = Flushed(q)  BY <1>2, <1>3, <2>2
  <2>. QED  BY <1>1, <2>1, <2>2
<1>7. OneBatchEach'
  <2> SUFFICES ASSUME NEW b \in Travelling', NEW c \in Travelling'
               PROVE  IF SameBatch(b, c) THEN b.entries = c.entries ELSE b.entries \cap c.entries = {}
    BY DEF OneBatchEach, SameBatch
  <2>1. CASE b \in Travelling /\ c \in Travelling
    BY <2>1 DEF OneBatchEach
  <2>2. CASE b \in Travelling /\ c = Flushed(q)
    <3>1. ~ SameBatch(b, c) /\ q \cap b.entries = {}  BY <1>5, <2>2
    <3>. QED  BY <1>3, <2>2, <3>1
  <2>3. CASE b = Flushed(q) /\ c \in Travelling
    <3>1. ~ SameBatch(c, b) /\ q \cap c.entries = {}  BY <1>5, <2>3
    <3>2. ~ SameBatch(b, c)  BY <3>1 DEF SameBatch
    <3>. QED  BY <1>3, <2>3, <3>1, <3>2
  <2>4. CASE b = c  BY <2>4 DEF SameBatch
  <2>. QED  BY <1>1, <2>1, <2>2, <2>3, <2>4
<1>8. QueueApart'
  <2> SUFFICES ASSUME NEW b \in Travelling' PROVE queue' \cap b.entries = {}
    BY DEF QueueApart
  <2>1. CASE b \in Travelling  BY <1>1, <1>4, <2>1
  <2>2. CASE b = Flushed(q)  BY <1>1, <1>3, <2>2
  <2>. QED  BY <1>1, <2>1, <2>2
<1>. QED  BY <1>6, <1>7, <1>8

LEMMA TravellingStep ==
  Ledger /\ [Next]_vars => Numbered' /\ OneBatchEach' /\ QueueApart'
<1> SUFFICES ASSUME Ledger, [Next]_vars PROVE Numbered' /\ OneBatchEach' /\ QueueApart'
  OBVIOUS
<1>. USE DEF Ledger
<1>1. CASE Travelling' \subseteq Travelling
  <2>1. OneBatchEach'  BY <1>1 DEF OneBatchEach, SameBatch
  <2>2. CASE Quiet
    <3>1. \A b \in Travelling : NewEntry \notin b.entries
      BY NewEntryIsNew, TravellingAccounted
    <3>2. QueueApart'  BY <1>1, <2>2, <3>1 DEF Quiet, QueueApart
    <3>3. Numbered'  BY <1>1, <2>2 DEF Quiet, Numbered
    <3>. QED  BY <2>1, <3>2, <3>3
  <2>3. CASE Reborn
    <3>1. QueueApart'  BY <2>3 DEF Reborn, QueueApart
    <3>2. Numbered'
      <4> SUFFICES ASSUME NEW b \in Travelling'
                   PROVE  b.boot <= boot + 1 /\ b.boot # boot + 1
        BY <2>3 DEF Reborn, Numbered
      <4>1. b.boot \in Nat /\ boot \in Nat  BY <1>1, TravellingTyped DEF TypeOK
      <4>2. b.boot <= boot  BY <1>1 DEF Numbered
      <4>. QED  BY <4>1, <4>2
    <3>. QED  BY <2>1, <3>1, <3>2
  <2>. QED  BY <2>2, <2>3, NumberingStep, TravelStep, NewEntryIsNew DEF Accounted, Held
<1>2. CASE ~ (Travelling' \subseteq Travelling)
  <2>1. Numbering
    BY <1>2, TravelStep, NewEntryIsNew DEF Accounted, Held, Quiet, Reborn
  <2>. QED  BY <2>1, NumberingStep
<1>. QED  BY <1>1, <1>2

LEMMA LedgerStep == Ledger /\ [Next]_vars => Ledger'
<1> SUFFICES ASSUME Ledger, [Next]_vars PROVE Ledger'
  OBVIOUS
<1>1. TypeOK'  BY TypeOKStep DEF Ledger
<1>2. Stages'  BY StagesStep DEF Ledger
<1>3. Remembered' /\ Carried' /\ Counted'
  BY RememberedStep, CarriedStep, CountedStep DEF Ledger
<1>4. Numbered' /\ OneBatchEach' /\ QueueApart'
  BY TravellingStep
<1>. QED  BY <1>1, <1>2, <1>3, <1>4 DEF Ledger

LEMMA LedgerHolds == Spec => []Ledger
<1>1. Init => Ledger
  <2> SUFFICES ASSUME Init PROVE Ledger
    OBVIOUS
  <2>1. TypeOK  BY TypeOKInit
  <2>2. /\ pc = "stopped" /\ queue = {} /\ hand = {} /\ call = {} /\ spool = {} /\ req = {}
        /\ receipts = {} /\ accepted = {} /\ lost = {}
    BY DEF Init, StoreInit
  <2>3. Accounted = {} /\ Travelling = {}
    BY <2>2 DEF Accounted, Held, Stored, EntriesOf, Batches, Travelling, AllBatches
  <2>. QED
    BY <2>1, <2>2, <2>3
    DEF Ledger, Stages, Remembered, Carried, Counted, Numbered, OneBatchEach, QueueApart
<1>. QED  BY <1>1, LedgerStep, PTL DEF Spec

\* Boot and sequence identify a batch wherever a copy of it is, and an entry is
\* in one batch only (batch.go, Flush; agent.go, the sequence it carries over).
THEOREM BatchesAreIdentified == Spec => []SequenceIdentifiesBatch
<1>1. Ledger => SequenceIdentifiesBatch
  <2> SUFFICES ASSUME Ledger PROVE SequenceIdentifiesBatch
    OBVIOUS
  <2>1. ASSUME NEW b \in AllBatches, NEW c \in AllBatches \cup accepted
        PROVE  IF SameBatch(b, c) THEN b.entries = c.entries ELSE b.entries \cap c.entries = {}
    <3>1. b \in Travelling  BY DEF Travelling
    <3>2. CASE c \in AllBatches
      BY <3>1, <3>2 DEF Ledger, OneBatchEach, Travelling
    <3>3. CASE c \in accepted
      <4>1. Core(c) \in Travelling  BY <3>3 DEF Travelling
      <4>2. Core(c).entries = c.entries /\ (SameBatch(b, Core(c)) <=> SameBatch(b, c))
        BY DEF Core, SameBatch
      <4>. QED  BY <3>1, <4>1, <4>2 DEF Ledger, OneBatchEach
    <3>. QED  BY <2>1, <3>2, <3>3
  <2>2. ASSUME NEW c \in AllBatches \cup accepted PROVE queue \cap c.entries = {}
    <3>1. CASE c \in AllBatches  BY <3>1 DEF Ledger, QueueApart, Travelling
    <3>2. CASE c \in accepted
      <4>1. Core(c) \in Travelling  BY <3>2 DEF Travelling
      <4>. QED  BY <4>1 DEF Core, Ledger, QueueApart
    <3>. QED  BY <2>2, <3>1, <3>2
  <2>. QED  BY <2>1, <2>2 DEF SequenceIdentifiesBatch
<1>. QED  BY <1>1, LedgerHolds, PTL

\* At-least-once: an entry the Agent collected stays in the queue, in hand or in
\* the spool until the Hub has stored it or a death, a limit or the disk took it.
THEOREM EntriesStayAccounted == Spec => NothingVanishes
<1>1. Ledger /\ [Next]_vars => [Accounted \subseteq Accounted']_vars
  BY AccountedStep DEF Ledger, Steady, Restarted, Collected
<1>2. Spec => [][Accounted \subseteq Accounted']_vars
  BY <1>1, LedgerHolds, PTL DEF Spec
<1>. QED  BY <1>2 DEF NothingVanishes

-----------------------------------------------------------------------------
(***************************************************************************)
(* Live tails.  An entry is published a second time only for a second      *)
(* acceptance of its batch.                                                *)
(***************************************************************************)
Publishing == {m \in req : m.stage = "publishing"}

Twice(b) == \E a, c \in accepted : a.at # c.at /\ SameBatch(a, b) /\ SameBatch(c, b)

\* What two publishing loops have in common, or a loop and what was published
\* before, was accepted twice.
PublishedOnce ==
  /\ live \subseteq Stored
  /\ \A m \in Publishing : m.left \subseteq m.batch.entries
  /\ \A m \in Publishing : m.left \cap live # {} => Twice(m.batch)
  /\ \A m, n \in Publishing : m # n /\ SameBatch(m.batch, n.batch) => Twice(m.batch)

LEMMA PublishingSteps ==
  [Next]_vars => \/ Publishing' \subseteq Publishing /\ live' = live
                 \/ \E m \in req : IngestNew(m) \/ PublishEntry(m)
<1> SUFFICES ASSUME [Next]_vars, ~ \E m \in req : IngestNew(m) \/ PublishEntry(m)
             PROVE  Publishing' \subseteq Publishing /\ live' = live
  OBVIOUS
<1>1. CASE Start \/ Collect \/ CollectOverflow \/ CollectOverflowFails \/ Discover
  BY <1>1 DEF Start, Collect, CollectOverflow, CollectOverflowFails, Discover, hubVars, Publishing
<1>2. CASE FlushTick \/ StopWithFlush \/ StopOnClosed \/ FlushDone \/ Crash
  BY <1>2 DEF FlushTick, StopWithFlush, FlushQueue, StopOnClosed, FlushDone, Crash, HangUp,
              hubVars, Publishing
<1>3. CASE SendFails \/ ReplayFails \/ \E m \in req : SendSucceeds(m)
  BY <1>3 DEF SendFails, HangUp, ReplayFails, SendSucceeds, GiveUp, hubVars, Publishing
<1>4. CASE SendNext
  BY <1>4 DEF SendNext, hubVars, Publishing
<1>5. ASSUME NEW m \in req, IngestDuplicate(m) \/ Answer(m) \/ Lose(m)
      PROVE  Publishing' \subseteq Publishing /\ live' = live
  <2>1. live' = live  BY <1>5 DEF IngestDuplicate, Answer, Lose, hubVars
  <2>2. [m EXCEPT !.stage = "answered", !.left = {}].stage # "publishing"
    <3>1. CASE "stage" \in DOMAIN m  BY <3>1
    <3>2. CASE "stage" \notin DOMAIN m  BY <1>5, <3>2
    <3>. QED  BY <3>1, <3>2
  <2>. QED  BY <1>5, <2>1, <2>2 DEF IngestDuplicate, Answer, Lose, Reply, Become, Publishing
<1>6. CASE HubRestart \/ Retain \/ Tick \/ UNCHANGED vars
  BY <1>6 DEF HubRestart, Retain, Tick, vars, hubVars, Publishing
<1>. QED  BY <1>1, <1>2, <1>3, <1>4, <1>5, <1>6 DEF Next, AgentNext, HubNext

LEMMA IngestNewHeard ==
  ASSUME Ledger, WindowOpen, PublishedOnce, NEW m \in req, IngestNew(m)
  PROVE  PublishedOnce'
<1> DEFINE a0 == [boot |-> m.batch.boot, seq |-> m.batch.seq,
                  entries |-> m.batch.entries, at |-> clock]
           m0 == [m EXCEPT !.stage = "publishing", !.left = m.batch.entries]
<1>1. /\ accepted' = accepted \cup {a0} /\ req' = (req \ {m}) \cup {m0}
      /\ live' = live /\ ~ Known(m.batch)
  BY DEF IngestNew, Accept, Become
<1>2. m0.batch = m.batch /\ m0.left = m.batch.entries /\ m0.stage = "publishing"
  BY DEF Ledger, TypeOK, Request
<1>3. a0.at = clock /\ SameBatch(a0, m.batch) /\ a0.entries = m.batch.entries
  BY DEF SameBatch
<1>4. m.batch \in AllBatches  BY DEF AllBatches
<1>. HIDE DEF a0, m0
\* An earlier acceptance is past the window.
<1>5. ASSUME NEW a \in accepted, SameBatch(a, m.batch) PROVE Twice(m.batch)'
  <2>1. ~ \E r \in receipts : SameBatch(r, a)
    BY <1>1, <1>5 DEF Known, SameBatch
  <2>2. ~ (clock - a.at <= DedupRetention)  BY <2>1 DEF WindowOpen
  <2>3. a.at # a0.at
    BY <1>3, <2>2, RetentionAssumption DEF Ledger, TypeOK, Accepted
  <2>. QED  BY <1>1, <1>3, <1>5, <2>3 DEF Twice, SameBatch
<1>6. \A b : Twice(b) => Twice(b)'
  BY <1>1 DEF Twice, SameBatch
<1>7. Publishing' \subseteq Publishing \cup {m0}
  BY <1>1 DEF Publishing
<1>8. live' \subseteq Stored'
  BY <1>1 DEF PublishedOnce, Stored, EntriesOf
<1>9. ASSUME NEW e \in m0.left \cap live PROVE Twice(m.batch)'
  <2>1. PICK a \in accepted : e \in a.entries
    BY <1>9 DEF PublishedOnce, Stored, EntriesOf
  <2>2. Core(a) \in Travelling /\ Core(a).entries = a.entries
    BY DEF Travelling, Core
  <2>3. SameBatch(Core(a), m.batch)
    BY <1>2, <1>4, <1>9, <2>1, <2>2 DEF Ledger, OneBatchEach, Travelling
  <2>4. SameBatch(a, m.batch)  BY <2>3 DEF SameBatch, Core
  <2>. QED  BY <1>5, <2>4
<1>10. ASSUME NEW n \in Publishing, SameBatch(n.batch, m.batch) PROVE Twice(m.batch)'
  <2>1. PICK a \in accepted : SameBatch(a, n.batch)
    BY DEF Ledger, Remembered, Publishing
  <2>2. SameBatch(a, m.batch)  BY <1>10, <2>1 DEF SameBatch
  <2>. QED  BY <1>5, <2>2
<1>11. ASSUME NEW n \in Publishing'
       PROVE  n.left \subseteq n.batch.entries /\ (n.left \cap live' # {} => Twice(n.batch)')
  <2>1. CASE n \in Publishing
    BY <1>1, <1>6, <2>1 DEF PublishedOnce
  <2>2. CASE n = m0
    BY <1>1, <1>2, <1>9, <2>2
  <2>. QED  BY <1>7, <1>11, <2>1, <2>2
<1>12. ASSUME NEW n \in Publishing', NEW k \in Publishing', n # k, SameBatch(n.batch, k.batch)
       PROVE  Twice(n.batch)'
  <2>1. CASE n \in Publishing /\ k \in Publishing
    BY <1>6, <1>12, <2>1 DEF PublishedOnce
  <2>2. CASE n = m0 /\ k \in Publishing
    <3>1. SameBatch(k.batch, m.batch)  BY <1>2, <1>12, <2>2 DEF SameBatch
    <3>. QED  BY <1>2, <1>10, <2>2, <3>1
  <2>3. CASE n \in Publishing /\ k = m0
    <3>1. Twice(m.batch)'  BY <1>2, <1>10, <1>12, <2>3
    <3>2. \A a : SameBatch(a, m.batch) => SameBatch(a, n.batch)
      BY <1>2, <1>12, <2>3 DEF SameBatch
    <3>. QED  BY <3>1, <3>2 DEF Twice, SameBatch
  <2>. QED  BY <1>7, <1>12, <2>1, <2>2, <2>3
<1>. QED  BY <1>8, <1>11, <1>12 DEF PublishedOnce, Twice, SameBatch, Publishing

LEMMA PublishEntryHeard ==
  ASSUME Ledger, PublishedOnce, NEW m \in req, PublishEntry(m) PROVE PublishedOnce'
<1>1. PICK e \in m.left : live' = live \cup {e} /\ Become(m, "publishing", m.left \ {e})
  BY DEF PublishEntry
<1> DEFINE m0 == [m EXCEPT !.stage = "publishing", !.left = m.left \ {e}]
<1>2. m0.batch = m.batch /\ m0.left = m.left \ {e}
  BY DEF Ledger, TypeOK, Request
<1>3. req' = (req \ {m}) \cup {m0} /\ accepted' = accepted /\ m \in Publishing
  BY <1>1 DEF Become, PublishEntry, Publishing
<1>. HIDE DEF m0
<1>4. e \in m.batch.entries /\ m.batch \in Travelling
  BY <1>3 DEF PublishedOnce, Travelling, AllBatches
<1>5. live' \subseteq Stored'
  <2>1. PICK a \in accepted : SameBatch(a, m.batch)
    BY <1>3 DEF Ledger, Remembered, Publishing
  <2>2. e \in Stored
    BY <1>4, <2>1, StoredHas DEF Ledger, AllBatches
  <2>. QED  BY <1>1, <1>3, <2>2 DEF PublishedOnce, Stored
<1>6. \A b : Twice(b)' <=> Twice(b)
  BY <1>3 DEF Twice, SameBatch
<1>7. Publishing' \subseteq (Publishing \ {m}) \cup {m0}
  BY <1>3 DEF Publishing
\* Another loop that is still to publish e has the same batch.
<1>8. ASSUME NEW n \in Publishing \ {m}, e \in n.left PROVE Twice(n.batch)
  <2>1. n.batch \in Travelling /\ e \in n.batch.entries
    BY <1>8 DEF PublishedOnce, Travelling, AllBatches, Publishing
  <2>2. SameBatch(n.batch, m.batch)
    BY <1>4, <2>1 DEF Ledger, OneBatchEach
  <2>. QED  BY <1>3, <2>2 DEF PublishedOnce
<1>9. ASSUME NEW n \in Publishing'
      PROVE  n.left \subseteq n.batch.entries /\ (n.left \cap live' # {} => Twice(n.batch))
  <2>1. CASE n \in Publishing \ {m}
    BY <1>1, <1>8, <2>1 DEF PublishedOnce
  <2>2. CASE n = m0
    BY <1>1, <1>2, <1>3, <2>2 DEF PublishedOnce
  <2>. QED  BY <1>7, <1>9, <2>1, <2>2
<1>10. ASSUME NEW n \in Publishing', NEW k \in Publishing', n # k, SameBatch(n.batch, k.batch)
       PROVE  Twice(n.batch)
  <2>1. CASE n \in Publishing \ {m} /\ k \in Publishing \ {m}
    BY <1>10, <2>1 DEF PublishedOnce
  <2>2. CASE n = m0 /\ k \in Publishing \ {m}
    BY <1>2, <1>3, <1>10, <2>2 DEF PublishedOnce
  <2>3. CASE n \in Publishing \ {m} /\ k = m0
    BY <1>2, <1>3, <1>10, <2>3 DEF PublishedOnce
  <2>. QED  BY <1>7, <1>10, <2>1, <2>2, <2>3
<1>. QED  BY <1>5, <1>6, <1>9, <1>10 DEF PublishedOnce, Twice, SameBatch, Publishing

LEMMA PublishedOnceHolds == Spec => []PublishedOnce
<1>1. Init => PublishedOnce  BY DEF Init, PublishedOnce, Publishing
<1>2. Ledger /\ WindowOpen /\ PublishedOnce /\ [Next]_vars => PublishedOnce'
  <2> SUFFICES ASSUME Ledger, WindowOpen, PublishedOnce, [Next]_vars PROVE PublishedOnce'
    OBVIOUS
  <2>1. CASE Publishing' \subseteq Publishing /\ live' = live
    <3>1. \A b : Twice(b) => Twice(b)'  BY AcceptedGrows DEF Twice, SameBatch
    <3>2. live' \subseteq Stored'
      BY <2>1, AcceptedGrows DEF PublishedOnce, Stored, EntriesOf
    <3>3. \A m \in Publishing' :
             m.left \subseteq m.batch.entries /\ (m.left \cap live' # {} => Twice(m.batch)')
      BY <2>1, <3>1 DEF PublishedOnce
    <3>4. \A m, n \in Publishing' : m # n /\ SameBatch(m.batch, n.batch) => Twice(m.batch)'
      BY <2>1, <3>1 DEF PublishedOnce
    <3>. QED  BY <3>2, <3>3, <3>4 DEF PublishedOnce, Twice, SameBatch, Publishing
  <2>. QED  BY <2>1, PublishingSteps, IngestNewHeard, PublishEntryHeard
<1>. QED  BY <1>1, <1>2, LedgerHolds, WindowStaysOpen, PTL DEF Spec

\* A live tail or an alert rule sees an entry again only when the Hub accepted
\* its batch again; retries and late requests alone publish nothing (Ingest).
THEOREM LiveEventsAreNew == Spec => NoDuplicateLiveEvents
<1> DEFINE Fresh == \A m \in req : \A e \in m.left :
             JustPublished(m, e) /\ e \in live =>
               \E a, b \in accepted : a.at # b.at /\ SameBatch(a, m.batch) /\ SameBatch(b, m.batch)
<1>1. PublishedOnce /\ [Next]_vars => [Fresh]_vars
  BY DEF PublishedOnce, JustPublished, Publishing, Twice
<1>2. Spec => [][Fresh]_vars
  BY <1>1, PublishedOnceHolds, PTL DEF Spec
<1>. QED  BY <1>2 DEF NoDuplicateLiveEvents

-----------------------------------------------------------------------------
(***************************************************************************)
(* The refinement: while no window expires the pipeline keeps the promise  *)
(* of ExactlyOnce.                                                         *)
(***************************************************************************)
Deliveries == UNION {{[entry |-> e, at |-> a.at] : e \in a.entries} : a \in accepted}
Visible    == {row.entry : row \in rows}

\* The bounds under which the Agent collects, and that it counts from one.
Bounded ==
  /\ clock <= MaxClock
  /\ boot <= MaxBoots
  /\ Running => boot >= 1
  /\ IsFiniteSet(Accounted)
  /\ nextEntry <= Cardinality(Accounted)

LEMMA ClockAndBoots ==
  ASSUME TypeOK, Bounded, [Next]_vars
  PROVE  clock' <= MaxClock /\ boot' <= MaxBoots /\ (Running' => boot' >= 1)
<1>0. clock \in Nat /\ boot \in Nat /\ MaxClock \in Nat /\ MaxBoots \in Nat
  BY DeliveryAssumption DEF TypeOK
<1>1. CASE Start
  BY <1>0, <1>1 DEF Start, Bounded
<1>2. CASE Collect \/ CollectOverflow \/ CollectOverflowFails \/ Discover \/ FlushTick
           \/ StopWithFlush \/ StopOnClosed
  <2>1. UNCHANGED <<clock, boot>> /\ pc = "select"
    BY <1>2 DEF Collect, CollectOverflow, CollectOverflowFails, Discover, FlushTick,
                StopWithFlush, FlushQueue, StopOnClosed
  <2>. QED  BY <2>1 DEF Bounded, Running
<1>3. CASE SendNext \/ FlushDone \/ SendFails \/ ReplayFails \/ Crash \/ \E m \in req : SendSucceeds(m)
  <2>1. UNCHANGED <<clock, boot>> /\ Running
    BY <1>3 DEF SendNext, FlushDone, SendFails, ReplayFails, SendSucceeds, GiveUp, Crash, Running
  <2>. QED  BY <2>1 DEF Bounded, Running
<1>4. CASE HubNext \/ UNCHANGED vars
  <2>1. UNCHANGED <<clock, boot, pc>>
    BY <1>4 DEF HubNext, IngestNew, IngestDuplicate, PublishEntry, Answer, Lose, HubRestart,
                Retain, vars, agentVars
  <2>. QED  BY <2>1 DEF Bounded, Running
<1>5. CASE Tick
  <2>1. clock < MaxClock /\ clock' = clock + 1 /\ UNCHANGED <<boot, pc>>
    BY <1>5 DEF Tick, agentVars
  <2>2. clock' <= MaxClock  BY <1>0, <2>1
  <2>. QED  BY <2>1, <2>2 DEF Bounded, Running
<1>. QED  BY <1>1, <1>2, <1>3, <1>4, <1>5 DEF Next, AgentNext

LEMMA BoundedStep == Ledger /\ Bounded /\ [Next]_vars => Bounded'
<1> SUFFICES ASSUME Ledger, Bounded, [Next]_vars PROVE Bounded'
  OBVIOUS
<1>0. nextEntry \in Nat  BY DEF Ledger, TypeOK
<1>1. clock' <= MaxClock /\ boot' <= MaxBoots /\ (Running' => boot' >= 1)
  BY ClockAndBoots DEF Ledger
<1>2. IsFiniteSet(Accounted') /\ nextEntry' <= Cardinality(Accounted')
  <2>0. Cardinality(Accounted) \in Nat  BY FS_CardinalityType DEF Bounded
  <2>1. CASE Steady  BY <2>1 DEF Steady, Bounded
  <2>2. CASE Restarted  BY <2>0, <2>2 DEF Restarted, Bounded
  <2>3. CASE Collected
    <3>1. NewEntry \notin Accounted  BY NewEntryIsNew DEF Ledger
    <3>2. /\ IsFiniteSet(Accounted \cup {NewEntry})
          /\ Cardinality(Accounted \cup {NewEntry}) = Cardinality(Accounted) + 1
      BY <3>1, FS_AddElement DEF Bounded
    <3>3. nextEntry <= Cardinality(Accounted)  BY DEF Bounded
    <3>. QED  BY <1>0, <2>0, <2>3, <3>2, <3>3 DEF Collected
  <2>. QED  BY <2>1, <2>2, <2>3, AccountedStep DEF Ledger
<1>. QED  BY <1>1, <1>2 DEF Bounded, Running

LEMMA BoundedHolds == Spec => []Bounded
<1>1. Init => Bounded
  <2> SUFFICES ASSUME Init PROVE Bounded
    OBVIOUS
  <2>1. Accounted = {}
    BY DEF Init, StoreInit, Accounted, Held, Stored, EntriesOf, Batches
  <2>2. IsFiniteSet(Accounted) /\ Cardinality(Accounted) = 0
    BY <2>1, FS_EmptySet
  <2>3. MaxClock \in Nat /\ MaxBoots \in Nat  BY DeliveryAssumption
  <2>. QED  BY <2>2, <2>3 DEF Init, Bounded, Running
<1>. QED  BY <1>1, BoundedStep, LedgerHolds, PTL DEF Spec

\* Collecting an entry is the promise's Collect.
LEMMA CollectImplements ==
  ASSUME Ledger, Bounded, Collected PROVE Promise!Collect
<1>0. /\ boot \in Nat /\ nextEntry \in Nat /\ clock \in Nat
      /\ MaxBoots \in Nat /\ MaxEntries \in Nat /\ MaxClock \in Nat
  BY DeliveryAssumption DEF Ledger, TypeOK
<1>1. boot \in 1 .. MaxBoots /\ clock \in 0 .. MaxClock
  BY <1>0 DEF Collected, Bounded, Running
<1>2. nextEntry + 1 \in 1 .. MaxEntries
  <2>1. Cardinality(Accounted) \in Nat  BY FS_CardinalityType DEF Bounded
  <2>. QED  BY <1>0, <2>1 DEF Collected, Bounded
<1>3. NewEntry \in [boot : 1 .. MaxBoots, n : 1 .. MaxEntries, ts : 0 .. MaxClock]
  BY <1>1, <1>2 DEF NewEntry
<1>4. NewEntry \notin Accounted  BY NewEntryIsNew DEF Ledger
<1>. QED  BY <1>3, <1>4 DEF Collected, Promise!Collect

\* WriteBatch of a batch seen for the first time is the promise's Deliver: no
\* entry of it was delivered, or the receipt of that batch would still be there.
LEMMA IngestImplements ==
  ASSUME MaxClock <= DedupRetention, Ledger, WindowOpen, Bounded, NEW m \in req, IngestNew(m)
  PROVE  Promise!Deliver
<1> DEFINE S == m.batch.entries
           D == {[entry |-> e, at |-> clock] : e \in S}
           a0 == [boot |-> m.batch.boot, seq |-> m.batch.seq, entries |-> S, at |-> clock]
<1>1. Accounted' = Accounted
  BY IngestKeeps DEF Ledger, Steady
<1>2. S \subseteq Accounted  BY DEF Ledger, Carried
<1>3. ASSUME NEW a \in accepted, NEW e \in a.entries PROVE e \notin S
  <2>1. SUFFICES ASSUME e \in S PROVE FALSE
    OBVIOUS
  <2>2. Core(a) \in Travelling /\ m.batch \in Travelling /\ Core(a).entries = a.entries
    BY DEF Travelling, AllBatches, Core
  <2>3. SameBatch(Core(a), m.batch)
    BY <1>3, <2>1, <2>2 DEF Ledger, OneBatchEach
  <2>4. clock - a.at <= DedupRetention
    BY RetentionAssumption, DeliveryAssumption DEF Bounded, Ledger, TypeOK, Accepted
  <2>5. PICK r \in receipts : SameBatch(r, a)  BY <2>4 DEF WindowOpen
  <2>6. SameBatch(r, m.batch)  BY <2>3, <2>5 DEF SameBatch, Core
  <2>. QED  BY <2>6 DEF IngestNew, Accept, Known
<1>4. S \cap Promise!Delivered = {}
  BY <1>3 DEF Promise!Delivered
<1>5. Visible' = Visible \cup S
  <2>1. rows' = rows \cup NewRows(m.batch)  BY DEF IngestNew, Accept
  <2>2. \A row \in NewRows(m.batch) : row.entry \in S  BY DEF NewRows
  <2>3. ASSUME NEW e \in S \ Visible PROVE \E row \in NewRows(m.batch) : row.entry = e
    <3> DEFINE row == [entry |-> e, boot |-> m.batch.boot, seq |-> m.batch.seq]
    <3>1. row \in NewRows(m.batch)  BY DEF NewRows, Visible
    <3>. QED  BY <3>1
  <2>. QED  BY <2>1, <2>2, <2>3 DEF Visible
<1>6. Deliveries' = Deliveries \cup D
  <2>1. accepted' = accepted \cup {a0} /\ a0.entries = S /\ a0.at = clock
    BY DEF IngestNew
  <2>. HIDE DEF a0
  <2>. QED  BY <2>1 DEF Deliveries
<1>7. clock \in 0 .. MaxClock
  BY DeliveryAssumption DEF Bounded, Ledger, TypeOK
<1>8. S \in SUBSET (Accounted \ Promise!Delivered)  BY <1>2, <1>4
<1>. QED  BY <1>1, <1>5, <1>6, <1>7, <1>8 DEF Promise!Deliver, Deliveries, Visible

LEMMA PromiseStep ==
  ASSUME MaxClock <= DedupRetention
  PROVE  Ledger /\ WindowOpen /\ Bounded /\ [Next]_vars => [Promise!Next]_Promise!promiseVars
<1> SUFFICES ASSUME Ledger, WindowOpen, Bounded, [Next]_vars
             PROVE  [Promise!Next]_Promise!promiseVars
  OBVIOUS
<1>1. CASE \E m \in req : IngestNew(m)
  BY <1>1, IngestImplements DEF Promise!Next
<1>2. CASE Collected
  BY <1>2, CollectImplements DEF Promise!Next
<1>3. CASE Retain
  <2>1. Accounted' = Accounted
    BY <1>3 DEF Retain, agentVars, Accounted, Held, Stored
  <2>2. rows' \subseteq rows  BY <1>3, RetainedIsSubset DEF Retain, Cleanup
  <2>3. Promise!Expire
    BY <1>3, <2>1, <2>2 DEF Retain, Promise!Expire
  <2>. QED  BY <2>3 DEF Promise!Next
<1>4. CASE ~ Collected /\ ~ Retain /\ ~ \E m \in req : IngestNew(m)
  <2>1. Accounted' = Accounted
    BY <1>4, AccountedStep DEF Ledger, Steady, Restarted
  <2>2. UNCHANGED <<rows, accepted>>
    BY <1>4, StoreSteps DEF Tick, hubVars
  <2>. QED  BY <2>1, <2>2 DEF Promise!promiseVars
<1>. QED  BY <1>1, <1>2, <1>3, <1>4

\* Within the replay window the Hub stores every entry at most once, though the
\* Agent retries, replays its spool and restarts; what retention removed stays
\* removed (README, duplicate suppression).
THEOREM PipelineKeepsPromise ==
  ASSUME MaxClock <= DedupRetention
  PROVE  Spec => ExactlyOnceDelivery
<1>1. Init => Promise!Init
  BY DEF Init, StoreInit, Promise!Init, Accounted, Held, Stored, EntriesOf, Batches
<1>2. Ledger /\ WindowOpen /\ Bounded /\ [Next]_vars => [Promise!Next]_Promise!promiseVars
  BY PromiseStep
<1>. QED
  BY <1>1, <1>2, LedgerHolds, WindowStaysOpen, BoundedHolds, PTL
  DEF Spec, ExactlyOnceDelivery, Promise!Spec
=============================================================================
