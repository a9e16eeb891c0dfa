----------------------------- MODULE AgentSpool -----------------------------
(***************************************************************************)
(* The on-disk spool of the Agent (internal/agent/spool.go): one file per  *)
(* undelivered batch, named after the batch's sequence and boot, written   *)
(* through a temporary file and a rename.  A spool is a set of items       *)
(* [batch, mtime]; every file weighs 1, so SpoolMaxSize counts files.      *)
(***************************************************************************)
EXTENDS Integers, FiniteSets

CONSTANTS
  SpoolMaxSize,   \* CAROLINE_AGENT_SPOOL_MAX_SIZE, in batches; 0 = no limit
  SpoolMaxAge     \* CAROLINE_AGENT_SPOOL_MAX_AGE, in clock units; 0 = no limit

ASSUME SpoolLimitsAssumption == SpoolMaxSize \in Nat /\ SpoolMaxAge \in Nat

\* A log entry is named by its InsertID agent/boot/counter; ts is its time.
Entry == [boot : Nat, n : Nat, ts : Nat]
Batch == [boot : Nat, seq : Nat, entries : SUBSET Entry]
Item  == [batch : Batch, mtime : Nat]

\* Two copies of the same batch: the key of the file and of the Hub's receipt.
SameBatch(b, c) == b.boot = c.boot /\ b.seq = c.seq

EntriesOf(batches) == UNION {b.entries : b \in batches}
Batches(spool)     == {i.batch : i \in spool}

\* itemsLocked sorts by sequence, then by path.  The path ends in the boot's
\* random name, so boots are ordered arbitrarily; here as they are numbered.
Before(i, j) ==
  \/ i.batch.seq < j.batch.seq
  \/ i.batch.seq = j.batch.seq /\ i.batch.boot < j.batch.boot

IsFirst(i, spool) == i \in spool /\ \A j \in spool \ {i} : Before(i, j)

\* pruneLocked, its first loop: files older than maxAge go.
Unexpired(spool, now) ==
  {i \in spool : SpoolMaxAge = 0 \/ now - i.mtime <= SpoolMaxAge}

\* pruneLocked, its second loop: items go in itemsLocked's order until the
\* rest fits maxSize, so what stays is what has fewer than maxSize successors.
Fitting(spool) ==
  IF SpoolMaxSize = 0 THEN spool
  ELSE {i \in spool : Cardinality({j \in spool : Before(i, j)}) < SpoolMaxSize}

Pruned(spool, now) == Fitting(Unexpired(spool, now))

\* Write: rename the file into place, then prune.
Written(spool, item, now) == Pruned(spool \cup {item}, now)

\* Write returning an error: nothing was renamed, or the prune that follows
\* the rename stopped part of the way.
FailedWrites(spool, item, now) ==
  {spool} \cup {s \in SUBSET (spool \cup {item}) : Written(spool, item, now) \subseteq s}
=============================================================================
