---------------------------- MODULE IngestStore -----------------------------
(***************************************************************************)
(* The Hub's log tables (internal/storage/sqlite/sqlite.go): `rows' is the *)
(* table logs, `receipts' the table ingest_batches that suppresses         *)
(* duplicate deliveries.  Every operation is one immediate transaction     *)
(* under the store's mutex.  A row weighs 1, so MaxStorage counts rows.    *)
(***************************************************************************)
EXTENDS AgentSpool

CONSTANTS
  LogRetention,     \* CAROLINE_RETENTION, in clock units; 0 = disabled
  MaxStorage,       \* CAROLINE_MAX_STORAGE_SIZE, in rows; 0 = disabled
  DedupRetention    \* CAROLINE_DEDUP_RETENTION, in clock units

ASSUME RetentionAssumption ==
  /\ LogRetention \in Nat
  /\ MaxStorage \in Nat
  /\ DedupRetention \in Nat \ {0}

VARIABLES
  receipts,   \* ingest_batches: the batches accepted and not yet forgotten
  rows        \* logs: the retained entries, each with its batch

storeVars == <<receipts, rows>>

Receipt == [boot : Nat, seq : Nat, at : Nat]
Row     == [entry : Entry, boot : Nat, seq : Nat]

StoreInit == receipts = {} /\ rows = {}

RowsOf(b) == {row \in rows : SameBatch(row, b)}
Known(b)  == \E r \in receipts : SameBatch(r, b)

\* INSERT OR IGNORE INTO logs: an insert_id that is there already is skipped.
NewRows(b) ==
  {[entry |-> e, boot |-> b.boot, seq |-> b.seq] : e \in b.entries \ {row.entry : row \in rows}}

\* Slip: the rows are written, the receipt is not.
AcceptWithoutReceipt(b, now) ==
  /\ ~ Known(b)
  /\ rows' = rows \cup NewRows(b)
  /\ UNCHANGED receipts

\* WriteBatch of a batch whose receipt is new: receipt and rows together.
Accept(b, now) ==
  /\ ~ Known(b)
  /\ receipts' = receipts \cup {[boot |-> b.boot, seq |-> b.seq, at |-> now]}
  /\ rows' = rows \cup NewRows(b)

\* WriteBatch of a batch whose receipt is there: INSERT OR IGNORE changed
\* nothing, accepted = false, and the entries are not looked at.
Ignore(b) ==
  /\ Known(b)
  /\ UNCHANGED storeVars

\* logs_timestamp_idx: timestamp, then insert_id (boot, then counter).
Older(x, y) ==
  \/ x.ts < y.ts
  \/ x.ts = y.ts /\ x.boot < y.boot
  \/ x.ts = y.ts /\ x.boot = y.boot /\ x.n < y.n

\* The age clause of Cleanup in its independent mode, then the shortest
\* oldest-first prefix that brings the rest within the size budget.
Recent(now) == {x \in rows : LogRetention = 0 \/ x.entry.ts >= now - LogRetention}
Retained(now) ==
  IF MaxStorage = 0 THEN Recent(now)
  ELSE {x \in Recent(now) : Cardinality({y \in Recent(now) : Older(x.entry, y.entry)}) < MaxStorage}

\* Slip: receipts go by age alone, retained logs or not.
CleanupByAge(now) ==
  /\ rows' = Retained(now)
  /\ receipts' = {r \in receipts : r.at >= now - DedupRetention}

\* Slip: a receipt goes one unit too early.
CleanupTooEarly(now) ==
  /\ rows' = Retained(now)
  /\ receipts' = {r \in receipts :
                    \/ r.at > now - DedupRetention
                    \/ \E row \in rows' : SameBatch(row, r)}

\* Cleanup and the cleanupAuxiliary it runs before committing: a receipt goes
\* once it is past the window and no retained row refers to its batch.
Cleanup(now) ==
  /\ rows' = Retained(now)
  /\ receipts' = {r \in receipts :
                    \/ r.at >= now - DedupRetention
                    \/ \E row \in rows' : SameBatch(row, r)}
=============================================================================
