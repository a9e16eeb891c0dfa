SPECIFICATION Spec
CONSTANTS
  SpoolMaxSize = 0
  SpoolMaxAge = 1
  LogRetention = 0
  MaxStorage = 1
  DedupRetention = 1
  Slots = {r1, r2}
  MaxBatchEntries = 2
  QueueCapacity = 2
  DiskFaults = FALSE
  MaxBoots = 2
  MaxEntries = 2
  MaxDiscovered = 0
  MaxClock = 2
SYMMETRY Symmetry
INVARIANTS TypeOK RowsProtected
PROPERTIES ReacceptOnlyAfterExpiry NoDuplicateLiveEvents
