SPECIFICATION Spec
CONSTANTS
  SpoolMaxSize = 1
  SpoolMaxAge = 1
  LogRetention = 1
  MaxStorage = 1
  DedupRetention = 1
  Slots = {r1, r2}
  MaxBatchEntries = 2
  QueueCapacity = 1
  DiskFaults = TRUE
  MaxBoots = 2
  MaxEntries = 2
  MaxDiscovered = 1
  MaxClock = 1
SYMMETRY Symmetry
INVARIANTS SequenceIdentifiesBatch
PROPERTIES NothingVanishes ExactlyOnceDelivery
