SPECIFICATION Spec
CONSTANTS
  SpoolMaxSize = 1
  SpoolMaxAge = 0
  LogRetention = 1
  MaxStorage = 1
  DedupRetention = 1
  Slots = {r1, r2}
  MaxBatchEntries = 1
  QueueCapacity = 2
  DiskFaults = FALSE
  MaxBoots = 2
  MaxEntries = 3
  MaxDiscovered = 0
  MaxClock = 1
SYMMETRY Symmetry
PROPERTIES SpoolDropsOldest
