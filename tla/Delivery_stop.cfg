SPECIFICATION Spec
CONSTANTS
  SpoolMaxSize = 0
  SpoolMaxAge = 1
  LogRetention = 1
  MaxStorage = 1
  DedupRetention = 1
  Slots = {r1, r2}
  MaxBatchEntries = 2
  QueueCapacity = 2
  DiskFaults = FALSE
  MaxBoots = 2
  MaxEntries = 2
  MaxDiscovered = 0
  MaxClock = 0
SYMMETRY Symmetry
PROPERTIES StopKeepsQueue
