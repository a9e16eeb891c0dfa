SPECIFICATION FairSpec
CONSTANTS
  SpoolMaxSize = 0
  SpoolMaxAge = 1
  LogRetention = 0
  MaxStorage = 0
  DedupRetention = 1
  Slots = {r1}
  MaxBatchEntries = 2
  QueueCapacity = 2
  DiskFaults = FALSE
  MaxBoots = 2
  MaxEntries = 2
  MaxDiscovered = 0
  MaxClock = 1
PROPERTIES EventuallyDelivered
