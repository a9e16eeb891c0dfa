SPECIFICATION LiveSpec
CHECK_DEADLOCK FALSE
CONSTANTS
  Containers = {c1}
  Owners = {o1}
  MaxOpen = 1
  Copies = 1
  MaxSeen = 2
  PerSecond = 2
  MaxLines = 3
INVARIANT NoLineTwice
PROPERTY WatchesSettle
