SPECIFICATION TurnsSpec
CHECK_DEADLOCK FALSE
CONSTANTS
  Containers = {c1}
  Owners = {o1, o2}
  MaxOpen = 2
  Copies = 2
  MaxSeen = 1
  PerSecond = 1
  MaxLines = 0
SYMMETRY Symmetry
INVARIANT TypeOK
INVARIANT ServedInTurn
INVARIANT WatchesAgree
INVARIANT MapSendsToOpenChannels
