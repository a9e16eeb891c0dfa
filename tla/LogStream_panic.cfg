SPECIFICATION Spec
CHECK_DEADLOCK FALSE
CONSTANTS
  Containers = {c1}
  Owners = {o1}
  MaxOpen = 1
  Copies = 1
  MaxSeen = 1
  PerSecond = 1
  MaxLines = 1
SYMMETRY Symmetry
INVARIANT NeverSendsOnClosed
