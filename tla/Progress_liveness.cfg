SPECIFICATION ProgressSpec
CHECK_DEADLOCK FALSE
CONSTANTS
  r = r
  a = a
  t = t
  c1 = c1
  c2 = c2
  c3 = c3
  x1 = x1
  x2 = x2
  x3 = x3
  x4 = x4
  p1 = p1
  p2 = p2
  e1 = e1
  e2 = e2
  h = h
  v = v
  k = k
  n1 = n1
  q1 = q1
  q2 = q2
  NoRule = NoRule
  NoKey = NoKey
  PartOfKey = PartOfKey
  None = None
PROPERTY IncidentsEnd
PROPERTY StartsComeUp
PROPERTY TailsServed
PROPERTY PagesSettle
