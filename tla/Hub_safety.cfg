SPECIFICATION HubSpec
CHECK_DEADLOCK FALSE
CONSTANTS
  r1 = r1
  r2 = r2
  a1 = a1
  a2 = a2
  t1 = t1
  t2 = t2
  e1 = e1
  e2 = e2
  h1 = h1
  h2 = h2
  v1 = v1
  k1 = k1
  k2 = k2
  Rules = {r1, r2}
  Specs <- OnceOrTwice
  NoRule = NoRule
  MaxAge = 3
  Bounds <- Faulty
  Agents = {a1, a2}
  Tokens = {t1, t2}
  Given <- Shared
  Setup <- Mixed
  Calls = {c1, c2}
  MaxFaults = 3
  None = None
  Procs = {p1, p2}
  Keys = {x1, x2, x3, x4}
  MaxKills = 2
  NoKey = NoKey
  Part = Part
  Entries = {e1, e2}
  Hosts = {h1, h2}
  AgentOf <- HostOf
  Viewers = {v1}
  Conns = {k1, k2}
  Buffer = 1
  MaxSeen = 2
  MaxTime = 1
  MaxBreaks = 1
  Nil = Nil
  Rows = {1, 2, 3, 4, 5}
  Hits = {1, 2, 4, 5}
  Stamp <- RowTime
  Id <- RowId
  Chunk = 2
  MaxEntries = 3
  Limit = 2
  NoPlace = NoPlace
INVARIANT RulesSound
PROPERTY NotificationsMatch
INVARIANT AdmissionSound
PROPERTY RevokedForGood
INVARIANT KeySound
PROPERTY KeyStays
INVARIANT TailSound
PROPERTY SentOnce
INVARIANT WalkSound
