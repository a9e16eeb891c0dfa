SPECIFICATION WebSpec
CHECK_DEADLOCK FALSE
CONSTANTS
  r1 = r1
  r2 = r2
  a = a
  n1 = n1
  n2 = n2
  t1 = t1
  t2 = t2
  q1 = q1
  q2 = q2
  p1 = p1
  p2 = p2
  None = None
  Ids = {r1, r2}
  Names = {a}
  MaxCalls = 3
  Nodes = {n1, n2}
  MaxNodeCalls = 3
  NoNode = None
  MaxHistory = 2
  MaxFrames = 2
  Rotations = 1
  ClickFocuses = TRUE
  Bars = 3
  Ranges <- MCRanges
  Pointers = {p1, p2}
  NoPointer = None
  ClickOnBar = TRUE
  MaxTimers = 1
  MaxEntry = 3
  Limit = 2
  Tabs = {t1, t2}
  Snapshots = {q1, q2}
  SavedLimit = 2
  RecentLimit = 2
  MaxId = 4
  StorageFails = TRUE
  Words <- MCWords
  Fields <- MCFields
  ValuesOf <- MCValuesOf
  Quoted <- MCQuoted
  Operators <- MCOperators
  Keywords <- MCKeywords
  Completes <- MCCompletes
  Typed <- MCTyped
  QueryTexts <- MCTexts
  MaxLength = 3
INVARIANT PagesAgree
INVARIANT NodesInStep
INVARIANT OverlaysAgree
INVARIANT ChartAgrees
INVARIANT LibraryAgrees
PROPERTY WebhookKept
PROPERTY DrawerGivesFocusBack
PROPERTY NothingForgotten
