SPECIFICATION SessionSpec
CHECK_DEADLOCK FALSE
CONSTANTS
  q1 = q1
  q2 = q2
  None = None
  Searches = {q1, q2}
  Start = q1
  Ascending = {q2}
  Matching <- MCMatching
  MaxEntries = 3
  PageSize = 1
  EntryLimit = 3
  Resolutions = {24, 25}
  Gestures = {"run", "type", "more", "live", "filter", "history", "boot", "detail", "display", "field", "range", "form", "library", "custom", "cancel", "refresh", "resize"}
INVARIANT ShownIsAsked
INVARIANT ListsSound
INVARIANT TailOnlyWhenLive
INVARIANT PageFollowsSearch
INVARIANT DrawerShowsSelected
