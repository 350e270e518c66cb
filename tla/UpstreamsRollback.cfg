SPECIFICATION Spec
CONSTANTS
  f1 = f1
  f2 = f2
  i1 = i1
  i2 = i2
  i3 = i3
  a = a
  b = b
  InvalidUrl = InvalidUrl
  NoUrl = NoUrl
  Empty = Empty
  None = None
  Flows <- OneFlow
  Ids <- ThreeIds
  Urls <- TwoUrls
  Interval = 2
  MaxClock = 4
  MaxRuns = 5
SYMMETRY Symmetry
INVARIANTS SkipDiscardsChanges
CHECK_DEADLOCK FALSE
