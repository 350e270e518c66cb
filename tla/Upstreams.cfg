SPECIFICATION Spec
CONSTANTS
  f1 = f1
  f2 = f2
  i1 = i1
  i2 = i2
  i3 = i3
  a = a
  b = b
  InvalidUrl = InvalidUrl
  NoUrl = NoUrl
  Empty = Empty
  None = None
  Flows <- TwoFlows
  Ids <- ThreeIds
  Urls <- TwoUrls
  Interval = 2
  MaxClock = 3
  MaxRuns = 4
SYMMETRY SymmetryTwo
INVARIANTS UpstreamsUnique ActiveBoundedByFlows
PROPERTIES RecentIsSkipped ScheduledUrlWins
CHECK_DEADLOCK FALSE
