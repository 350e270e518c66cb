SPECIFICATION FairSpec
CONSTANTS
  a = a
  b = b
  c = c
  d = d
  Versions <- ABCD
  Dependencies <- Graph
  Denormalized <- OnlyA
  Root = a
  Limit = 2
  Forced = FALSE
  SyncS3 = TRUE
  MaxFlows = 4
  MaxFailures = 1
INVARIANTS CollectAfterTasks DependenciesCovered
PROPERTIES KeepsPromises EveryFlowEnds
CHECK_DEADLOCK FALSE
