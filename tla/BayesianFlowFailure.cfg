SPECIFICATION Spec
CONSTANTS
  a = a
  b = b
  c = c
  d = d
  Versions <- ABCD
  Dependencies <- Graph
  Denormalized <- NoVersion
  Root = a
  Limit = 1
  Forced = FALSE
  SyncS3 = TRUE
  MaxFlows = 4
  MaxFailures = 1
INVARIANTS FailurePropagates
CHECK_DEADLOCK FALSE
