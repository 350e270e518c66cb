SPECIFICATION FairSpec
CONSTANTS
  t1 = t1
  t2 = t2
  w1 = w1
  w2 = w2
  NoTask = NoTask
  Tasks <- MCTasks
  InitTasks <- MCInitTasks
  Workers <- MCWorkers
  MaxRedeliveries = 1
  MaxCrashes = 1
INVARIANTS ReexecutionHasCause ResultNotLost
PROPERTIES ImplementsResultOnce EveryTaskReported
CHECK_DEADLOCK FALSE
