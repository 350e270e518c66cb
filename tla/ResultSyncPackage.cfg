SPECIFICATION Spec
CONSTANTS
  a1 = a1
  a2 = a2
  t1 = t1
  t2 = t2
  c1 = c1
  c2 = c2
  None = None
  Analyses <- MCAnalyses
  Tasks <- MCTasks
  Collectors <- MCCollectors
  PackageLevel = TRUE
  MaxRepeats = 0
SYMMETRY Symmetry
INVARIANTS BaseListsCollected
CHECK_DEADLOCK FALSE
