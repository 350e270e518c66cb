SPECIFICATION Spec
CONSTANTS
  a1 = a1
  a2 = a2
  t1 = t1
  t2 = t2
  c1 = c1
  c2 = c2
  None = None
  Analyses <- MCAnalyses
  Tasks <- MCTasks
  Collectors <- MCCollectors
  PackageLevel = FALSE
  MaxRepeats = 2
SYMMETRY Symmetry
INVARIANTS ReferenceResolves S3HoldsResults BaseListsCollected NothingLeftBehind
CHECK_DEADLOCK FALSE
