SPECIFICATION Spec
CONSTANTS
  f1 = f1
  f2 = f2
  f3 = f3
  n1 = n1
  n2 = n2
  None = None
  Flows <- ThreeFlows
  Names <- TwoNames
  Maven = TRUE
  MaxRenames = 1
SYMMETRY Symmetry
INVARIANTS ArtifactsAreThere OneUnforcedAnalysis
PROPERTIES KeepsInitPromise
CHECK_DEADLOCK FALSE
