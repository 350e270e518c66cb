SPECIFICATION Spec
CONSTANTS
  f1 = f1
  f2 = f2
  f3 = f3
  n1 = n1
  n2 = n2
  None = None
  Flows <- TwoFlows
  Names <- TwoNames
  Maven = FALSE
  MaxRenames = 1
SYMMETRY SymmetryTwo
INVARIANTS MetaNamesTarball
CHECK_DEADLOCK FALSE
