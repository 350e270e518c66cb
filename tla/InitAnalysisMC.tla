--------------------------- MODULE InitAnalysisMC ---------------------------
(* Instances of InitAnalysis: three flows for a maven or another package.  *)
EXTENDS InitAnalysis, TLC
CONSTANTS f1, f2, f3, n1, n2

TwoFlows   == {f1, f2}
ThreeFlows == {f1, f2, f3}
TwoNames   == {n1, n2}
Symmetry   == Permutations(ThreeFlows) \cup Permutations(TwoNames)
SymmetryTwo == Permutations(TwoFlows) \cup Permutations(TwoNames)
=============================================================================
