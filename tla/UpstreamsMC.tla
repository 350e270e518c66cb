----------------------------- MODULE UpstreamsMC -----------------------------
(* Instances of Upstreams: one flow, or two that may overlap.               *)
EXTENDS Upstreams, TLC
CONSTANTS f1, f2, i1, i2, i3, a, b

OneFlow  == {f1}
TwoFlows == {f1, f2}
ThreeIds == {i1, i2, i3}
TwoUrls  == {a, b}
Symmetry == Permutations(ThreeIds) \cup Permutations(TwoUrls)
SymmetryTwo == Symmetry \cup Permutations(TwoFlows)
=============================================================================
