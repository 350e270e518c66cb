--------------------------- MODULE BayesianFlowMC ---------------------------
(* Instances of BayesianFlow.                                              *)
EXTENDS BayesianFlow
CONSTANTS a, b, c, d

ABCD == {a, b, c, d}
(* a and b depend on each other, d is three steps from a. *)
Graph == [v \in ABCD |-> CASE v = a -> {b} [] v = b -> {a, c} [] v = c -> {d} [] v = d -> {}]
OnlyA == {a}
NoVersion == {}
=============================================================================
