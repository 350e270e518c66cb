------------------------------ MODULE Positions ------------------------------
(***************************************************************************)
(* Python's list comprehensions with a condition, and the first and last   *)
(* of a set of positions.                                                  *)
(***************************************************************************)
EXTENDS Naturals, Sequences, FiniteSets

FirstOf(S) == CHOOSE i \in S : \A j \in S : i <= j
LastOf(S)  == CHOOSE i \in S : \A j \in S : j <= i

(* The k-th of a set of positions.                                         *)
Nth(T, k) == CHOOSE i \in T : Cardinality({j \in T : j <= i}) = k

(* [s[i] for i in T]: the elements of s at the positions T, in their order.*)
Picked(s, T) == [k \in 1..Cardinality(T) |-> s[Nth(T, k)]]
=============================================================================
