---------------------------- MODULE ResultSyncMC ----------------------------
(* Instances of ResultSync: two analyses of a package version, two tasks.  *)
EXTENDS ResultSync, TLC
CONSTANTS a1, a2, t1, t2, c1, c2

MCAnalyses   == {a1, a2}
MCTasks      == {t1, t2}
MCCollectors == {c1, c2}
Symmetry     == Permutations(MCAnalyses) \cup Permutations(MCTasks) \cup Permutations(MCCollectors)
=============================================================================
