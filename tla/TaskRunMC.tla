------------------------------ MODULE TaskRunMC ------------------------------
(* An instance of TaskRun: one ordinary and one init task, two workers.     *)
EXTENDS TaskRun, TLC
CONSTANTS t1, t2, w1, w2

MCTasks     == {t1, t2}
MCInitTasks == {t2}
MCWorkers   == {w1, w2}
Symmetry    == Permutations(MCWorkers)
=============================================================================
