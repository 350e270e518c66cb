----------------------------- MODULE JobPromise -----------------------------
(***************************************************************************)
(* What a pool promises to the caller that gives it jobs and joins it:     *)
(* each job it was given is run once, and the pool is only left when none  *)
(* is owed.  It may never be left.                                         *)
(***************************************************************************)
CONSTANT Jobs
VARIABLES job,      (* a job is "new", "owed" or "run"                      *)
          returned  (* the caller is back from join                         *)

Init == job = [j \in Jobs |-> "new"] /\ returned = FALSE

Move(j, from, to) == job[j] = from /\ job' = [job EXCEPT ![j] = to] /\ UNCHANGED returned

Give(j) == ~returned /\ Move(j, "new", "owed")
Run(j)  == Move(j, "owed", "run")
Leave   == /\ ~returned /\ \A j \in Jobs : job[j] # "owed"
           /\ returned' = TRUE /\ UNCHANGED job

Next == Leave \/ \E j \in Jobs : Give(j) \/ Run(j)
Spec == Init /\ [][Next]_<<job, returned>>
=============================================================================
