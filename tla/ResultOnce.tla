----------------------------- MODULE ResultOnce -----------------------------
(***************************************************************************)
(* What the result store promises about a task, whatever the broker does:  *)
(* a task id gets at most one row in worker_results, the row never changes *)
(* once written, a task is reported SUCCESS only when its row exists, and  *)
(* an init task never leaves a row that tracks an error.                   *)
(***************************************************************************)
CONSTANTS Tasks,      (* celery task ids, the worker_id column              *)
          InitTasks   (* ids of InitAnalysisFlow and InitPackageFlow tasks  *)

VARIABLES row,        (* the worker_results row of a task, by what wrote it *)
          verdict     (* the task state in the celery result backend        *)

vars == <<row, verdict>>

StoredResults == {"result", "result_error"}
Rows          == StoredResults \cup {"none", "error"}
Verdicts      == {"PENDING", "SUCCESS", "FAILURE"}

Init == /\ row = [t \in Tasks |-> "none"]
        /\ verdict = [t \in Tasks |-> "PENDING"]

(* A row is written once, and only for an ordinary task may it be an error. *)
Record(t) ==
    /\ row[t] = "none"
    /\ \E r \in StoredResults \cup (IF t \in InitTasks THEN {} ELSE {"error"}) :
            row' = [row EXCEPT ![t] = r]
    /\ UNCHANGED verdict

Succeed(t) == /\ row[t] # "none"
              /\ verdict' = [verdict EXCEPT ![t] = "SUCCESS"]
              /\ UNCHANGED row

Fail(t) == /\ verdict' = [verdict EXCEPT ![t] = "FAILURE"]
           /\ UNCHANGED row

Next == \E t \in Tasks : Record(t) \/ Succeed(t) \/ Fail(t)

Spec == Init /\ [][Next]_vars
=============================================================================
