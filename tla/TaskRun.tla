------------------------------- MODULE TaskRun -------------------------------
(***************************************************************************)
(* Execution of tasks whose storage is BayesianPostgres or PackagePostgres *)
(* (f8a_worker/base.py, f8a_worker/storages/postgres_base.py).             *)
(*                                                                         *)
(* The broker delivers every message at least once: SQS may deliver a copy *)
(* again, a message that is not acknowledged within visibility_timeout is  *)
(* handed to another worker while the first one still runs, and with       *)
(* task_acks_late the message of a worker that died comes back.  A worker  *)
(* looks up the task id in worker_results, executes the task and inserts   *)
(* the result; worker_id is unique, and the IntegrityError of a second     *)
(* insert is swallowed.  Every database statement commits on its own       *)
(* (isolation_level AUTOCOMMIT), so each is one step.                      *)
(*                                                                         *)
(* Selinon and Celery are outside src/: after BaseTask.run returns Selinon *)
(* calls storage.store, after it raises storage.store_error, and Celery    *)
(* then saves the task state and acknowledges the message.                 *)
(***************************************************************************)
EXTENDS Naturals

CONSTANTS
    Tasks,            (* task ids that the dispatcher has scheduled          *)
    InitTasks,        (* those of InitAnalysisFlow and InitPackageFlow       *)
    Workers,          (* celery worker processes                             *)
    NoTask,           (* the task of an idle worker                          *)
    MaxRedeliveries,  (* bound: extra copies the broker makes of one message *)
    MaxCrashes        (* bound: worker processes that die                    *)

ASSUME TaskRunAssumption ==
    /\ InitTasks \subseteq Tasks
    /\ NoTask \notin Tasks
    /\ MaxRedeliveries \in Nat
    /\ MaxCrashes \in Nat

VARIABLES
    queue,        (* copies of the task's message visible in the queue       *)
    row,          (* the worker_results row of the task, by what wrote it    *)
    verdict,      (* the task state in the celery result backend             *)
    pc,           (* where each worker is                                    *)
    task,         (* the task whose message it holds                         *)
    out,          (* what execute returned to it                             *)
    lease,        (* the broker still hides that message from other workers  *)
    redelivered,  (* extra copies made so far                                *)
    crashes,      (* worker processes that died so far                       *)
    execs,        (* history: calls of execute per task                      *)
    overlapped,   (* history: tasks that two workers held at the same time   *)
    interrupted   (* history: tasks with a run that ended before it had a row *)

history == <<execs, overlapped, interrupted>>
worker  == <<pc, task, out, lease>>
vars    == <<queue, row, verdict, worker, redelivered, crashes, history>>

StoredResults == {"result", "result_error"}  (* task_result['status'] = 'error' or not *)
Rows     == StoredResults \cup {"none", "error"}
Verdicts == {"PENDING", "SUCCESS", "FAILURE"}
PCs      == {"idle", "check", "execute", "audit_error", "exists",
             "store", "store_error", "succeeded", "failed"}

Init == /\ queue = [t \in Tasks |-> 1]
        /\ row = [t \in Tasks |-> "none"]
        /\ verdict = [t \in Tasks |-> "PENDING"]
        /\ pc = [w \in Workers |-> "idle"]
        /\ task = [w \in Workers |-> NoTask]
        /\ out = [w \in Workers |-> "none"]
        /\ lease = [w \in Workers |-> FALSE]
        /\ redelivered = [t \in Tasks |-> 0]
        /\ crashes = 0
        /\ execs = [t \in Tasks |-> 0]
        /\ overlapped = {}
        /\ interrupted = {}

Goto(w, step) == pc' = [pc EXCEPT ![w] = step]

Step(w, from, to) == /\ pc[w] = from
                     /\ Goto(w, to)
                     /\ UNCHANGED <<task, out, lease>>

(* The worker has no message any more. *)
BecomeIdle(w) == /\ Goto(w, "idle")
                 /\ task' = [task EXCEPT ![w] = NoTask]
                 /\ out' = [out EXCEPT ![w] = "none"]
                 /\ lease' = [lease EXCEPT ![w] = FALSE]

(* INSERT INTO worker_results: a second row for the worker_id is refused   *)
(* and the IntegrityError swallowed.                                       *)
Insert(t, r) == row' = IF row[t] = "none" THEN [row EXCEPT ![t] = r] ELSE row

-----------------------------------------------------------------------------
(* The broker.                                                             *)

Deliver(w, t) ==
    /\ pc[w] = "idle"
    /\ queue[t] > 0
    /\ queue' = [queue EXCEPT ![t] = @ - 1]
    /\ Goto(w, "check")
    /\ task' = [task EXCEPT ![w] = t]
    /\ lease' = [lease EXCEPT ![w] = TRUE]
    /\ overlapped' = IF \E v \in Workers : task[v] = t THEN overlapped \cup {t} ELSE overlapped
    /\ UNCHANGED <<row, verdict, out, redelivered, crashes, execs, interrupted>>

Redeliver(t) ==
    /\ redelivered[t] < MaxRedeliveries
    /\ queue' = [queue EXCEPT ![t] = @ + 1]
    /\ redelivered' = [redelivered EXCEPT ![t] = @ + 1]
    /\ UNCHANGED <<row, verdict, pc, task, out, crashes, history>>

VisibilityTimeout(w) ==
    /\ lease[w]
    /\ Redeliver(task[w])
    /\ lease' = [lease EXCEPT ![w] = FALSE]

DuplicateDelivery(t) == Redeliver(t) /\ UNCHANGED lease

-----------------------------------------------------------------------------
(* BaseTask.run.                                                           *)

(* Variant: run without the lookup of the worker_id. *)
CheckNothing(w) ==
    /\ Step(w, "check", "execute")
    /\ execs' = [execs EXCEPT ![task[w]] = @ + 1]
    /\ UNCHANGED <<queue, row, verdict, redelivered, crashes, overlapped, interrupted>>

(* get_worker_id_count > 0: TaskAlreadyExistsError; the lookup itself may  *)
(* raise SQLAlchemyError.                                                  *)
CheckWorkerId(w) ==
    LET t == task[w] IN
    /\ \/ Step(w, "check", "exists") /\ row[t] # "none" /\ UNCHANGED execs
       \/ /\ Step(w, "check", "execute")
          /\ row[t] = "none"
          /\ execs' = [execs EXCEPT ![t] = @ + 1]
       \/ Step(w, "check", "store_error") /\ UNCHANGED execs
    /\ UNCHANGED <<queue, row, verdict, redelivered, crashes, overlapped, interrupted>>

(* execute returns; a non-empty result that breaks the schema raises       *)
(* FatalTaskError outside the try, so no audit is stored for it here.      *)
ExecuteReturns(w) ==
    /\ pc[w] = "execute"
    /\ \/ /\ Goto(w, "store")
          /\ \E r \in StoredResults : out' = [out EXCEPT ![w] = r]
          /\ UNCHANGED <<task, lease>>
       \/ Step(w, "execute", "store_error")
    /\ UNCHANGED <<queue, row, verdict, redelivered, crashes, history>>

ExecuteRaises(w) ==
    /\ Step(w, "execute", "audit_error")
    /\ UNCHANGED <<queue, row, verdict, redelivered, crashes, history>>

(* Variant: store_error without the exemption of the init tasks. *)
RecordAnyError(t) == Insert(t, "error") \/ UNCHANGED row

(* PostgresBase.store_error: nothing is written for init tasks; the insert *)
(* may fail with any other SQLAlchemyError, which is re-raised.            *)
RecordError(t) ==
    \/ t \notin InitTasks /\ Insert(t, "error")
    \/ UNCHANGED row

(* Variant: the exception of execute is audited and not raised again. *)
AuditErrorSwallows(w) ==
    /\ Step(w, "audit_error", "succeeded")
    /\ RecordError(task[w])
    /\ UNCHANGED <<queue, verdict, redelivered, crashes, history>>

(* run's own call of store_error, with the audit as the result, before the *)
(* exception goes on.                                                      *)
AuditError(w) ==
    /\ Step(w, "audit_error", "store_error")
    /\ RecordError(task[w])
    /\ UNCHANGED <<queue, verdict, redelivered, crashes, history>>

(* PostgresBase.store: the row or a swallowed IntegrityError, or a         *)
(* SQLAlchemyError that is re-raised.                                      *)
Store(w) ==
    /\ \/ Step(w, "store", "succeeded") /\ Insert(task[w], out[w])
       \/ Step(w, "store", "store_error") /\ UNCHANGED row
    /\ UNCHANGED <<queue, verdict, redelivered, crashes, history>>

(* Selinon's call of store_error once the task has raised.                 *)
StoreError(w) ==
    /\ Step(w, "store_error", "failed")
    /\ RecordError(task[w])
    /\ UNCHANGED <<queue, verdict, redelivered, crashes, history>>

(* The same call for TaskAlreadyExistsError writes nothing.                *)
SkipStoreError(w) ==
    /\ Step(w, "exists", "failed")
    /\ UNCHANGED <<queue, row, verdict, redelivered, crashes, history>>

-----------------------------------------------------------------------------
(* Celery saves the state and acknowledges (task_acks_late); or the        *)
(* process dies and its message becomes visible again.                     *)

(* A run that ends without a row leaves the task open to another run.      *)
EndRun(w) ==
    /\ BecomeIdle(w)
    /\ interrupted' = IF row[task[w]] = "none" THEN interrupted \cup {task[w]} ELSE interrupted
    /\ UNCHANGED <<row, redelivered, execs, overlapped>>

Report(w) ==
    /\ \/ pc[w] = "succeeded" /\ verdict' = [verdict EXCEPT ![task[w]] = "SUCCESS"]
       \/ pc[w] = "failed"    /\ verdict' = [verdict EXCEPT ![task[w]] = "FAILURE"]
    /\ EndRun(w)
    /\ UNCHANGED <<queue, crashes>>

(* Variant: task_acks_late = False, the message of a dead worker is gone. *)
CrashLosesMessage(w) ==
    /\ pc[w] # "idle"
    /\ crashes < MaxCrashes
    /\ crashes' = crashes + 1
    /\ EndRun(w)
    /\ UNCHANGED <<queue, verdict>>


Crash(w) ==
    /\ pc[w] # "idle"
    /\ crashes < MaxCrashes
    /\ crashes' = crashes + 1
    /\ queue' = IF lease[w] THEN [queue EXCEPT ![task[w]] = @ + 1] ELSE queue
    /\ EndRun(w)
    /\ UNCHANGED verdict

Run(w) == \/ CheckWorkerId(w) \/ ExecuteReturns(w) \/ ExecuteRaises(w) \/ AuditError(w)
          \/ Store(w) \/ StoreError(w) \/ SkipStoreError(w) \/ Report(w)

Next == \/ \E w \in Workers : \/ \E t \in Tasks : Deliver(w, t)
                              \/ VisibilityTimeout(w)
                              \/ Run(w)
                              \/ Crash(w)
        \/ \E t \in Tasks : DuplicateDelivery(t)

(* A worker process that is alive takes messages and finishes its task.    *)
Fairness == \A w \in Workers : /\ WF_vars(\E t \in Tasks : Deliver(w, t))
                               /\ WF_vars(Run(w))

Spec == Init /\ [][Next]_vars
FairSpec == Spec /\ Fairness

-----------------------------------------------------------------------------
(* Properties.                                                             *)

TypeOK ==
    /\ queue \in [Tasks -> Nat]
    /\ row \in [Tasks -> Rows]
    /\ verdict \in [Tasks -> Verdicts]
    /\ pc \in [Workers -> PCs]
    /\ task \in [Workers -> Tasks \cup {NoTask}]
    /\ \A w \in Workers : pc[w] = "idle" <=> task[w] = NoTask
    /\ out \in [Workers -> StoredResults \cup {"none"}]
    /\ \A w \in Workers : pc[w] = "store" => out[w] \in StoredResults
    /\ lease \in [Workers -> BOOLEAN]
    /\ \A w \in Workers : lease[w] => pc[w] # "idle"
    /\ redelivered \in [Tasks -> 0..MaxRedeliveries]
    /\ crashes \in 0..MaxCrashes
    /\ execs \in [Tasks -> Nat]
    /\ overlapped \subseteq Tasks
    /\ interrupted \subseteq Tasks

(* However the runs of one task interleave, the row that the first of them *)
(* inserted is never replaced (the swallowed IntegrityError of store and   *)
(* store_error).                                                           *)
RowIsFinal == [][\A t \in Tasks : row[t] # "none" => row'[t] = row[t]]_vars

(* A task whose state is SUCCESS has a row in worker_results: the flows    *)
(* that read the results of their parents find one.                        *)
SuccessHasRow == \A t \in Tasks : verdict[t] = "SUCCESS" => row[t] # "none"

(* The worker_id lookup makes at-least-once delivery harmless: a task is   *)
(* executed again only if two workers held its message at the same time or *)
(* an earlier run ended before it left a row.  In particular a worker that *)
(* dies between the insert and the acknowledgement causes no second run.   *)
ReexecutionHasCause ==
    \A t \in Tasks : execs[t] > 1 => t \in overlapped \cup interrupted

(* A task reported SUCCESS has its result in the row, not the error of     *)
(* another run, unless two workers held it at the same time.               *)
ResultNotLost ==
    \A t \in Tasks : verdict[t] = "SUCCESS" /\ row[t] = "error" => t \in overlapped

(* The comment in store, "the result has been already stored before the    *)
(* error occurred hence there is no reason to re-raise": a store that      *)
(* returns leaves a result in the row.                                     *)
SwallowedStoreHasResult ==
    \A w \in Workers : pc[w] = "succeeded" => row[task[w]] \in StoredResults

(* Every scheduled task is eventually reported to its dispatcher, whatever *)
(* crashes and redeliveries do: task_acks_late brings the message back.    *)
EveryTaskReported == \A t \in Tasks : <>(verdict[t] # "PENDING")

(* The store keeps the promise of ResultOnce.                              *)
Once == INSTANCE ResultOnce WITH row <- row, verdict <- verdict
ImplementsResultOnce == Once!Spec
=============================================================================
