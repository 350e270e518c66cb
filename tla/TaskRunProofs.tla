---------------------------- MODULE TaskRunProofs ----------------------------
(***************************************************************************)
(* Theorems about TaskRun for every set of tasks and workers and for every *)
(* number of redeliveries and crashes.                                     *)
(***************************************************************************)
EXTENDS TaskRun, TLAPS

USE TaskRunAssumption DEF StoredResults, Rows, Verdicts, PCs, worker, history

(* A worker that is not idle holds the message of a scheduled task. *)
LEMMA BusyHasTask ==
    ASSUME TypeOK, NEW w \in Workers, pc[w] # "idle"
    PROVE  task[w] \in Tasks
  BY DEF TypeOK

(* Every variable keeps its type. *)
THEOREM TypeCorrect == Spec => []TypeOK
<1>1. Init => TypeOK
  BY DEF Init, TypeOK
<1>2. TypeOK /\ [Next]_vars => TypeOK'
  <2> SUFFICES ASSUME TypeOK, [Next]_vars PROVE TypeOK'
    OBVIOUS
  <2>1. ASSUME NEW w \in Workers, NEW t \in Tasks, Deliver(w, t) PROVE TypeOK'
    BY <2>1 DEF Deliver, Goto, TypeOK
  <2>2. ASSUME NEW w \in Workers, VisibilityTimeout(w) PROVE TypeOK'
    BY <2>2, BusyHasTask DEF VisibilityTimeout, Redeliver, TypeOK
  <2>3. ASSUME NEW t \in Tasks, DuplicateDelivery(t) PROVE TypeOK'
    BY <2>3 DEF DuplicateDelivery, Redeliver, TypeOK
  <2>4. ASSUME NEW w \in Workers, CheckWorkerId(w) PROVE TypeOK'
    BY <2>4, BusyHasTask DEF CheckWorkerId, Step, Goto, TypeOK
  <2>5. ASSUME NEW w \in Workers, ExecuteReturns(w) PROVE TypeOK'
    BY <2>5, BusyHasTask DEF ExecuteReturns, Step, Goto, TypeOK
  <2>6. ASSUME NEW w \in Workers, ExecuteRaises(w) PROVE TypeOK'
    BY <2>6, BusyHasTask DEF ExecuteRaises, Step, Goto, TypeOK
  <2>7. ASSUME NEW w \in Workers, AuditError(w) PROVE TypeOK'
    BY <2>7, BusyHasTask DEF AuditError, RecordError, Insert, Step, Goto, TypeOK
  <2>8. ASSUME NEW w \in Workers, Store(w) PROVE TypeOK'
    BY <2>8, BusyHasTask DEF Store, Insert, Step, Goto, TypeOK
  <2>9. ASSUME NEW w \in Workers, StoreError(w) PROVE TypeOK'
    BY <2>9, BusyHasTask DEF StoreError, RecordError, Insert, Step, Goto, TypeOK
  <2>10. ASSUME NEW w \in Workers, SkipStoreError(w) PROVE TypeOK'
    BY <2>10, BusyHasTask DEF SkipStoreError, Step, Goto, TypeOK
  <2>11. ASSUME NEW w \in Workers, Report(w) PROVE TypeOK'
    BY <2>11, BusyHasTask DEF Report, EndRun, BecomeIdle, Goto, TypeOK
  <2>12. ASSUME NEW w \in Workers, Crash(w) PROVE TypeOK'
    BY <2>12, BusyHasTask DEF Crash, EndRun, BecomeIdle, Goto, TypeOK
  <2>13. CASE UNCHANGED vars
    BY <2>13 DEF vars, TypeOK
  <2> QED
    BY <2>1, <2>2, <2>3, <2>4, <2>5, <2>6, <2>7, <2>8, <2>9, <2>10, <2>11, <2>12, <2>13
       DEF Next, Run
<1> QED
  BY <1>1, <1>2, PTL DEF Spec

-----------------------------------------------------------------------------
(* The inductive invariant.                                                *)

(* Two workers with the same task have been seen to overlap. *)
OverlapRecorded ==
    \A v, w \in Workers : v # w /\ task[v] = task[w] /\ task[w] # NoTask => task[w] \in overlapped

(* As long as a task was never held twice, its only worker finds the row   *)
(* as it left it.                                                          *)
RowFollowsRun ==
    \A w \in Workers :
        /\ pc[w] = "succeeded" => row[task[w]] # "none"
        /\ pc[w] = "succeeded" /\ task[w] \notin overlapped => row[task[w]] # "error"
        /\ pc[w] \in {"execute", "audit_error", "store"} /\ task[w] \notin overlapped
              => row[task[w]] = "none"

(* A task that was executed and has no row yet is still being run, unless  *)
(* a run of it was interrupted or overlapped.                              *)
ExecutionPending ==
    \A t \in Tasks : execs[t] > 0 /\ row[t] = "none" /\ t \notin overlapped \cup interrupted
        => \E w \in Workers : task[w] = t /\ pc[w] # "check"

RunInv == /\ TypeOK
          /\ OverlapRecorded
          /\ RowFollowsRun
          /\ ExecutionPending
          /\ SuccessHasRow
          /\ ResultNotLost
          /\ ReexecutionHasCause

(* RunInv holds initially and every step keeps it. *)
THEOREM Inductive == Spec => []RunInv
<1> USE DEF RunInv, OverlapRecorded, RowFollowsRun, ExecutionPending, SuccessHasRow,
            ResultNotLost, ReexecutionHasCause
<1>1. Init => RunInv
  BY DEF Init, TypeOK
<1>2. RunInv /\ TypeOK' /\ [Next]_vars => RunInv'
  <2> SUFFICES ASSUME RunInv, TypeOK', [Next]_vars PROVE RunInv'
    OBVIOUS
  <2>1. ASSUME NEW w \in Workers, NEW t \in Tasks, Deliver(w, t) PROVE RunInv'
    BY <2>1 DEF Deliver, Goto, TypeOK
  <2>2. ASSUME NEW w \in Workers, VisibilityTimeout(w) PROVE RunInv'
    BY <2>2, BusyHasTask DEF VisibilityTimeout, Redeliver, TypeOK
  <2>3. ASSUME NEW t \in Tasks, DuplicateDelivery(t) PROVE RunInv'
    BY <2>3 DEF DuplicateDelivery, Redeliver, TypeOK
  <2>4. ASSUME NEW w \in Workers, CheckWorkerId(w) PROVE RunInv'
    BY <2>4, BusyHasTask DEF CheckWorkerId, Step, Goto, TypeOK
  <2>5. ASSUME NEW w \in Workers, ExecuteReturns(w) PROVE RunInv'
    BY <2>5, BusyHasTask DEF ExecuteReturns, Step, Goto, TypeOK
  <2>6. ASSUME NEW w \in Workers, ExecuteRaises(w) PROVE RunInv'
    BY <2>6, BusyHasTask DEF ExecuteRaises, Step, Goto, TypeOK
  <2>7. ASSUME NEW w \in Workers, AuditError(w) PROVE RunInv'
    BY <2>7, BusyHasTask DEF AuditError, RecordError, Insert, Step, Goto, TypeOK
  <2>8. ASSUME NEW w \in Workers, Store(w) PROVE RunInv'
    BY <2>8, BusyHasTask DEF Store, Insert, Step, Goto, TypeOK
  <2>9. ASSUME NEW w \in Workers, StoreError(w) PROVE RunInv'
    BY <2>9, BusyHasTask DEF StoreError, RecordError, Insert, Step, Goto, TypeOK
  <2>10. ASSUME NEW w \in Workers, SkipStoreError(w) PROVE RunInv'
    BY <2>10, BusyHasTask DEF SkipStoreError, Step, Goto, TypeOK
  <2>11. ASSUME NEW w \in Workers, Report(w) PROVE RunInv'
    BY <2>11, BusyHasTask DEF Report, EndRun, BecomeIdle, Goto, TypeOK
  <2>12. ASSUME NEW w \in Workers, Crash(w) PROVE RunInv'
    BY <2>12, BusyHasTask DEF Crash, EndRun, BecomeIdle, Goto, TypeOK
  <2>13. CASE UNCHANGED vars
    BY <2>13 DEF vars, TypeOK
  <2> QED
    BY <2>1, <2>2, <2>3, <2>4, <2>5, <2>6, <2>7, <2>8, <2>9, <2>10, <2>11, <2>12, <2>13
       DEF Next, Run
<1> QED
  BY <1>1, <1>2, TypeCorrect, PTL DEF Spec

-----------------------------------------------------------------------------
(* A task reported SUCCESS has a row, for any number of workers, crashes   *)
(* and redeliveries.                                                       *)
THEOREM SuccessAlwaysHasRow == Spec => []SuccessHasRow
  BY Inductive, PTL DEF RunInv

(* A reported SUCCESS hides another run's error only where two workers     *)
(* held the task at the same time.                                         *)
THEOREM NoResultLost == Spec => []ResultNotLost
  BY Inductive, PTL DEF RunInv

(* The lookup of the worker_id limits execution to one run, unless runs    *)
(* overlapped or were interrupted before they left a row.                  *)
THEOREM NoCauselessReexecution == Spec => []ReexecutionHasCause
  BY Inductive, PTL DEF RunInv

(* No step replaces a row. *)
LEMMA StepKeepsRow ==
    ASSUME TypeOK, [Next]_vars
    PROVE  \A t \in Tasks : row[t] # "none" => row'[t] = row[t]
<1>1. ASSUME NEW t \in Tasks, NEW r \in Rows, Insert(t, r)
      PROVE  \A u \in Tasks : row[u] # "none" => row'[u] = row[u]
  BY <1>1 DEF Insert, TypeOK
<1>2. ASSUME NEW w \in Workers, Run(w)
      PROVE  \A t \in Tasks : row[t] # "none" => row'[t] = row[t]
  <2>1. CASE AuditError(w) \/ StoreError(w)
    BY <1>1, <2>1, BusyHasTask DEF AuditError, StoreError, RecordError, Step, TypeOK
  <2>2. CASE Store(w)
    BY <1>1, <2>2, BusyHasTask DEF Store, Step, TypeOK
  <2>3. CASE CheckWorkerId(w) \/ ExecuteReturns(w) \/ ExecuteRaises(w) \/ SkipStoreError(w)
             \/ Report(w)
    BY <2>3 DEF CheckWorkerId, ExecuteReturns, ExecuteRaises, SkipStoreError, Report, EndRun
  <2> QED
    BY <1>2, <2>1, <2>2, <2>3 DEF Run
<1> QED
  BY <1>2 DEF Next, Deliver, VisibilityTimeout, DuplicateDelivery, Redeliver, Crash, EndRun, vars

(* A row, once inserted, is final. *)
THEOREM RowsAreFinal == Spec => RowIsFinal
<1>1. TypeOK /\ [Next]_vars => [\A t \in Tasks : row[t] # "none" => row'[t] = row[t]]_vars
  BY StepKeepsRow
<1> QED
  BY <1>1, TypeCorrect, PTL DEF Spec, RowIsFinal

(* TaskRun implements ResultOnce: each step inserts the only row of a      *)
(* task, reports a verdict that its row supports, or changes neither.      *)
THEOREM Refinement == Spec => ImplementsResultOnce
<1> USE DEF Once!StoredResults, Once!Record, Once!Succeed, Once!Fail, Once!Next, Once!vars
<1>1. Init => Once!Init
  BY DEF Init, Once!Init
<1>2. RunInv /\ [Next]_vars => [Once!Next]_Once!vars
  <2> SUFFICES ASSUME RunInv, [Next]_vars PROVE [Once!Next]_Once!vars
    OBVIOUS
  <2>0. TypeOK
    BY DEF RunInv
  <2>1. ASSUME NEW w \in Workers, AuditError(w) \/ StoreError(w) PROVE [Once!Next]_Once!vars
    <3>1. task[w] \in Tasks /\ RecordError(task[w]) /\ UNCHANGED verdict
      BY <2>0, <2>1, BusyHasTask DEF AuditError, StoreError, Step
    <3> QED
      BY <3>1 DEF RecordError, Insert
  <2>2. ASSUME NEW w \in Workers, Store(w) PROVE [Once!Next]_Once!vars
    <3>1. task[w] \in Tasks /\ out[w] \in StoredResults /\ UNCHANGED verdict
      BY <2>0, <2>2, BusyHasTask DEF Store, Step, TypeOK
    <3> QED
      BY <2>2, <3>1 DEF Store, Insert
  <2>3. ASSUME NEW w \in Workers, Report(w) PROVE [Once!Next]_Once!vars
    <3>1. task[w] \in Tasks /\ UNCHANGED row
      BY <2>0, <2>3, BusyHasTask DEF Report, EndRun
    <3>2. pc[w] = "succeeded" => row[task[w]] # "none"
      BY DEF RunInv, RowFollowsRun
    <3> QED
      BY <2>3, <3>1, <3>2 DEF Report
  <2>4. CASE \/ \E w \in Workers : \/ \E t \in Tasks : Deliver(w, t)
                                   \/ VisibilityTimeout(w) \/ Crash(w)
                                   \/ CheckWorkerId(w) \/ ExecuteReturns(w)
                                   \/ ExecuteRaises(w) \/ SkipStoreError(w)
             \/ \E t \in Tasks : DuplicateDelivery(t)
    BY <2>4 DEF Deliver, VisibilityTimeout, DuplicateDelivery, Redeliver, Crash, EndRun,
                CheckWorkerId, ExecuteReturns, ExecuteRaises, SkipStoreError
  <2> QED
    BY <2>1, <2>2, <2>3, <2>4 DEF Next, Run, vars
<1> QED
  BY <1>1, <1>2, Inductive, PTL DEF Spec, ImplementsResultOnce, Once!Spec

-----------------------------------------------------------------------------
(* What the broker still has of a task that was not reported: a copy that  *)
(* is visible, or one that a worker holds and that comes back with it.     *)
MessageIsKept ==
    \A t \in Tasks : verdict[t] = "PENDING" =>
        queue[t] > 0 \/ \E w \in Workers : task[w] = t /\ lease[w]

(* A reported task stays reported. *)
ReportIsKept == [][\A t \in Tasks : verdict[t] # "PENDING" => verdict'[t] # "PENDING"]_vars

(* task_acks_late: whichever workers die, and however often the broker     *)
(* hands a message to another worker, a task that was not reported is not  *)
(* forgotten; a copy whose visibility timed out is never the last one.     *)
THEOREM NoTaskIsForgotten == Spec => []MessageIsKept /\ ReportIsKept
<1>1. Init => MessageIsKept
  BY DEF Init, MessageIsKept
<1>2. TypeOK /\ MessageIsKept /\ [Next]_vars => MessageIsKept'
  <2> SUFFICES ASSUME TypeOK, MessageIsKept, [Next]_vars PROVE MessageIsKept'
    OBVIOUS
  <2> USE DEF TypeOK, MessageIsKept
  <2>1. ASSUME NEW w \in Workers, NEW t \in Tasks, Deliver(w, t) PROVE MessageIsKept'
    <3>1. /\ t \in Tasks /\ queue' = [queue EXCEPT ![t] = @ - 1] /\ UNCHANGED verdict
          /\ task' = [task EXCEPT ![w] = t] /\ lease' = [lease EXCEPT ![w] = TRUE]
          /\ ~lease[w]
      BY <2>1 DEF Deliver
    <3>2. task'[w] = t /\ lease'[w]
      BY <3>1
    <3>3. ASSUME NEW s \in Tasks, s # t, verdict[s] = "PENDING"
          PROVE  queue'[s] > 0 \/ \E v \in Workers : task'[v] = s /\ lease'[v]
      <4>1. queue'[s] = queue[s] /\ \A v \in Workers : lease[v] => task'[v] = task[v] /\ lease'[v]
        BY <3>1, <3>3
      <4> QED
        BY <3>3, <4>1
    <3> QED
      BY <3>1, <3>2, <3>3
  <2>2. ASSUME NEW w \in Workers, VisibilityTimeout(w) PROVE MessageIsKept'
    <3>1. task[w] \in Tasks
      BY <2>2, BusyHasTask DEF VisibilityTimeout
    <3>2. /\ queue' = [queue EXCEPT ![task[w]] = @ + 1] /\ UNCHANGED <<verdict, task>>
          /\ lease' = [lease EXCEPT ![w] = FALSE]
      BY <2>2 DEF VisibilityTimeout, Redeliver
    <3>3. queue'[task[w]] > 0
      BY <3>1, <3>2
    <3>4. ASSUME NEW s \in Tasks, s # task[w], verdict[s] = "PENDING"
          PROVE  queue'[s] > 0 \/ \E v \in Workers : task'[v] = s /\ lease'[v]
      BY <3>2, <3>4
    <3> QED
      BY <3>2, <3>3, <3>4
  <2>3. ASSUME NEW t \in Tasks, DuplicateDelivery(t) PROVE MessageIsKept'
    BY <2>3 DEF DuplicateDelivery, Redeliver
  <2>4. ASSUME NEW w \in Workers, Run(w), ~Report(w) PROVE UNCHANGED <<queue, verdict, task, lease>>
    BY <2>4 DEF Run, CheckWorkerId, ExecuteReturns, ExecuteRaises, AuditError, Store, StoreError,
                SkipStoreError, Step
  <2>5. ASSUME NEW w \in Workers, Report(w) PROVE MessageIsKept'
    <3>1. task[w] \in Tasks
      BY <2>5, BusyHasTask DEF Report
    <3>2. /\ UNCHANGED queue /\ verdict'[task[w]] # "PENDING"
          /\ \A s \in Tasks : s # task[w] => verdict'[s] = verdict[s]
          /\ \A v \in Workers : v # w => task'[v] = task[v] /\ lease'[v] = lease[v]
      BY <2>5, <3>1 DEF Report, EndRun, BecomeIdle
    <3> QED
      BY <3>2
  <2>6. ASSUME NEW w \in Workers, Crash(w) PROVE MessageIsKept'
    <3>1. task[w] \in Tasks
      BY <2>6, BusyHasTask DEF Crash
    <3>2. /\ UNCHANGED verdict
          /\ \A v \in Workers : v # w => task'[v] = task[v] /\ lease'[v] = lease[v]
          /\ \A s \in Tasks : s # task[w] => queue'[s] = queue[s]
      BY <2>6, <3>1 DEF Crash, EndRun, BecomeIdle
    <3>3. lease[w] => queue'[task[w]] > 0
      BY <2>6, <3>1 DEF Crash
    <3>4. ~lease[w] => queue' = queue
      BY <2>6 DEF Crash
    <3> QED
      BY <3>2, <3>3, <3>4
  <2>7. CASE UNCHANGED <<queue, verdict, task, lease>>
    BY <2>7
  <2>8. UNCHANGED vars => UNCHANGED <<queue, verdict, task, lease>>
    BY DEF vars, worker
  <2> HIDE DEF TypeOK, MessageIsKept
  <2> QED
    BY <2>1, <2>2, <2>3, <2>4, <2>5, <2>6, <2>7, <2>8 DEF Next
<1>3. TypeOK /\ [Next]_vars => [\A t \in Tasks : verdict[t] # "PENDING" => verdict'[t] # "PENDING"]_vars
  <2> SUFFICES ASSUME TypeOK, Next, NEW t \in Tasks, verdict[t] # "PENDING"
               PROVE  verdict'[t] # "PENDING"
    OBVIOUS
  <2>1. ASSUME NEW w \in Workers, Report(w) PROVE verdict'[t] # "PENDING"
    <3>1. \/ verdict' = [verdict EXCEPT ![task[w]] = "SUCCESS"]
          \/ verdict' = [verdict EXCEPT ![task[w]] = "FAILURE"]
      BY <2>1 DEF Report
    <3> QED
      BY <3>1 DEF TypeOK
  <2>2. UNCHANGED verdict \/ \E w \in Workers : Report(w)
    BY DEF Next, Run, Deliver, VisibilityTimeout, DuplicateDelivery, Redeliver, Crash, CheckWorkerId,
           ExecuteReturns, ExecuteRaises, AuditError, Store, StoreError, SkipStoreError
  <2> QED
    BY <2>1, <2>2
<1> QED
  BY <1>1, <1>2, <1>3, TypeCorrect, PTL DEF Spec, ReportIsKept
=============================================================================
