------------------------------ MODULE WorkPool ------------------------------
(***************************************************************************)
(* f8a_worker/utils.py: class ThreadPool.  The caller adds tasks to a      *)
(* queue before or after the threads are started, then joins the threads   *)
(* and the queue.  A thread that waits longer than its timeout on an empty *)
(* queue leaves; so does one whose target raises, after task_done.         *)
(* No property depends on the order in which the queue hands out tasks, so *)
(* a task carries its own state.                                           *)
(***************************************************************************)
EXTENDS Integers, FiniteSets

CONSTANTS Jobs, Threads
ASSUME PoolAssumption == IsFiniteSet(Jobs) /\ IsFiniteSet(Threads)

VARIABLES poolMain,   (* where the caller is                                *)
          poolThread, (* a thread: "new", "waiting", "gone" or its job      *)
          poolJob,    (* a job: "new", "queued", "taken", "done" or "failed"*)
          unfinished, (* Queue.unfinished_tasks                             *)
          poolEarly   (* threads that left before the last job was added    *)

poolVars == <<poolMain, poolThread, poolJob, unfinished, poolEarly>>

Queued == {j \in Jobs : poolJob[j] = "queued"}

PoolInit == /\ poolMain = "filling"
            /\ poolThread = [w \in Threads |-> [at |-> "new"]]
            /\ poolJob = [j \in Jobs |-> "new"]
            /\ unfinished = 0
            /\ poolEarly = {}

Start == /\ poolMain = "filling" /\ \A w \in Threads : poolThread[w].at = "new"
         /\ poolThread' = [w \in Threads |-> [at |-> "waiting"]]
         /\ UNCHANGED <<poolMain, poolJob, unfinished, poolEarly>>

AddTask(j) == /\ poolMain = "filling" /\ poolJob[j] = "new"
              /\ poolJob' = [poolJob EXCEPT ![j] = "queued"]
              /\ unfinished' = unfinished + 1
              /\ poolEarly' = {w \in Threads : poolThread[w].at = "gone"}
              /\ UNCHANGED <<poolMain, poolThread>>

(* Leaving the context, or calling join after start.                       *)
JoinThreads == /\ poolMain = "filling" /\ \A w \in Threads : poolThread[w].at # "new"
               /\ poolMain' = "joining threads"
               /\ UNCHANGED <<poolThread, poolJob, unfinished, poolEarly>>

JoinQueue == /\ poolMain = "joining threads" /\ \A w \in Threads : poolThread[w].at = "gone"
             /\ poolMain' = "joining queue"
             /\ UNCHANGED <<poolThread, poolJob, unfinished, poolEarly>>

(* Variant: the queue is not waited for.                                   *)
ReturnAnyway == /\ poolMain = "joining queue"
                /\ poolMain' = "returned"
                /\ UNCHANGED <<poolThread, poolJob, unfinished, poolEarly>>

Return == /\ poolMain = "joining queue" /\ unfinished = 0
          /\ poolMain' = "returned"
          /\ UNCHANGED <<poolThread, poolJob, unfinished, poolEarly>>

Get(w) == /\ poolThread[w].at = "waiting"
          /\ \E j \in Queued : /\ poolThread' = [poolThread EXCEPT ![w] = [at |-> "working", job |-> j]]
                               /\ poolJob' = [poolJob EXCEPT ![j] = "taken"]
          /\ UNCHANGED <<poolMain, unfinished, poolEarly>>

(* queue.get raises Empty.                                                 *)
GetTimesOut(w) == /\ poolThread[w].at = "waiting" /\ Queued = {}
                  /\ poolThread' = [poolThread EXCEPT ![w] = [at |-> "gone"]]
                  /\ UNCHANGED <<poolMain, poolJob, unfinished, poolEarly>>

(* Variant: the thread ends with its first job.                            *)
TargetReturnsOnce(w) == /\ poolThread[w].at = "working"
                        /\ poolJob' = [poolJob EXCEPT ![poolThread[w].job] = "done"]
                        /\ unfinished' = unfinished - 1
                        /\ poolThread' = [poolThread EXCEPT ![w] = [at |-> "gone"]]
                        /\ UNCHANGED <<poolMain, poolEarly>>

(* Variant: task_done is skipped when the target raises.                   *)
TargetRaisesUncounted(w) ==
    /\ poolThread[w].at = "working"
    /\ poolJob' = [poolJob EXCEPT ![poolThread[w].job] = "failed"]
    /\ poolThread' = [poolThread EXCEPT ![w] = [at |-> "gone"]]
    /\ UNCHANGED <<poolMain, unfinished, poolEarly>>

TargetReturns(w) == /\ poolThread[w].at = "working"
                    /\ poolJob' = [poolJob EXCEPT ![poolThread[w].job] = "done"]
                    /\ unfinished' = unfinished - 1
                    /\ poolThread' = [poolThread EXCEPT ![w] = [at |-> "waiting"]]
                    /\ UNCHANGED <<poolMain, poolEarly>>

(* task_done, then the exception ends the thread.                          *)
TargetRaises(w) == /\ poolThread[w].at = "working"
                   /\ poolJob' = [poolJob EXCEPT ![poolThread[w].job] = "failed"]
                   /\ unfinished' = unfinished - 1
                   /\ poolThread' = [poolThread EXCEPT ![w] = [at |-> "gone"]]
                   /\ UNCHANGED <<poolMain, poolEarly>>

Work(w) == Get(w) \/ GetTimesOut(w) \/ TargetReturns(w) \/ TargetRaises(w)

PoolNext == \/ Start \/ JoinThreads \/ JoinQueue \/ Return
            \/ \E j \in Jobs : AddTask(j)
            \/ \E w \in Threads : Work(w)

PoolSpec == PoolInit /\ [][PoolNext]_poolVars
-----------------------------------------------------------------------------
PoolThreadStates == [at : {"new", "waiting", "gone"}] \cup [at : {"working"}, job : Jobs]

PoolTypeOK == /\ poolMain \in {"filling", "joining threads", "joining queue", "returned"}
              /\ poolThread \in [Threads -> PoolThreadStates]
              /\ poolJob \in [Jobs -> {"new", "queued", "taken", "done", "failed"}]
              /\ unfinished \in Int
              /\ poolEarly \in SUBSET Threads

WorksOn(w, j) == poolThread[w].at = "working" /\ poolThread[w].job = j

(* The counter that join waits for is the number of jobs nobody finished,  *)
(* a job being at work in exactly one thread.                              *)
UnfinishedIsExact ==
    /\ unfinished = Cardinality({j \in Jobs : poolJob[j] \in {"queued", "taken"}})
    /\ \A j \in Jobs : poolJob[j] = "taken" <=>
           \E w \in Threads : WorksOn(w, j)
    /\ \A v, w \in Threads, j \in Jobs : WorksOn(v, j) /\ WorksOn(w, j) => v = w

(* A pool that can be left owes nothing: JobPromise, where a job is owed   *)
(* from the moment it is queued until its target has ended.                *)
Promise == INSTANCE JobPromise WITH
    job <- [j \in Jobs |-> CASE poolJob[j] = "new"                  -> "new"
                             [] poolJob[j] \in {"queued", "taken"} -> "owed"
                             [] OTHER                              -> "run"],
    returned <- poolMain = "returned"

(* Every job that was added has been run, once, when join returns.         *)
PoolKeepsPromise == Promise!Spec

(* join hangs on a job left in the queue only when every thread was lost:  *)
(* by the end of filling, or to a target that raised.                      *)
HangHasCause ==
    poolMain = "joining queue" /\ Queued # {} =>
        Cardinality(Threads) <= Cardinality(poolEarly)
                                + Cardinality({j \in Jobs : poolJob[j] = "failed"})

(* A pool whose threads are not all lost returns.                          *)
PoolReturns ==
    (poolMain = "joining threads") ~>
        (poolMain = "returned" \/ (Queued # {} /\ \A w \in Threads : poolThread[w].at = "gone"))
=============================================================================
