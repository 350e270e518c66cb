---------------------------- MODULE BayesianFlow ----------------------------
(***************************************************************************)
(* The recursive ingestion of a package version: bayesianFlow, its         *)
(* subflow bayesianAnalysisFlow and the flows they schedule for            *)
(* dependencies (f8a_worker/dispatcher/flows, f8a_worker/dispatcher/       *)
(* foreach.py, f8a_worker/workers/finalize.py).                            *)
(*                                                                         *)
(* A flow initialises the analysis, runs the tasks metadata and digests,   *)
(* after metadata the task dependency_snapshot, and schedules a flow with  *)
(* a smaller recursive_limit for each dependency without an analysis, for  *)
(* which it does not wait.  Then it finalizes the analysis and collects    *)
(* its results.  Every poll of the dispatcher that schedules something,    *)
(* and every end of a task, is one step.  The package-level flow, which    *)
(* starts after metadata, and the graph import at the end are left out:    *)
(* no flow waits for them.                                                 *)
(***************************************************************************)
EXTENDS Naturals

CONSTANTS
    Versions,      (* ecosystem/package/version triplets                     *)
    Dependencies,  (* the registry versions that a version depends on        *)
    Denormalized,  (* versions that dependants name in another than the      *)
                   (* normalized form, outside maven                         *)
    Root, Limit,   (* the version that is ingested, its recursive_limit      *)
    Forced,        (* the root is analysed even when it has an analysis      *)
    SyncS3,        (* the environment has BAYESIAN_SYNC_S3=1                 *)
    MaxFlows,      (* bound: flows                                           *)
    MaxFailures    (* bound: what fails, flows that are stopped              *)

ASSUME BayesianFlowAssumption ==
    /\ Dependencies \in [Versions -> SUBSET Versions]
    /\ Root \in Versions
    /\ Limit \in Nat
    /\ MaxFlows \in Nat \ {0}
    /\ MaxFailures \in Nat

Flows == 1..MaxFlows

VARIABLES
    used,           (* flows up to this one have been scheduled              *)
    epv, limit,     (* the arguments of a flow                               *)
    pc,             (* the node of bayesianFlow that a flow has come to      *)
    metadata, digests, snapshot,  (* the tasks of bayesianAnalysisFlow       *)
    resolved,       (* dependencies in the result of dependency_snapshot     *)
    chosen,         (* dependencies that foreach returned, not yet scheduled *)
    doc, finished,  (* the flow has made an analysis; its finished_at is set *)
    parent,         (* history: the flow that scheduled a flow, or 0         *)
    failures        (* history: what has failed, flows stopped               *)

tasks == <<metadata, digests, snapshot>>
deps  == <<resolved, chosen>>
args  == <<used, epv, limit, parent>>
vars  == <<args, pc, tasks, deps, doc, finished, failures>>

PCs == {"unused", "init", "fetch", "analysis", "finalize", "finalize_error", "collect",
        "done", "failed"}
Ended  == {"unused", "done", "failed"}
Status == {"none", "running", "ok", "failed"}
SnapshotStatus == Status \cup {"spawning", "lost"}

Init == /\ used = 1
        /\ epv = [f \in Flows |-> Root]
        /\ limit = [f \in Flows |-> IF f = 1 THEN Limit ELSE 0]
        /\ pc = [f \in Flows |-> IF f = 1 THEN "init" ELSE "unused"]
        /\ metadata = [f \in Flows |-> "none"]
        /\ digests = [f \in Flows |-> "none"]
        /\ snapshot = [f \in Flows |-> "none"]
        /\ resolved = [f \in Flows |-> {}]
        /\ chosen = [f \in Flows |-> {}]
        /\ doc = [f \in Flows |-> FALSE]
        /\ finished = [f \in Flows |-> FALSE]
        /\ parent = [f \in Flows |-> 0]
        /\ failures = 0

(* A node fails without a fallback, or the dispatcher stops the flow. *)
GiveUp(f) ==
    /\ failures < MaxFailures
    /\ failures' = failures + 1
    /\ pc' = [pc EXCEPT ![f] = "failed"]
    /\ UNCHANGED <<args, tasks, deps, doc, finished>>

Goto(f, node) == pc' = [pc EXCEPT ![f] = node]
Step(f, from, to) == pc[f] = from /\ Goto(f, to)

(* get_analysis_count > 0 for the name in its normalized form. *)
Analysed(e) == \E f \in Flows : doc[f] /\ epv[f] = e

-----------------------------------------------------------------------------
(* InitAnalysisFlow counts the analyses of the version ...                 *)
Count(f) ==
    /\ pc[f] = "init"
    /\ Goto(f, IF Analysed(epv[f]) /\ ~(Forced /\ f = 1) THEN "done" ELSE "fetch")
    /\ UNCHANGED <<args, tasks, deps, doc, finished, failures>>

(* ... and, when it has fetched the artifact, adds one.  Without a         *)
(* fallback for InitAnalysisFlow the flow fails with it.                   *)
Insert(f) ==
    /\ Step(f, "fetch", "analysis")
    /\ doc' = [doc EXCEPT ![f] = TRUE]
    /\ metadata' = [metadata EXCEPT ![f] = "running"]
    /\ digests' = [digests EXCEPT ![f] = "running"]
    /\ UNCHANGED <<args, snapshot, deps, finished, failures>>

InitFails(f) ==
    /\ pc[f] \in {"init", "fetch"}
    /\ GiveUp(f)

-----------------------------------------------------------------------------
(* A task ends, also after its flow was stopped. *)
MetadataEnds(f) ==
    /\ metadata[f] = "running"
    /\ \E s \in {"ok", "failed"} : metadata' = [metadata EXCEPT ![f] = s]
    /\ UNCHANGED <<args, pc, digests, snapshot, deps, doc, finished, failures>>

DigestsEnds(f) ==
    /\ digests[f] = "running"
    /\ \E s \in {"ok", "failed"} : digests' = [digests EXCEPT ![f] = s]
    /\ UNCHANGED <<args, pc, metadata, snapshot, deps, doc, finished, failures>>

ScheduleSnapshot(f) ==
    /\ pc[f] = "analysis"
    /\ metadata[f] = "ok" /\ snapshot[f] = "none"
    /\ limit[f] > 0
    /\ snapshot' = [snapshot EXCEPT ![f] = "running"]
    /\ UNCHANGED <<args, pc, metadata, digests, deps, doc, finished, failures>>

(* dependency_snapshot stops at the first dependency that it cannot        *)
(* resolve, in an order that changes from run to run, and succeeds.        *)
SnapshotEnds(f) ==
    /\ snapshot[f] = "running"
    /\ \/ /\ snapshot' = [snapshot EXCEPT ![f] = "ok"]
          /\ \E found \in SUBSET Dependencies[epv[f]] :
                resolved' = [resolved EXCEPT ![f] = found]
       \/ /\ snapshot' = [snapshot EXCEPT ![f] = "failed"]
          /\ UNCHANGED resolved
    /\ UNCHANGED <<args, pc, metadata, digests, chosen, doc, finished, failures>>

(* iter_dependencies_analysis, evaluated once. *)
Choose(f) ==
    /\ pc[f] = "analysis"
    /\ snapshot[f] = "ok"
    /\ snapshot' = [snapshot EXCEPT ![f] = "spawning"]
    /\ chosen' = [chosen EXCEPT ![f] =
          {d \in resolved[f] : d \in Denormalized \/ ~Analysed(d)}]
    /\ UNCHANGED <<args, pc, metadata, digests, resolved, doc, finished, failures>>

(* iter_dependencies_analysis raises, logs it and returns no dependency.   *)
ChooseFails(f) ==
    /\ pc[f] = "analysis"
    /\ snapshot[f] = "ok"
    /\ failures < MaxFailures
    /\ failures' = failures + 1
    /\ snapshot' = [snapshot EXCEPT ![f] = "lost"]
    /\ UNCHANGED <<args, pc, metadata, digests, deps, doc, finished>>

(* Variant: dependencies are ingested with the limit of their dependant. *)
SpawnSameLimit(f, d) ==
    /\ pc[f] = "analysis"
    /\ d \in chosen[f]
    /\ used < MaxFlows
    /\ used' = used + 1
    /\ epv' = [epv EXCEPT ![used + 1] = d]
    /\ limit' = [limit EXCEPT ![used + 1] = limit[f]]
    /\ pc' = [pc EXCEPT ![used + 1] = "init"]
    /\ parent' = [parent EXCEPT ![used + 1] = f]
    /\ chosen' = [chosen EXCEPT ![f] = @ \ {d}]
    /\ UNCHANGED <<tasks, resolved, doc, finished, failures>>

(* The flow of one of the dependencies. *)
Spawn(f, d) ==
    /\ pc[f] = "analysis"
    /\ d \in chosen[f]
    /\ used < MaxFlows
    /\ used' = used + 1
    /\ epv' = [epv EXCEPT ![used + 1] = d]
    /\ limit' = [limit EXCEPT ![used + 1] = limit[f] - 1]
    /\ pc' = [pc EXCEPT ![used + 1] = "init"]
    /\ parent' = [parent EXCEPT ![used + 1] = f]
    /\ chosen' = [chosen EXCEPT ![f] = @ \ {d}]
    /\ UNCHANGED <<tasks, resolved, doc, finished, failures>>

-----------------------------------------------------------------------------
TaskFailed(f) == "failed" \in {metadata[f], digests[f], snapshot[f]}

(* Variant: the analysis waits for a snapshot that is not scheduled. *)
SettledWithSnapshot(f) ==
    /\ metadata[f] \in {"ok", "failed"}
    /\ digests[f] \in {"ok", "failed"}
    /\ \/ metadata[f] = "failed"
       \/ snapshot[f] \in {"failed", "lost"}
       \/ snapshot[f] = "spawning" /\ chosen[f] = {}

(* Variant: the flow ends when its snapshot has, whatever is left to spawn. *)
SettledWhileSpawning(f) ==
    /\ metadata[f] \in {"ok", "failed"}
    /\ digests[f] \in {"ok", "failed"}
    /\ \/ metadata[f] = "failed"
       \/ limit[f] = 0
       \/ snapshot[f] \in {"failed", "lost", "spawning"}

(* No task of the analysis runs, and none will be scheduled. *)
Settled(f) ==
    /\ metadata[f] \in {"ok", "failed"}
    /\ digests[f] \in {"ok", "failed"}
    /\ \/ metadata[f] = "failed"
       \/ limit[f] = 0
       \/ snapshot[f] \in {"failed", "lost"}
       \/ snapshot[f] = "spawning" /\ chosen[f] = {}

(* Variant: the analysis fails with the first of its tasks. *)
AnalysisEndsEarly(f) ==
    /\ pc[f] = "analysis"
    /\ Settled(f) \/ TaskFailed(f)
    /\ Goto(f, IF TaskFailed(f) THEN "finalize_error" ELSE "finalize")
    /\ UNCHANGED <<args, tasks, deps, doc, finished, failures>>

(* bayesianAnalysisFlow ends; when it failed the fallback is scheduled. *)
AnalysisEnds(f) ==
    /\ pc[f] = "analysis"
    /\ Settled(f)
    /\ Goto(f, IF TaskFailed(f) THEN "finalize_error" ELSE "finalize")
    /\ UNCHANGED <<args, tasks, deps, doc, finished, failures>>

(* FinalizeTask, and FinalizeTaskError, which runs the same code. *)
Finalize(f) ==
    /\ pc[f] \in {"finalize", "finalize_error"}
    /\ finished' = [finished EXCEPT ![f] = TRUE]
    /\ Goto(f, IF SyncS3 THEN "collect" ELSE "done")
    /\ UNCHANGED <<args, tasks, deps, doc, failures>>

Collect(f) ==
    /\ Step(f, "collect", "done")
    /\ UNCHANGED <<args, tasks, deps, doc, finished, failures>>

NodeFails(f) ==
    /\ pc[f] \in {"finalize", "finalize_error", "collect"}
    /\ GiveUp(f)

(* The dispatcher stops a flow that is older than SQS_MSG_LIFETIME.  The   *)
(* subflow has the start time of the flow and is stopped with it, the      *)
(* tasks that run go on.                                                   *)
CheckHungTask(f) ==
    /\ pc[f] \notin Ended
    /\ GiveUp(f)

Run(f) == \/ Count(f) \/ Insert(f)
          \/ MetadataEnds(f) \/ DigestsEnds(f) \/ ScheduleSnapshot(f) \/ SnapshotEnds(f)
          \/ Choose(f) \/ \E d \in Versions : Spawn(f, d)
          \/ AnalysisEnds(f) \/ Finalize(f) \/ Collect(f)

Next == \E f \in Flows : Run(f) \/ ChooseFails(f) \/ InitFails(f) \/ NodeFails(f) \/ CheckHungTask(f)

Spec == Init /\ [][Next]_vars

(* Workers run the tasks that are scheduled, dispatchers poll. *)
FairSpec == Spec /\ \A f \in Flows : WF_vars(Run(f))

-----------------------------------------------------------------------------
TypeOK ==
    /\ used \in Flows
    /\ epv \in [Flows -> Versions]
    /\ limit \in [Flows -> 0..Limit]
    /\ pc \in [Flows -> PCs]
    /\ metadata \in [Flows -> Status]
    /\ digests \in [Flows -> Status]
    /\ snapshot \in [Flows -> SnapshotStatus]
    /\ resolved \in [Flows -> SUBSET Versions]
    /\ chosen \in [Flows -> SUBSET Versions]
    /\ doc \in [Flows -> BOOLEAN]
    /\ finished \in [Flows -> BOOLEAN]
    /\ parent \in [Flows -> Flows \cup {0}]
    /\ failures \in 0..MaxFailures
    /\ \A f \in Flows : pc[f] = "unused" <=> f > used

(* Versions that a path of at most n dependencies leads to. *)
Path(p, n) == /\ p \in [0..n -> Versions]
              /\ p[0] = Root
              /\ \A i \in 0..n : i < n => p[i + 1] \in Dependencies[p[i]] \cup {p[i]}
Within(n) == {e \in Versions : \E p \in [0..n -> Versions] : Path(p, n) /\ p[n] = e}
WithinLimit == Within(Limit)

(* What has an analysis, with the limit of the flow that made it.          *)
Ingested == {[version |-> epv[f], limit |-> limit[f]] : f \in {g \in Flows : doc[g]}}

Promise == INSTANCE Ingestion WITH ingested <- Ingested

(* In whatever order flows run and however the graph loops, an analysis is *)
(* made of the root or of a dependency of a version that has its analysis  *)
(* already, and recursive_limit goes down with every step: the flows       *)
(* implement Ingestion.                                                    *)
FollowsDependencies == Promise!Spec

(* What the initialisation of a flow has come to.                          *)
InitOutcomeOf(f) ==
    IF doc[f] THEN "analysed"
    ELSE CASE pc[f] = "fetch"              -> "counted"
           [] pc[f] \in {"unused", "init"} -> "ready"
           [] pc[f] = "done"               -> "skipped"
           [] OTHER                        -> "failed"
InitOutcome == [f \in Flows |-> InitOutcomeOf(f)]
IsForced == [f \in Flows |-> Forced /\ f = 1]

(* InitAnalysisFlow, as the recursion sees it: Count and Insert are the    *)
(* steps of InitPromise, which the module InitAnalysis implements too, and *)
(* nothing else in the flows makes or loses an analysis.                   *)
Initialisation == INSTANCE InitPromise WITH of <- epv, forced <- IsForced, at <- InitOutcome
InitialisesOnce == Initialisation!Spec

(* The flows keep both promises: of the recursion, and of each analysis.   *)
KeepsPromises == FollowsDependencies /\ InitialisesOnce

(* So recursion stays within recursive_limit: what is analysed is the root *)
(* or one of its dependencies, at most Limit steps away.                   *)
AnalysedWithinLimit == \A f \in Flows : doc[f] => epv[f] \in WithinLimit

AfterAnalysis == {"finalize", "finalize_error", "collect", "done"}

(* The results of an analysis are finalized and collected when none of its *)
(* tasks runs any more, also when one of them has failed.                  *)
CollectAfterTasks ==
    \A f \in Flows :
        pc[f] \in AfterAnalysis =>
            "running" \notin {metadata[f], digests[f], snapshot[f]}

(* FinalizeTaskError "raises an exception at the end so we recursively     *)
(* propagate flow error to parent flows" (nodes.yml).                      *)
FailurePropagates == \A f \in Flows : pc[f] = "done" => ~TaskFailed(f)

(* Ingestion ends, also when dependencies depend on each other. *)
EveryFlowEnds == \A f \in Flows : pc[f] = "init" ~> pc[f] \in Ended

(* When its tasks have ended, a flow has seen to every dependency that was *)
(* resolved, unless it failed to iterate them: it has an analysis, or the  *)
(* flow itself has scheduled one that is on its way or has failed; it      *)
(* never relies on the flow of another.                                    *)
DependenciesCovered ==
    \A f \in Flows : pc[f] \in AfterAnalysis /\ snapshot[f] # "lost" =>
        \A d \in resolved[f] :
            \/ Analysed(d)
            \/ \E g \in Flows : parent[g] = f /\ epv[g] = d /\ pc[g] # "done"
=============================================================================
