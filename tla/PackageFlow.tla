---------------------------- MODULE PackageFlow ----------------------------
(***************************************************************************)
(* bayesianPackageFlow and its Api and Priority variants: several flows of *)
(* one package, from InitPackageFlow to PackageGraphImporterTask.  The     *)
(* upstreams that InitPackageFlow keeps are Upstreams, what the collector  *)
(* does with the rows of an analysis is ResultSync.                        *)
(***************************************************************************)
EXTENDS Naturals

CONSTANTS PackageFlows,   \* flows of the package, numbered from 1
          PackageRequests, \* arguments [force, sync (force_graph_sync), api (waits for the import)]
          MaxTrouble      \* bound: nodes that fail, flows that are stopped
ASSUME PackageAssumption == 0 \notin PackageFlows

VARIABLES
    pfArgs,      \* the arguments of a flow
    pfPc,        \* the node that a flow has come to
    pfGithub,    \* the upstream is on GitHub
    pfRecent,    \* updated_at of the upstream is younger than the interval
    pfDoc,       \* flows that have made a PackageAnalysis
    pfTask,      \* github_details of a flow
    pfS3,        \* the flow that github_details.json is of, or 0
    pfImport,    \* PackageGraphImporterTask of a flow
    pfGraph,     \* the flow whose github_details the graph has, or 0
    pfTrouble

pfVars == <<pfArgs, pfPc, pfGithub, pfRecent, pfDoc, pfTask, pfS3, pfImport, pfGraph, pfTrouble>>

PackageEnded == {"done", "failed"}

PackageFlowInit ==
    /\ pfArgs \in [PackageFlows -> PackageRequests]
    /\ pfPc = [f \in PackageFlows |-> "init"]
    /\ pfGithub \in BOOLEAN
    /\ pfRecent = FALSE /\ pfDoc = {}
    /\ pfTask = [f \in PackageFlows |-> "none"]
    /\ pfS3 = 0 /\ pfGraph = 0
    /\ pfImport = [f \in PackageFlows |-> "none"]
    /\ pfTrouble = 0

FlowAt(f, node, next) == pfPc[f] = node /\ pfPc' = [pfPc EXCEPT ![f] = next]

(* The import is scheduled; only the Api flow waits for it.                *)
StartImport(f, node) ==
    /\ FlowAt(f, node, IF pfArgs[f].api THEN "import" ELSE "done")
    /\ pfImport' = [pfImport EXCEPT ![f] = "running"]
-----------------------------------------------------------------------------
(* InitPackageFlow looks at the upstream.  It is recent: the flow ends, or *)
(* the import that was asked for is its only node ...                      *)
InitPackageSkips(f) ==
    /\ pfRecent /\ ~pfArgs[f].force
    /\ IF pfArgs[f].sync THEN StartImport(f, "init")
       ELSE FlowAt(f, "init", "done") /\ UNCHANGED pfImport
    /\ UNCHANGED <<pfArgs, pfGithub, pfRecent, pfDoc, pfTask, pfS3, pfGraph, pfTrouble>>

(* ... otherwise the flow will analyse the package; flows that look at the *)
(* same time all do ("but let's say it's OK").                             *)
InitPackageGoesOn(f) ==
    /\ FlowAt(f, "init", "insert")
    /\ ~pfRecent \/ pfArgs[f].force
    /\ UNCHANGED <<pfArgs, pfGithub, pfRecent, pfDoc, pfTask, pfS3, pfImport, pfGraph, pfTrouble>>

(* Variant: the edge for force_graph_sync lacks the "not".                 *)
InitPackageInsertsAndSyncs(f) ==
    /\ FlowAt(f, "insert", "analysis")
    /\ pfRecent' = TRUE
    /\ pfDoc' = pfDoc \cup {f}
    /\ pfTask' = [pfTask EXCEPT ![f] = IF pfGithub THEN "running" ELSE "none"]
    /\ pfImport' = [pfImport EXCEPT ![f] = IF pfArgs[f].sync THEN "running" ELSE "none"]
    /\ UNCHANGED <<pfArgs, pfGithub, pfS3, pfGraph, pfTrouble>>

(* The PackageAnalysis and updated_at are committed, the result has a      *)
(* document_id, and bayesianPackageAnalysisFlow starts: github_details for *)
(* a repository on GitHub, nothing otherwise.                              *)
InitPackageInserts(f) ==
    /\ FlowAt(f, "insert", "analysis")
    /\ pfRecent' = TRUE
    /\ pfDoc' = pfDoc \cup {f}
    /\ pfTask' = [pfTask EXCEPT ![f] = IF pfGithub THEN "running" ELSE "none"]
    /\ UNCHANGED <<pfArgs, pfGithub, pfS3, pfImport, pfGraph, pfTrouble>>

(* The task ends, also after its flow was stopped.                         *)
PackageTaskEnds(f) ==
    /\ pfTask[f] = "running"
    /\ \E s \in {"ok", "failed"} : pfTask' = [pfTask EXCEPT ![f] = s]
    /\ UNCHANGED <<pfArgs, pfPc, pfGithub, pfRecent, pfDoc, pfS3, pfImport, pfGraph, pfTrouble>>

(* Variant: the subflow waits for a task that was not scheduled.           *)
PackageAnalysisEndsWithTask(f) ==
    /\ pfTask[f] \in {"ok", "failed"}
    /\ FlowAt(f, "analysis", "finalize")
    /\ UNCHANGED <<pfArgs, pfGithub, pfRecent, pfDoc, pfTask, pfS3, pfImport, pfGraph, pfTrouble>>

(* The subflow ends: PackageFinalizeTask, or PackageFinalizeTaskError, its *)
(* fallback, which is the same class and leads to the same node.           *)
PackageAnalysisEnds(f) ==
    /\ pfTask[f] # "running"
    /\ FlowAt(f, "analysis", "finalize")
    /\ UNCHANGED <<pfArgs, pfGithub, pfRecent, pfDoc, pfTask, pfS3, pfImport, pfGraph, pfTrouble>>

PackageFinalize(f) ==
    /\ FlowAt(f, "finalize", "collect")
    /\ UNCHANGED <<pfArgs, pfGithub, pfRecent, pfDoc, pfTask, pfS3, pfImport, pfGraph, pfTrouble>>

(* PackageResultCollector uploads what the task has stored, the audit of a *)
(* failed one too.                                                         *)
PackageCollect(f) ==
    /\ StartImport(f, "collect")
    /\ pfS3' = IF pfTask[f] = "none" THEN pfS3 ELSE f
    /\ UNCHANGED <<pfArgs, pfGithub, pfRecent, pfDoc, pfTask, pfGraph, pfTrouble>>

(* The import names the tasks that finished without an error in the        *)
(* analysis of the flow, or everything when the sync is forced; the graph  *)
(* takes what S3 has by then.                                              *)
ImportedBy(f) == IF pfArgs[f].sync \/ pfTask[f] = "ok" THEN pfS3 ELSE pfGraph

ImportEnds(f) ==
    /\ pfImport[f] = "running"
    /\ pfImport' = [pfImport EXCEPT ![f] = "sent"]
    /\ pfGraph' = ImportedBy(f)
    /\ pfPc' = [pfPc EXCEPT ![f] = IF @ = "import" THEN "done" ELSE @]
    /\ UNCHANGED <<pfArgs, pfGithub, pfRecent, pfDoc, pfTask, pfS3, pfTrouble>>
-----------------------------------------------------------------------------
FlowTrouble == pfTrouble < MaxTrouble /\ pfTrouble' = pfTrouble + 1

(* The import is refused, or the answer to it is lost.                     *)
ImportFails(f) ==
    /\ FlowTrouble
    /\ pfImport[f] = "running"
    /\ pfImport' = [pfImport EXCEPT ![f] = "failed"]
    /\ pfGraph' \in {pfGraph, ImportedBy(f)}
    /\ pfPc' = [pfPc EXCEPT ![f] = IF @ = "import" THEN "failed" ELSE @]
    /\ UNCHANGED <<pfArgs, pfGithub, pfRecent, pfDoc, pfTask, pfS3>>

(* A node without a fallback fails; the collector may fail between its     *)
(* uploads and its commit.  Or the dispatcher stops the flow as hung, and  *)
(* the tasks that run go on.                                               *)
PackageFlowFails(f) ==
    /\ FlowTrouble
    /\ pfPc[f] \notin PackageEnded
    /\ pfPc' = [pfPc EXCEPT ![f] = "failed"]
    /\ pfS3' \in {pfS3} \cup {g \in {f} : pfPc[f] = "collect" /\ pfTask[f] # "none"}
    /\ UNCHANGED <<pfArgs, pfGithub, pfRecent, pfDoc, pfTask, pfImport, pfGraph>>

(* The update interval is over.                                            *)
UpstreamAges ==
    /\ pfRecent /\ pfRecent' = FALSE
    /\ UNCHANGED <<pfArgs, pfPc, pfGithub, pfDoc, pfTask, pfS3, pfImport, pfGraph, pfTrouble>>

PackageRun(f) == \/ InitPackageSkips(f) \/ InitPackageGoesOn(f) \/ InitPackageInserts(f)
                 \/ PackageTaskEnds(f) \/ PackageAnalysisEnds(f) \/ PackageFinalize(f)
                 \/ PackageCollect(f) \/ ImportEnds(f)

PackageFlowNext == \/ \E f \in PackageFlows : PackageRun(f) \/ ImportFails(f) \/ PackageFlowFails(f)
                   \/ UpstreamAges
PackageFlowSpec == PackageFlowInit /\ [][PackageFlowNext]_pfVars
-----------------------------------------------------------------------------
(* However flows of a package overtake each other between the collector    *)
(* and the importer, a good result that is the last one on S3 is in the    *)
(* graph as soon as the flow that uploaded it has imported.                *)
GraphFollowsS3 ==
    pfS3 # 0 => (pfTask[pfS3] = "ok" /\ pfImport[pfS3] = "sent" => pfGraph = pfS3)

(* A flow that ends well has asked for the import of what it analysed, or  *)
(* of what was there when the sync was forced; also when the analysis has  *)
(* failed and the fallback led it on.                                      *)
DoneHasImported ==
    \A f \in PackageFlows : pfPc[f] = "done" /\ (f \in pfDoc \/ pfArgs[f].sync) => pfImport[f] # "none"

(* A package that is considered recent, so that flows skip it, has been    *)
(* collected, is on its way, or a flow has failed with it.                 *)
RecentHasFlow ==
    pfRecent => \E f \in pfDoc : \/ pfPc[f] # "done"
                                 \/ pfTask[f] = "none"
                                 \/ pfS3 # 0

(* The graph, S3 and the upstream agree about what was analysed.           *)
PackageFlowSound == GraphFollowsS3 /\ DoneHasImported /\ RecentHasFlow

(* A flow that goes on to analyse the package ends, also when there is no  *)
(* task to run for it.                                                     *)
EveryPackageFlowEnds == \A f \in PackageFlows : pfPc[f] = "insert" ~> pfPc[f] \in PackageEnded
=============================================================================
