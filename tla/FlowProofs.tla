------------------------------ MODULE FlowProofs ------------------------------
(***************************************************************************)
(* Theorems about the flows: those of one package (bayesianPackageFlow,    *)
(* newPackageFlow), for any number of them and whatever fails, and those   *)
(* of package versions, for every dependency graph, cyclic or not, every   *)
(* limit and every number of flows and failures.                           *)
(***************************************************************************)
EXTENDS BayesianFlow, PackageFlow, GolangFlow, TLAPS

USE PackageAssumption

PackageTypeOK ==
    /\ DOMAIN pfPc = PackageFlows
    /\ pfTask \in [PackageFlows -> {"none", "running", "ok", "failed"}]
    /\ pfImport \in [PackageFlows -> {"none", "running", "sent", "failed"}]
    /\ pfDoc \subseteq PackageFlows
    /\ pfS3 \in PackageFlows \cup {0}

(* Before it imports, a flow has neither sent nor uploaded anything, and   *)
(* before it inserts no analysis.                                          *)
NothingTooEarly ==
    \A f \in PackageFlows :
        /\ pfPc[f] \in {"init", "insert", "analysis", "finalize", "collect"} =>
               pfImport[f] = "none" /\ pfS3 # f
        /\ pfPc[f] \in {"init", "insert"} => f \notin pfDoc

(* What is collected does not change any more.                             *)
TasksAreOver ==
    /\ \A f \in PackageFlows : pfPc[f] \in {"finalize", "collect"} => pfTask[f] # "running"
    /\ pfS3 # 0 => pfTask[pfS3] # "running"

(* A flow that waits for its import has collected.                         *)
ImportIsCollected ==
    \A f \in pfDoc : pfPc[f] = "import" => pfTask[f] = "none" \/ pfS3 # 0

ImportIsAsked ==
    \A f \in PackageFlows : pfPc[f] = "import" => pfImport[f] # "none"

PackageInv == /\ PackageTypeOK /\ NothingTooEarly /\ TasksAreOver
              /\ ImportIsCollected /\ ImportIsAsked
              /\ GraphFollowsS3 /\ DoneHasImported /\ RecentHasFlow

(* The inductive invariant of the package-level flows.                     *)
THEOREM PackageInvariant == PackageFlowSpec => []PackageInv
<1> USE DEF PackageInv
<1>1. PackageFlowInit => PackageInv
  BY DEF PackageFlowInit, PackageTypeOK, NothingTooEarly, TasksAreOver, ImportIsCollected,
         ImportIsAsked, GraphFollowsS3, DoneHasImported, RecentHasFlow
<1>2. PackageInv /\ [PackageFlowNext]_pfVars => PackageInv'
  <2> SUFFICES ASSUME PackageInv, [PackageFlowNext]_pfVars PROVE PackageInv'
    OBVIOUS
  <2> USE DEF FlowAt
  <2>1. ASSUME NEW f \in PackageFlows, InitPackageSkips(f) PROVE PackageInv'
    <3> USE <2>1 DEF InitPackageSkips, StartImport
    <3>1. PackageTypeOK'
      BY DEF PackageTypeOK
    <3>2. NothingTooEarly' /\ TasksAreOver' /\ ImportIsAsked'
      BY DEF PackageTypeOK, NothingTooEarly, TasksAreOver, ImportIsAsked
    <3>3. f \notin pfDoc
      BY DEF NothingTooEarly
    <3>4. ImportIsCollected' /\ RecentHasFlow'
      BY <3>3 DEF PackageTypeOK, ImportIsCollected, RecentHasFlow
    <3>5. GraphFollowsS3'
      BY DEF PackageTypeOK, GraphFollowsS3
    <3>6. DoneHasImported'
      BY <3>3 DEF PackageTypeOK, DoneHasImported
    <3> QED BY <3>1, <3>2, <3>4, <3>5, <3>6
  <2>2. ASSUME NEW f \in PackageFlows, InitPackageGoesOn(f) PROVE PackageInv'
    BY <2>2 DEF InitPackageGoesOn, PackageTypeOK, NothingTooEarly, TasksAreOver, ImportIsCollected,
                ImportIsAsked, GraphFollowsS3, DoneHasImported, RecentHasFlow
  <2>3. ASSUME NEW f \in PackageFlows, InitPackageInserts(f) PROVE PackageInv'
    <3> USE <2>3 DEF InitPackageInserts
    <3>1. PackageTypeOK'
      BY DEF PackageTypeOK
    <3>2. NothingTooEarly' /\ TasksAreOver' /\ ImportIsAsked'
      BY DEF PackageTypeOK, NothingTooEarly, TasksAreOver, ImportIsAsked
    <3>3. ImportIsCollected' /\ RecentHasFlow'
      BY DEF PackageTypeOK, ImportIsCollected, RecentHasFlow
    <3>4. GraphFollowsS3' /\ DoneHasImported'
      BY DEF PackageTypeOK, GraphFollowsS3, DoneHasImported, NothingTooEarly
    <3> QED BY <3>1, <3>2, <3>3, <3>4
  <2>4. ASSUME NEW f \in PackageFlows, PackageTaskEnds(f) PROVE PackageInv'
    <3> USE <2>4 DEF PackageTaskEnds
    <3>1. PICK s \in {"ok", "failed"} : pfTask' = [pfTask EXCEPT ![f] = s]
      OBVIOUS
    <3>2. PackageTypeOK'
      BY <3>1 DEF PackageTypeOK
    <3>3. NothingTooEarly' /\ TasksAreOver' /\ ImportIsAsked' /\ DoneHasImported'
      BY <3>1 DEF PackageTypeOK, NothingTooEarly, TasksAreOver, ImportIsAsked, DoneHasImported
    <3>4. ImportIsCollected' /\ RecentHasFlow'
      BY <3>1 DEF PackageTypeOK, ImportIsCollected, RecentHasFlow
    <3>5. GraphFollowsS3'
      BY <3>1 DEF PackageTypeOK, GraphFollowsS3, TasksAreOver
    <3> QED BY <3>2, <3>3, <3>4, <3>5
  <2>5. ASSUME NEW f \in PackageFlows, PackageAnalysisEnds(f) PROVE PackageInv'
    BY <2>5 DEF PackageAnalysisEnds, PackageTypeOK, NothingTooEarly, TasksAreOver, ImportIsCollected,
                ImportIsAsked, GraphFollowsS3, DoneHasImported, RecentHasFlow
  <2>6. ASSUME NEW f \in PackageFlows, PackageFinalize(f) PROVE PackageInv'
    BY <2>6 DEF PackageFinalize, PackageTypeOK, NothingTooEarly, TasksAreOver, ImportIsCollected,
                ImportIsAsked, GraphFollowsS3, DoneHasImported, RecentHasFlow
  <2>7. ASSUME NEW f \in PackageFlows, PackageCollect(f) PROVE PackageInv'
    <3> USE <2>7 DEF PackageCollect, StartImport
    <3>1. PackageTypeOK'
      BY DEF PackageTypeOK
    <3>2. NothingTooEarly' /\ TasksAreOver' /\ ImportIsAsked'
      BY DEF PackageTypeOK, NothingTooEarly, TasksAreOver, ImportIsAsked
    <3>3. ImportIsCollected' /\ RecentHasFlow'
      BY DEF PackageTypeOK, ImportIsCollected, RecentHasFlow
    <3>4. GraphFollowsS3' /\ DoneHasImported'
      BY DEF PackageTypeOK, GraphFollowsS3, DoneHasImported
    <3> QED BY <3>1, <3>2, <3>3, <3>4
  <2>8. ASSUME NEW f \in PackageFlows, ImportEnds(f) PROVE PackageInv'
    <3> USE <2>8 DEF ImportEnds
    <3>1. PackageTypeOK'
      BY DEF PackageTypeOK
    <3>2. NothingTooEarly' /\ TasksAreOver' /\ ImportIsAsked'
      BY DEF PackageTypeOK, NothingTooEarly, TasksAreOver, ImportIsAsked
    <3>3. ImportIsCollected' /\ RecentHasFlow'
      BY DEF PackageTypeOK, ImportIsCollected, RecentHasFlow
    <3>4. GraphFollowsS3'
      BY DEF PackageTypeOK, GraphFollowsS3, ImportedBy
    <3>5. DoneHasImported'
      BY DEF PackageTypeOK, DoneHasImported
    <3> QED BY <3>1, <3>2, <3>3, <3>4, <3>5
  <2>9. ASSUME NEW f \in PackageFlows, ImportFails(f) PROVE PackageInv'
    <3> USE <2>9 DEF ImportFails, FlowTrouble
    <3>1. PackageTypeOK'
      BY DEF PackageTypeOK
    <3>2. NothingTooEarly' /\ TasksAreOver' /\ ImportIsAsked'
      BY DEF PackageTypeOK, NothingTooEarly, TasksAreOver, ImportIsAsked
    <3>3. ImportIsCollected' /\ RecentHasFlow'
      BY DEF PackageTypeOK, ImportIsCollected, RecentHasFlow
    <3>4. GraphFollowsS3' /\ DoneHasImported'
      BY DEF PackageTypeOK, GraphFollowsS3, ImportedBy, DoneHasImported
    <3> QED BY <3>1, <3>2, <3>3, <3>4
  <2>10. ASSUME NEW f \in PackageFlows, PackageFlowFails(f) PROVE PackageInv'
    <3> USE <2>10 DEF PackageFlowFails, FlowTrouble
    <3>1. pfS3' = pfS3 \/ (pfS3' = f /\ pfPc[f] = "collect" /\ pfTask[f] # "none")
      OBVIOUS
    <3>2. PackageTypeOK'
      BY <3>1 DEF PackageTypeOK
    <3>3. NothingTooEarly' /\ TasksAreOver' /\ ImportIsAsked'
      BY <3>1 DEF PackageTypeOK, NothingTooEarly, TasksAreOver, ImportIsAsked
    <3>4. ImportIsCollected' /\ RecentHasFlow'
      BY <3>1 DEF PackageTypeOK, ImportIsCollected, RecentHasFlow
    <3>5. GraphFollowsS3' /\ DoneHasImported'
      BY <3>1 DEF PackageTypeOK, GraphFollowsS3, DoneHasImported, NothingTooEarly
    <3> QED BY <3>2, <3>3, <3>4, <3>5
  <2>11. CASE UpstreamAges
    BY <2>11 DEF UpstreamAges, PackageTypeOK, NothingTooEarly, TasksAreOver, ImportIsCollected,
                 ImportIsAsked, GraphFollowsS3, DoneHasImported, RecentHasFlow
  <2>12. CASE UNCHANGED pfVars
    BY <2>12 DEF pfVars, PackageTypeOK, NothingTooEarly, TasksAreOver, ImportIsCollected,
                 ImportIsAsked, GraphFollowsS3, DoneHasImported, RecentHasFlow
  <2> QED BY <2>1, <2>2, <2>3, <2>4, <2>5, <2>6, <2>7, <2>8, <2>9, <2>10, <2>11, <2>12
          DEF PackageFlowNext, PackageRun
<1> QED BY <1>1, <1>2, PTL DEF PackageFlowSpec

(* However flows of a package overtake each other, and whichever of them   *)
(* fail or are stopped: the graph has the last good result of S3 once its  *)
(* flow has imported, a flow that ends well has asked for its import, and  *)
(* a package that flows skip as recent has been seen to.                   *)
THEOREM PackageFlowAlwaysSound == PackageFlowSpec => []PackageFlowSound
<1>1. PackageInv => PackageFlowSound
  BY DEF PackageInv, PackageFlowSound
<1> QED BY <1>1, PackageInvariant, PTL

(* A flow waits for an import that runs, never for one that has ended.     *)
WaitsForRunningImport ==
    \A f \in PackageFlows : pfPc[f] = "import" => pfImport[f] = "running"

(* Also when imports fail, and whatever the other flows do: a flow of a    *)
(* package is never left at a node that has nothing to wait for.           *)
THEOREM PackageFlowsNeverStuck == PackageFlowSpec => []WaitsForRunningImport
<1>1. PackageFlowInit => WaitsForRunningImport
  BY DEF PackageFlowInit, WaitsForRunningImport
<1>2. PackageInv /\ WaitsForRunningImport /\ [PackageFlowNext]_pfVars => WaitsForRunningImport'
  <2> SUFFICES ASSUME PackageInv, WaitsForRunningImport, [PackageFlowNext]_pfVars
               PROVE  WaitsForRunningImport'
    OBVIOUS
  <2>0. DOMAIN pfPc = PackageFlows /\ DOMAIN pfImport = PackageFlows
    BY DEF PackageInv, PackageTypeOK
  <2> USE DEF WaitsForRunningImport, FlowAt
  <2>1. ASSUME NEW f \in PackageFlows, InitPackageSkips(f) \/ PackageCollect(f)
        PROVE  WaitsForRunningImport'
    BY <2>0, <2>1 DEF InitPackageSkips, PackageCollect, StartImport
  <2>2. ASSUME NEW f \in PackageFlows, \/ InitPackageGoesOn(f) \/ InitPackageInserts(f)
                                       \/ PackageAnalysisEnds(f) \/ PackageFinalize(f)
        PROVE  WaitsForRunningImport'
    BY <2>0, <2>2 DEF InitPackageGoesOn, InitPackageInserts, PackageAnalysisEnds, PackageFinalize
  <2>3. ASSUME NEW f \in PackageFlows, ImportEnds(f) \/ ImportFails(f) PROVE WaitsForRunningImport'
    BY <2>0, <2>3 DEF ImportEnds, ImportFails
  <2>4. ASSUME NEW f \in PackageFlows, PackageFlowFails(f) PROVE WaitsForRunningImport'
    BY <2>0, <2>4 DEF PackageFlowFails
  <2>5. ASSUME NEW f \in PackageFlows, PackageTaskEnds(f) PROVE WaitsForRunningImport'
    BY <2>5 DEF PackageTaskEnds
  <2>6. CASE UpstreamAges \/ UNCHANGED pfVars
    BY <2>6 DEF UpstreamAges, pfVars
  <2> QED
    BY <2>1, <2>2, <2>3, <2>4, <2>5, <2>6 DEF PackageFlowNext, PackageRun
<1> QED
  BY <1>1, <1>2, PackageInvariant, PTL DEF PackageFlowSpec
-----------------------------------------------------------------------------
Sent(o) == o \in gfObjects \cup gfLogged

(* What a golang flow has uploaded, or lost in the log, by the node it has *)
(* come to.                                                                *)
UploadsFollowNodes ==
    \A f \in GoFlows :
        /\ gfPc[f] \in {"NewInitPackageAnlysisFlow", "NewGithubDetails",
                        "NewPackageAnalysisGraphImporterTask", "NewPackageGraphImporterTask"} =>
               Sent(GoObject("metadata", f))
        /\ gfPc[f] = "NewPackageAnalysisGraphImporterTask" /\ gfLink => Sent(GoObject("github_details", f))

EndedHasImported == \A f \in GoFlows : gfPc[f] = "done" => GoObject("metadata", f) \in gfImports

GolangInv == /\ DOMAIN gfPc = GoFlows
             /\ UploadsFollowNodes /\ EndedHasImported /\ ImportReadsUpload

(* The inductive invariant of the golang flows.                            *)
THEOREM GolangInvariant == GolangSpec => []GolangInv
<1> USE DEF GolangInv
<1>1. GolangInit => GolangInv
  BY DEF GolangInit, UploadsFollowNodes, EndedHasImported, ImportReadsUpload
<1>2. GolangInv /\ [GolangNext]_gfVars => GolangInv'
  <2> SUFFICES ASSUME GolangInv, [GolangNext]_gfVars PROVE GolangInv'
    OBVIOUS
  <2> USE DEF GolangStep, Sent
  <2>1. ASSUME NEW f \in GoFlows, NewInitPackage(f) PROVE GolangInv'
    BY <2>1 DEF NewInitPackage, UploadsFollowNodes, EndedHasImported, ImportReadsUpload
  <2>2. ASSUME NEW f \in GoFlows, NewMetaData(f) PROVE GolangInv'
    <3> DEFINE objects == {GoObject("record", f), GoObject("metadata", f)}
    <3>1. PICK lost \in SUBSET objects : /\ gfObjects' = gfObjects \cup (objects \ lost)
                                         /\ gfLogged' = gfLogged \cup lost
      BY <2>2 DEF NewMetaData, StoreData
    <3>2. Sent(GoObject("metadata", f))'
      BY <3>1
    <3>3. UploadsFollowNodes'
      BY <2>2, <3>1, <3>2 DEF NewMetaData, UploadsFollowNodes
    <3>4. EndedHasImported' /\ ImportReadsUpload'
      BY <2>2, <3>1 DEF NewMetaData, EndedHasImported, ImportReadsUpload
    <3> QED BY <2>2, <3>3, <3>4 DEF NewMetaData
  <2>3. ASSUME NEW f \in GoFlows, NewInitPackageAnlysis(f) PROVE GolangInv'
    BY <2>3 DEF NewInitPackageAnlysis, UploadsFollowNodes, EndedHasImported, ImportReadsUpload
  <2>4. ASSUME NEW f \in GoFlows, NewGithubDetails(f) PROVE GolangInv'
    <3>1. CASE gfLink
      <4> DEFINE objects == {GoObject("github_details", f)}
      <4>1. PICK lost \in SUBSET objects : /\ gfObjects' = gfObjects \cup (objects \ lost)
                                           /\ gfLogged' = gfLogged \cup lost
        BY <2>4, <3>1 DEF NewGithubDetails, StoreData
      <4>2. Sent(GoObject("github_details", f))'
        BY <4>1
      <4>3. UploadsFollowNodes'
        BY <2>4, <4>1, <4>2 DEF NewGithubDetails, UploadsFollowNodes
      <4>4. EndedHasImported' /\ ImportReadsUpload'
        BY <2>4, <4>1 DEF NewGithubDetails, EndedHasImported, ImportReadsUpload
      <4> QED BY <2>4, <4>3, <4>4 DEF NewGithubDetails
    <3>2. CASE ~gfLink
      BY <2>4, <3>2 DEF NewGithubDetails, UploadsFollowNodes, EndedHasImported, ImportReadsUpload
    <3> QED BY <3>1, <3>2
  <2>5. ASSUME NEW f \in GoFlows, ImportDetails(f) PROVE GolangInv'
    <3>1. Sent(GoObject("github_details", f)) \/ ~gfLink
      BY <2>5 DEF ImportDetails, UploadsFollowNodes
    <3>2. ImportReadsUpload'
      BY <2>5, <3>1 DEF ImportDetails, ImportReadsUpload, GoObject
    <3>3. UploadsFollowNodes' /\ EndedHasImported'
      BY <2>5 DEF ImportDetails, UploadsFollowNodes, EndedHasImported
    <3> QED BY <2>5, <3>2, <3>3 DEF ImportDetails
  <2>6. ASSUME NEW f \in GoFlows, ImportMetadata(f) PROVE GolangInv'
    <3>1. Sent(GoObject("metadata", f))
      BY <2>6 DEF ImportMetadata, UploadsFollowNodes
    <3>2. ImportReadsUpload'
      BY <2>6, <3>1 DEF ImportMetadata, ImportReadsUpload
    <3>3. UploadsFollowNodes' /\ EndedHasImported'
      BY <2>6 DEF ImportMetadata, UploadsFollowNodes, EndedHasImported
    <3> QED BY <2>6, <3>2, <3>3 DEF ImportMetadata
  <2>7. ASSUME NEW f \in GoFlows, GolangFails(f) PROVE GolangInv'
    BY <2>7 DEF GolangFails, UploadsFollowNodes, EndedHasImported, ImportReadsUpload
  <2>8. CASE UNCHANGED gfVars
    BY <2>8 DEF gfVars, UploadsFollowNodes, EndedHasImported, ImportReadsUpload
  <2> QED BY <2>1, <2>2, <2>3, <2>4, <2>5, <2>6, <2>7, <2>8 DEF GolangNext
<1> QED BY <1>1, <1>2, PTL DEF GolangSpec

(* The importer is told to read what is there, but for uploads lost in the *)
(* log and packages without a repository, and a flow that ends well leaves *)
(* no metadata out of the graph.                                           *)
THEOREM GolangAlwaysImportsRead == GolangSpec => []GolangImportsRead
<1>1. GolangInv => GolangImportsRead
  BY DEF GolangInv, EndedHasImported, GolangImportsRead, MetadataLeftHasCause
<1> QED BY <1>1, GolangInvariant, PTL
-----------------------------------------------------------------------------
USE BayesianFlowAssumption DEF Flows, PCs, Ended, Status, SnapshotStatus, tasks, deps, args

(* How the tasks of a flow follow each other, and what they leave. *)
TaskInv ==
    \A f \in Flows :
        /\ snapshot[f] # "none" => metadata[f] = "ok" /\ limit[f] > 0
        /\ chosen[f] # {} => snapshot[f] = "spawning"
        /\ resolved[f] # {} => snapshot[f] \in {"ok", "spawning", "lost"}
        /\ chosen[f] \subseteq resolved[f]
        /\ resolved[f] \subseteq Dependencies[epv[f]]
        /\ pc[f] \in {"unused", "init", "fetch"} => metadata[f] = "none" /\ digests[f] = "none"
        /\ pc[f] \in {"analysis", "finalize", "finalize_error", "collect"} => doc[f]
        /\ pc[f] = "unused" => ~doc[f] /\ parent[f] = 0

(* The root flow has been scheduled, nothing has run. *)
LEMMA InitTypes == Init => TypeOK
  <1> SUFFICES ASSUME Init PROVE TypeOK
  OBVIOUS
<1>1. used \in Flows /\ failures \in 0..MaxFailures
  BY DEF Init
<1>2. /\ epv \in [Flows -> Versions]
      /\ limit \in [Flows -> 0..Limit]
      /\ parent \in [Flows -> Flows \cup {0}]
  BY DEF Init
<1>3. /\ pc \in [Flows -> PCs]
      /\ \A f \in Flows : pc[f] = "unused" <=> f > used
  BY DEF Init
<1>4. /\ metadata \in [Flows -> Status]
      /\ digests \in [Flows -> Status]
      /\ snapshot \in [Flows -> SnapshotStatus]
  BY DEF Init
<1>5. /\ resolved \in [Flows -> SUBSET Versions]
      /\ chosen \in [Flows -> SUBSET Versions]
  BY DEF Init
<1>6. doc \in [Flows -> BOOLEAN] /\ finished \in [Flows -> BOOLEAN]
  BY DEF Init
<1> QED
  BY <1>1, <1>2, <1>3, <1>4, <1>5, <1>6 DEF TypeOK

(* A step of a flow keeps the types; a flow that schedules others has a    *)
(* limit to give away.                                                     *)
LEMMA TypeStep == TypeOK /\ TaskInv /\ [Next]_vars => TypeOK'
<1> SUFFICES ASSUME TypeOK, TaskInv, [Next]_vars PROVE TypeOK'
  OBVIOUS
<1>1. ASSUME NEW f \in Flows, Count(f) PROVE TypeOK'
  BY <1>1 DEF Count, Goto, TypeOK
<1>2. ASSUME NEW f \in Flows, Insert(f) PROVE TypeOK'
  BY <1>2 DEF Insert, Step, Goto, TypeOK
<1>3. ASSUME NEW f \in Flows, InitFails(f) \/ NodeFails(f) \/ CheckHungTask(f) PROVE TypeOK'
  <2>1. /\ pc[f] # "unused"
        /\ GiveUp(f)
    BY <1>3 DEF InitFails, NodeFails, CheckHungTask
  <2>2. failures' \in 0..MaxFailures
    BY <2>1 DEF GiveUp, TypeOK
  <2>3. /\ pc' \in [Flows -> PCs]
        /\ \A g \in Flows : pc'[g] = "unused" <=> g > used
        /\ UNCHANGED <<args, tasks, deps, doc, finished>>
    BY <2>1 DEF GiveUp, TypeOK
  <2> QED
    BY <2>2, <2>3 DEF TypeOK
<1>4. ASSUME NEW f \in Flows, MetadataEnds(f) PROVE TypeOK'
  BY <1>4 DEF MetadataEnds, TypeOK
<1>5. ASSUME NEW f \in Flows, DigestsEnds(f) PROVE TypeOK'
  BY <1>5 DEF DigestsEnds, TypeOK
<1>6. ASSUME NEW f \in Flows, ScheduleSnapshot(f) PROVE TypeOK'
  BY <1>6 DEF ScheduleSnapshot, TypeOK
<1>7. ASSUME NEW f \in Flows, SnapshotEnds(f) PROVE TypeOK'
  <2>1. resolved' \in [Flows -> SUBSET Versions]
    BY <1>7 DEF SnapshotEnds, TypeOK
  <2>2. snapshot' \in [Flows -> SnapshotStatus]
    BY <1>7 DEF SnapshotEnds, TypeOK
  <2> QED
    BY <1>7, <2>1, <2>2 DEF SnapshotEnds, TypeOK
<1>8. ASSUME NEW f \in Flows, Choose(f) PROVE TypeOK'
  <2>1. chosen' \in [Flows -> SUBSET Versions]
    BY <1>8 DEF Choose, TypeOK
  <2> QED
    BY <1>8, <2>1 DEF Choose, TypeOK
<1>9. ASSUME NEW f \in Flows, NEW d \in Versions, Spawn(f, d) PROVE TypeOK'
  <2>1. limit[f] > 0
    BY <1>9 DEF Spawn, TaskInv
  <2>2. used + 1 \in Flows /\ limit[f] - 1 \in 0..Limit
    BY <1>9, <2>1 DEF Spawn, TypeOK
  <2>3. used' \in Flows /\ \A g \in Flows : pc'[g] = "unused" <=> g > used'
    BY <1>9, <2>2 DEF Spawn, TypeOK
  <2> QED
    BY <1>9, <2>2, <2>3 DEF Spawn, TypeOK
<1>10. ASSUME NEW f \in Flows, AnalysisEnds(f) PROVE TypeOK'
  BY <1>10 DEF AnalysisEnds, Goto, TypeOK
<1>11. ASSUME NEW f \in Flows, Finalize(f) PROVE TypeOK'
  BY <1>11 DEF Finalize, Goto, TypeOK
<1>12. ASSUME NEW f \in Flows, Collect(f) PROVE TypeOK'
  BY <1>12 DEF Collect, Step, Goto, TypeOK
<1>14. ASSUME NEW f \in Flows, ChooseFails(f) PROVE TypeOK'
  BY <1>14 DEF ChooseFails, TypeOK
<1>13. CASE UNCHANGED vars
  BY <1>13 DEF vars, TypeOK
<1> QED
  BY <1>1, <1>2, <1>3, <1>4, <1>5, <1>6, <1>7, <1>8, <1>9, <1>10, <1>11, <1>12, <1>13, <1>14
     DEF Next, Run
-----------------------------------------------------------------------------
(* TaskInv is inductive. *)
LEMMA TaskStep == TypeOK /\ TaskInv /\ [Next]_vars => TaskInv'
<1> SUFFICES ASSUME TypeOK, TaskInv, [Next]_vars PROVE TaskInv'
  OBVIOUS
<1> USE DEF TypeOK, TaskInv
<1>1. ASSUME NEW f \in Flows, Count(f) PROVE TaskInv'
  BY <1>1 DEF Count, Goto
<1>2. ASSUME NEW f \in Flows, Insert(f) PROVE TaskInv'
  BY <1>2 DEF Insert, Step, Goto
<1>3. ASSUME NEW f \in Flows, InitFails(f) \/ NodeFails(f) \/ CheckHungTask(f) PROVE TaskInv'
  <2>1. UNCHANGED <<args, tasks, deps, doc>>
    BY <1>3 DEF InitFails, NodeFails, CheckHungTask, GiveUp
  <2>2. \A g \in Flows : pc'[g] = pc[g] \/ pc'[g] = "failed"
    BY <1>3 DEF InitFails, NodeFails, CheckHungTask, GiveUp
  <2> QED
    BY <2>1, <2>2
<1>4. ASSUME NEW f \in Flows, MetadataEnds(f) PROVE TaskInv'
  <2>1. snapshot[f] = "none" /\ pc[f] \notin {"unused", "init", "fetch"}
    BY <1>4 DEF MetadataEnds
  <2>2. \A g \in Flows : g # f => metadata'[g] = metadata[g]
    BY <1>4 DEF MetadataEnds
  <2>3. UNCHANGED <<args, pc, digests, snapshot, deps, doc>>
    BY <1>4 DEF MetadataEnds
  <2> QED
    BY <2>1, <2>2, <2>3
<1>5. ASSUME NEW f \in Flows, DigestsEnds(f) PROVE TaskInv'
  BY <1>5 DEF DigestsEnds
<1>6. ASSUME NEW f \in Flows, ScheduleSnapshot(f) PROVE TaskInv'
  BY <1>6 DEF ScheduleSnapshot
<1>7. ASSUME NEW f \in Flows, SnapshotEnds(f) PROVE TaskInv'
  BY <1>7 DEF SnapshotEnds
<1>8. ASSUME NEW f \in Flows, Choose(f) PROVE TaskInv'
  BY <1>8 DEF Choose
<1>9. ASSUME NEW f \in Flows, NEW d \in Versions, Spawn(f, d) PROVE TaskInv'
  <2>1. used + 1 \in Flows /\ pc[used + 1] = "unused" /\ f # used + 1
    BY <1>9 DEF Spawn
  <2>2. snapshot[used + 1] = "none" /\ chosen[used + 1] = {} /\ resolved[used + 1] = {}
    BY <2>1
  <2>3. \A g \in Flows : chosen'[g] \subseteq chosen[g]
    BY <1>9 DEF Spawn
  <2>4. \A g \in Flows : g # used + 1 =>
            epv'[g] = epv[g] /\ limit'[g] = limit[g] /\ pc'[g] = pc[g] /\ parent'[g] = parent[g]
    BY <1>9, <2>1 DEF Spawn
  <2>5. /\ pc'[used + 1] = "init"
        /\ UNCHANGED <<metadata, digests, snapshot, resolved, doc>>
    BY <1>9, <2>1 DEF Spawn
  <2> QED
    BY <2>1, <2>2, <2>3, <2>4, <2>5
<1>10. ASSUME NEW f \in Flows, AnalysisEnds(f) PROVE TaskInv'
  BY <1>10 DEF AnalysisEnds, Settled, Goto
<1>11. ASSUME NEW f \in Flows, Finalize(f) PROVE TaskInv'
  BY <1>11 DEF Finalize, Goto
<1>12. ASSUME NEW f \in Flows, Collect(f) PROVE TaskInv'
  BY <1>12 DEF Collect, Step, Goto
<1>14. ASSUME NEW f \in Flows, ChooseFails(f) PROVE TaskInv'
  BY <1>14 DEF ChooseFails
<1>13. CASE UNCHANGED vars
  BY <1>13 DEF vars
<1> HIDE DEF TypeOK, TaskInv
<1> QED
  BY <1>1, <1>2, <1>3, <1>4, <1>5, <1>6, <1>7, <1>8, <1>9, <1>10, <1>11, <1>12, <1>13, <1>14
     DEF Next, Run

(* Types and tasks hold together. *)
THEOREM Inductive == Spec => [](TypeOK /\ TaskInv)
<1>1. Init => TaskInv
  BY DEF Init, TaskInv
<1> QED
  BY <1>1, InitTypes, TypeStep, TaskStep, PTL DEF Spec

(* Every variable keeps its type: in particular no flow has a limit below  *)
(* zero, or is scheduled twice.                                            *)
THEOREM TypeCorrect == Spec => []TypeOK
BY Inductive, PTL

-----------------------------------------------------------------------------
(* A flow does not go on while its tasks run. *)
LEMMA CollectStep == TypeOK /\ TaskInv /\ CollectAfterTasks /\ [Next]_vars => CollectAfterTasks'
<1> SUFFICES ASSUME TypeOK, TaskInv, CollectAfterTasks, [Next]_vars PROVE CollectAfterTasks'
  OBVIOUS
<1> USE DEF TypeOK, TaskInv, CollectAfterTasks, AfterAnalysis
<1>1. ASSUME NEW f \in Flows, Count(f) PROVE CollectAfterTasks'
  BY <1>1 DEF Count, Goto
<1>2. ASSUME NEW f \in Flows, Insert(f) PROVE CollectAfterTasks'
  BY <1>2 DEF Insert, Step, Goto
<1>3. ASSUME NEW f \in Flows, InitFails(f) \/ NodeFails(f) \/ CheckHungTask(f) PROVE CollectAfterTasks'
  BY <1>3 DEF InitFails, NodeFails, CheckHungTask, GiveUp
<1>4. ASSUME NEW f \in Flows, MetadataEnds(f) PROVE CollectAfterTasks'
  BY <1>4 DEF MetadataEnds
<1>5. ASSUME NEW f \in Flows, DigestsEnds(f) PROVE CollectAfterTasks'
  BY <1>5 DEF DigestsEnds
<1>6. ASSUME NEW f \in Flows, ScheduleSnapshot(f) PROVE CollectAfterTasks'
  BY <1>6 DEF ScheduleSnapshot
<1>7. ASSUME NEW f \in Flows, SnapshotEnds(f) PROVE CollectAfterTasks'
  BY <1>7 DEF SnapshotEnds
<1>8. ASSUME NEW f \in Flows, Choose(f) PROVE CollectAfterTasks'
  BY <1>8 DEF Choose
<1>9. ASSUME NEW f \in Flows, NEW d \in Versions, Spawn(f, d) PROVE CollectAfterTasks'
  BY <1>9 DEF Spawn
<1>10. ASSUME NEW f \in Flows, AnalysisEnds(f) PROVE CollectAfterTasks'
  BY <1>10 DEF AnalysisEnds, Settled, Goto
<1>11. ASSUME NEW f \in Flows, Finalize(f) PROVE CollectAfterTasks'
  BY <1>11 DEF Finalize, Goto
<1>12. ASSUME NEW f \in Flows, Collect(f) PROVE CollectAfterTasks'
  BY <1>12 DEF Collect, Step, Goto
<1>14. ASSUME NEW f \in Flows, ChooseFails(f) PROVE CollectAfterTasks'
  BY <1>14 DEF ChooseFails
<1>13. CASE UNCHANGED vars
  BY <1>13 DEF vars
<1> HIDE DEF TypeOK, TaskInv, CollectAfterTasks, AfterAnalysis
<1> QED
  BY <1>1, <1>2, <1>3, <1>4, <1>5, <1>6, <1>7, <1>8, <1>9, <1>10, <1>11, <1>12, <1>13, <1>14
     DEF Next, Run

(* The results of an analysis are collected when none of its tasks runs.   *)
THEOREM CollectsAfterTasks == Spec => []CollectAfterTasks
<1>1. Init => CollectAfterTasks
  BY DEF Init, CollectAfterTasks, AfterAnalysis
<1> QED
  BY <1>1, CollectStep, Inductive, PTL DEF Spec

-----------------------------------------------------------------------------
(* The flows implement Ingestion.  A flow that was scheduled has the root  *)
(* or a dependency of a version that has its analysis.                     *)
OriginInv ==
    \A f \in Flows : pc[f] # "unused" =>
        (epv[f] = Root /\ limit[f] = Limit) \/ Promise!HasDependant(epv[f], limit[f])

(* Only Insert adds an analysis, and none is lost or changes its limit.    *)
LEMMA IngestedSteps ==
    ASSUME TypeOK, TaskInv, [Next]_vars
    PROVE  \/ \E f \in Flows :
                 /\ pc[f] = "fetch" /\ UNCHANGED <<epv, limit>>
                 /\ \A g \in Flows : pc'[g] = "unused" <=> pc[g] = "unused"
                 /\ Ingested' = Ingested \cup {[version |-> epv[f], limit |-> limit[f]]}
           \/ \E f \in Flows, d \in Versions : Spawn(f, d) /\ Ingested' = Ingested
           \/ /\ UNCHANGED <<epv, limit>> /\ Ingested' = Ingested
              /\ \A g \in Flows : pc'[g] = "unused" <=> pc[g] = "unused"
<1>1. ASSUME NEW f \in Flows, Insert(f)
      PROVE  /\ pc[f] = "fetch" /\ UNCHANGED <<epv, limit>>
             /\ \A g \in Flows : pc'[g] = "unused" <=> pc[g] = "unused"
             /\ Ingested' = Ingested \cup {[version |-> epv[f], limit |-> limit[f]]}
  <2>1. pc[f] = "fetch" /\ UNCHANGED <<epv, limit>> /\ doc' = [doc EXCEPT ![f] = TRUE]
    BY <1>1 DEF Insert, Step
  <2>2. {g \in Flows : doc'[g]} = {g \in Flows : doc[g]} \cup {f}
    BY <2>1 DEF TypeOK
  <2>3. Ingested' = Ingested \cup {[version |-> epv[f], limit |-> limit[f]]}
    BY <2>1, <2>2 DEF Ingested
  <2>4. \A g \in Flows : pc'[g] = "unused" <=> pc[g] = "unused"
    BY <1>1 DEF Insert, Step, Goto, TypeOK
  <2> QED
    BY <2>1, <2>3, <2>4
<1>2. ASSUME NEW f \in Flows, NEW d \in Versions, Spawn(f, d) PROVE Ingested' = Ingested
  <2>1. used + 1 \in Flows /\ ~doc[used + 1] /\ UNCHANGED doc
    BY <1>2 DEF Spawn, TypeOK, TaskInv
  <2>2. \A g \in {h \in Flows : doc[h]} : epv'[g] = epv[g] /\ limit'[g] = limit[g]
    BY <1>2, <2>1 DEF Spawn, TypeOK
  <2> QED
    BY <2>1, <2>2 DEF Ingested
<1>3. CASE UNCHANGED <<epv, limit, doc>> /\ \A g \in Flows : pc'[g] = "unused" <=> pc[g] = "unused"
  BY <1>3 DEF Ingested
<1>4. \/ \E f \in Flows : Insert(f)
      \/ \E f \in Flows, d \in Versions : Spawn(f, d)
      \/ UNCHANGED <<epv, limit, doc>> /\ \A g \in Flows : pc'[g] = "unused" <=> pc[g] = "unused"
  <2>1. ASSUME NEW f \in Flows, Count(f) \/ AnalysisEnds(f) \/ Finalize(f) \/ Collect(f)
        PROVE  UNCHANGED <<epv, limit, doc>> /\ \A g \in Flows : pc'[g] = "unused" <=> pc[g] = "unused"
    BY <2>1 DEF Count, AnalysisEnds, Finalize, Collect, Step, Goto, TypeOK
  <2>2. ASSUME NEW f \in Flows, InitFails(f) \/ NodeFails(f) \/ CheckHungTask(f)
        PROVE  UNCHANGED <<epv, limit, doc>> /\ \A g \in Flows : pc'[g] = "unused" <=> pc[g] = "unused"
    BY <2>2 DEF InitFails, NodeFails, CheckHungTask, GiveUp, TypeOK
  <2>3. ASSUME NEW f \in Flows, \/ MetadataEnds(f) \/ DigestsEnds(f) \/ ScheduleSnapshot(f)
                                \/ SnapshotEnds(f) \/ Choose(f) \/ ChooseFails(f)
        PROVE  UNCHANGED <<epv, limit, doc, pc>>
    BY <2>3 DEF MetadataEnds, DigestsEnds, ScheduleSnapshot, SnapshotEnds, Choose, ChooseFails
  <2>4. UNCHANGED vars => UNCHANGED <<epv, limit, doc, pc>>
    BY DEF vars
  <2>5. [Next]_vars
    OBVIOUS
  <2> QED
    BY <2>1, <2>2, <2>3, <2>4, <2>5 DEF Next, Run
<1> QED
  BY <1>1, <1>2, <1>3, <1>4

(* OriginInv is inductive.                                                 *)
LEMMA OriginStep == TypeOK /\ TaskInv /\ OriginInv /\ [Next]_vars => OriginInv'
<1> SUFFICES ASSUME TypeOK, TaskInv, OriginInv, [Next]_vars, NEW g \in Flows, pc'[g] # "unused"
             PROVE  \/ epv'[g] = Root /\ limit'[g] = Limit
                    \/ Promise!HasDependant(epv[g], limit[g])'
  BY DEF OriginInv
<1>1. Ingested \subseteq Ingested'
  BY IngestedSteps
<1>2. CASE pc[g] # "unused" /\ epv'[g] = epv[g] /\ limit'[g] = limit[g]
  BY <1>1, <1>2 DEF OriginInv, Promise!HasDependant
<1>3. ASSUME NEW f \in Flows, NEW d \in Versions, Spawn(f, d)
      PROVE  \/ epv'[g] = Root /\ limit'[g] = Limit
             \/ Promise!HasDependant(epv[g], limit[g])'
  <2>1. CASE g # used + 1
    <3>1. pc[g] # "unused" /\ epv'[g] = epv[g] /\ limit'[g] = limit[g]
      BY <1>3, <2>1 DEF Spawn, TypeOK
    <3> QED
      BY <3>1, <1>2
  <2>2. CASE g = used + 1
    <3>1. epv'[g] = d /\ limit'[g] = limit[f] - 1
      BY <1>3, <2>2 DEF Spawn, TypeOK
    <3>a. pc[f] = "analysis" /\ d \in chosen[f]
      BY <1>3 DEF Spawn
    <3>b. doc[f] /\ d \in resolved[f] /\ snapshot[f] = "spawning"
      BY <3>a DEF TaskInv
    <3>2. doc[f] /\ d \in Dependencies[epv[f]] /\ limit[f] > 0 /\ limit[f] \in 0..Limit
      BY <3>b DEF TypeOK, TaskInv
    <3> DEFINE i == [version |-> epv[f], limit |-> limit[f]]
    <3>3. i \in Ingested'
      BY <3>2, <1>1 DEF Ingested
    <3>4. epv'[g] \in Dependencies[i.version] /\ i.limit = limit'[g] + 1
      BY <3>1, <3>2
    <3> HIDE DEF i
    <3> QED
      BY <3>3, <3>4 DEF Promise!HasDependant
  <2> QED
    BY <2>1, <2>2
<1> QED
  BY <1>2, <1>3, IngestedSteps

(* Each step of the flows ingests what Ingestion may, or nothing.          *)
LEMMA IngestionStep ==
    TypeOK /\ TaskInv /\ OriginInv /\ [Next]_vars => [Promise!Next]_Ingested
<1> SUFFICES ASSUME TypeOK, TaskInv, OriginInv, [Next]_vars, Ingested' # Ingested
             PROVE  Promise!Next
  OBVIOUS
<1>1. PICK f \in Flows : /\ pc[f] = "fetch"
                         /\ Ingested' = Ingested \cup {[version |-> epv[f], limit |-> limit[f]]}
  BY IngestedSteps
<1>2. Promise!Ingest(epv[f], limit[f])
  BY <1>1 DEF OriginInv, Promise!Ingest
<1>3. epv[f] \in Versions /\ limit[f] \in 0..Limit
  BY DEF TypeOK
<1> QED
  BY <1>2, <1>3 DEF Promise!Next

(* In whatever order flows run and however the graph loops, an analysis is *)
(* made of the root or of a dependency of a version that has its analysis, *)
(* with one less of recursive_limit: the flows implement Ingestion.        *)
THEOREM KeepsIngestionPromise == Spec => FollowsDependencies
<1>1. Init => OriginInv /\ Promise!Init
  <2> SUFFICES ASSUME Init PROVE OriginInv /\ Promise!Init
    OBVIOUS
  <2>1. OriginInv
    BY DEF Init, OriginInv
  <2>2. {g \in Flows : doc[g]} = {}
    BY DEF Init
  <2> QED
    BY <2>1, <2>2 DEF Ingested, Promise!Init
<1> QED
  BY <1>1, OriginStep, IngestionStep, Inductive, PTL DEF Spec, FollowsDependencies, Promise!Spec

-----------------------------------------------------------------------------
(* A path may wait at the root. *)
LEMMA WithinRoot == \A n \in Nat : Root \in Within(n)
<1> SUFFICES ASSUME NEW n \in Nat PROVE Root \in Within(n)
  OBVIOUS
<1> DEFINE p == [i \in 0..n |-> Root]
<1>1. p \in [0..n -> Versions] /\ Path(p, n) /\ p[n] = Root
  BY DEF Path
<1> QED
  BY <1>1 DEF Within

(* A dependency of what n steps lead to is within n + 1 steps. *)
LEMMA WithinStep ==
    ASSUME NEW n \in Nat, NEW e \in Within(n), NEW d \in Dependencies[e]
    PROVE  d \in Within(n + 1)
<1>1. PICK p \in [0..n -> Versions] : Path(p, n) /\ p[n] = e
  BY DEF Within
<1> DEFINE q == [i \in 0..(n + 1) |-> IF i <= n THEN p[i] ELSE d]
<1>2. e \in Versions /\ d \in Versions
  BY DEF Within
<1>3. q \in [0..(n + 1) -> Versions] /\ q[0] = Root /\ q[n + 1] = d
  BY <1>1, <1>2 DEF Path
<1>4. ASSUME NEW i \in 0..(n + 1), i < n + 1
      PROVE  q[i + 1] \in Dependencies[q[i]] \cup {q[i]}
  <2>1. CASE i < n
    BY <2>1, <1>1 DEF Path
  <2>2. CASE i = n
    BY <2>2, <1>1
  <2> QED
    BY <1>4, <2>1, <2>2
<1>5. Path(q, n + 1)
  BY <1>3, <1>4 DEF Path
<1> QED
  BY <1>2, <1>3, <1>5 DEF Within

(* More steps lead to no fewer versions. *)
LEMMA WithinMonotone ==
    ASSUME NEW n \in Nat, NEW m \in Nat, n <= m PROVE Within(n) \subseteq Within(m)
<1> SUFFICES ASSUME NEW e \in Within(n) PROVE e \in Within(m)
  OBVIOUS
<1>1. PICK p \in [0..n -> Versions] : Path(p, n) /\ p[n] = e
  BY DEF Within
<1> DEFINE q == [i \in 0..m |-> IF i <= n THEN p[i] ELSE e]
<1>2. e \in Versions
  BY DEF Within
<1>3. q \in [0..m -> Versions] /\ q[0] = Root /\ q[m] = e
  BY <1>1, <1>2 DEF Path
<1>4. ASSUME NEW i \in 0..m, i < m PROVE q[i + 1] \in Dependencies[q[i]] \cup {q[i]}
  <2>1. CASE i < n
    BY <2>1, <1>1 DEF Path
  <2>2. CASE i >= n
    <3>1. q[i] = e /\ q[i + 1] = e
      BY <2>2, <1>1, <1>4
    <3> QED
      BY <3>1
  <2> QED
    BY <1>4, <2>1, <2>2
<1>5. Path(q, m)
  BY <1>3, <1>4 DEF Path
<1> QED
  BY <1>2, <1>3, <1>5 DEF Within

(* What is spent of the limit is the length of a way to the version.       *)
WaysAreShort ==
    \A i \in Ingested : i.limit \in 0..Limit /\ i.version \in Within(Limit - i.limit)

(* Ingestion alone, without the flows, never leads farther than the limit. *)
LEMMA WaysStayShort == FollowsDependencies => []WaysAreShort
<1>1. Promise!Init => WaysAreShort
  BY DEF Promise!Init, WaysAreShort
<1>2. WaysAreShort /\ [Promise!Next]_Ingested => WaysAreShort'
  <2> SUFFICES ASSUME WaysAreShort, [Promise!Next]_Ingested, NEW i \in Ingested'
               PROVE  i.limit \in 0..Limit /\ i.version \in Within(Limit - i.limit)
    BY DEF WaysAreShort
  <2>1. CASE i \in Ingested
    BY <2>1 DEF WaysAreShort
  <2>2. CASE i \notin Ingested
    <3>1. PICK e \in Versions, n \in 0..Limit : Promise!Ingest(e, n)
      BY <2>2 DEF Promise!Next
    <3>2. i.version = e /\ i.limit = n
      BY <2>2, <3>1 DEF Promise!Ingest
    <3>3. CASE e = Root /\ n = Limit
      <4>1. Limit - n \in Nat
        BY <3>3
      <4> QED
        BY <3>2, <3>3, <4>1, WithinRoot
    <3>4. ASSUME NEW j \in Ingested, e \in Dependencies[j.version], j.limit = n + 1
          PROVE  e \in Within(Limit - n)
      <4>1. j.limit \in 0..Limit /\ j.version \in Within(Limit - j.limit)
        BY DEF WaysAreShort
      <4>2. Limit - j.limit \in Nat /\ (Limit - j.limit) + 1 = Limit - n
        BY <4>1, <3>4
      <4> QED
        BY <4>1, <4>2, <3>4, WithinStep
    <3> QED
      BY <3>1, <3>2, <3>3, <3>4 DEF Promise!Ingest, Promise!HasDependant
  <2> QED
    BY <2>1, <2>2
<1> QED
  BY <1>1, <1>2, PTL DEF FollowsDependencies, Promise!Spec

(* Recursion stays within recursive_limit in every dependency graph: what  *)
(* implements Ingestion does.                                              *)
THEOREM StaysWithinLimit == Spec => []AnalysedWithinLimit
<1>1. WaysAreShort => AnalysedWithinLimit
  <2> SUFFICES ASSUME WaysAreShort, NEW f \in Flows, doc[f] PROVE epv[f] \in Within(Limit)
    BY DEF AnalysedWithinLimit, WithinLimit
  <2> DEFINE i == [version |-> epv[f], limit |-> limit[f]]
  <2>1. i \in Ingested
    BY DEF Ingested
  <2>2. limit[f] \in 0..Limit /\ epv[f] \in Within(Limit - limit[f])
    BY <2>1 DEF WaysAreShort
  <2>3. Limit - limit[f] \in Nat /\ Limit - limit[f] <= Limit
    BY <2>2
  <2> QED
    BY <2>2, <2>3, WithinMonotone
<1> QED
  BY <1>1, WaysStayShort, KeepsIngestionPromise, PTL

-----------------------------------------------------------------------------
(* The flows implement InitPromise.                                        *)

(* Before its analysis a flow has none, and one that ended well with none  *)
(* was skipped.                                                            *)
DocFollowsFlow == \A f \in Flows : pc[f] \in {"unused", "init", "fetch"} => ~doc[f]

(* DocFollowsFlow is inductive.                                            *)
LEMMA DocStep == TypeOK /\ DocFollowsFlow /\ [Next]_vars => DocFollowsFlow'
<1> SUFFICES ASSUME TypeOK, DocFollowsFlow, [Next]_vars PROVE DocFollowsFlow'
  OBVIOUS
<1> USE DEF TypeOK, DocFollowsFlow
<1>1. ASSUME NEW f \in Flows, Count(f) \/ AnalysisEnds(f) \/ Finalize(f) \/ Collect(f)
      PROVE  DocFollowsFlow'
  BY <1>1 DEF Count, AnalysisEnds, Finalize, Collect, Step, Goto
<1>2. ASSUME NEW f \in Flows, InitFails(f) \/ NodeFails(f) \/ CheckHungTask(f)
      PROVE  DocFollowsFlow'
  BY <1>2 DEF InitFails, NodeFails, CheckHungTask, GiveUp
<1>3. ASSUME NEW f \in Flows, Insert(f) PROVE DocFollowsFlow'
  BY <1>3 DEF Insert, Step, Goto
<1>4. ASSUME NEW f \in Flows, \/ MetadataEnds(f) \/ DigestsEnds(f) \/ ScheduleSnapshot(f)
                              \/ SnapshotEnds(f) \/ Choose(f) \/ ChooseFails(f)
      PROVE  UNCHANGED <<pc, doc>>
  BY <1>4 DEF MetadataEnds, DigestsEnds, ScheduleSnapshot, SnapshotEnds, Choose, ChooseFails
<1>5. ASSUME NEW f \in Flows, NEW d \in Versions, Spawn(f, d) PROVE DocFollowsFlow'
  BY <1>5 DEF Spawn
<1>6. CASE UNCHANGED <<pc, doc>>
  BY <1>6
<1>7. UNCHANGED vars => UNCHANGED <<pc, doc>>
  BY DEF vars
<1> HIDE DEF TypeOK, DocFollowsFlow
<1> QED
  BY <1>1, <1>2, <1>3, <1>4, <1>5, <1>6, <1>7 DEF Next, Run

(* Each step of the flows is one of InitPromise or none of its business.   *)
LEMMA InitOnceStep ==
    ASSUME TypeOK, TaskInv, DocFollowsFlow, [Next]_vars
    PROVE  [Initialisation!Next]_<<epv, IsForced, InitOutcome>>
(* One flow moves; the others stay what they are. *)
<1>1. ASSUME NEW f \in Flows, NEW to \in PCs, pc' = [pc EXCEPT ![f] = to],
             doc' = [doc EXCEPT ![f] = doc'[f]]
      PROVE  InitOutcome' = [InitOutcome EXCEPT ![f] = InitOutcomeOf(f)']
  <2>1. ASSUME NEW g \in Flows, g # f PROVE InitOutcomeOf(g)' = InitOutcomeOf(g)
    BY <1>1, <2>1 DEF InitOutcomeOf, TypeOK
  <2> QED
    BY <2>1 DEF InitOutcome
<1>2. UNCHANGED IsForced /\ \A f \in Flows : InitOutcome[f] = InitOutcomeOf(f)
  BY DEF IsForced, InitOutcome
<1>3. ASSUME NEW f \in Flows, NEW to \in PCs, Goto(f, to), UNCHANGED <<doc, epv>>
      PROVE  /\ pc'[f] = to /\ doc'[f] = doc[f]
             /\ InitOutcome' = [InitOutcome EXCEPT ![f] = InitOutcomeOf(f)']
  <2>1. pc'[f] = to /\ doc' = [doc EXCEPT ![f] = doc'[f]]
    BY <1>3 DEF Goto, TypeOK
  <2> QED
    BY <1>1, <1>3, <2>1 DEF Goto
<1>4. ASSUME NEW f \in Flows, Count(f) PROVE Initialisation!Next
  <2>1. pc[f] = "init" /\ ~doc[f] /\ UNCHANGED <<doc, epv>>
    BY <1>4 DEF Count, DocFollowsFlow
  <2>2. InitOutcome[f] = "ready"
    BY <1>2, <2>1 DEF InitOutcomeOf
  <2>3. Initialisation!Analysed(epv[f]) <=> Analysed(epv[f])
    <3>1. \A g \in Flows : InitOutcome[g] = "analysed" <=> doc[g]
      BY <1>2 DEF InitOutcomeOf, TypeOK
    <3> QED
      BY <3>1 DEF Initialisation!Analysed, Analysed
  <2>4. IsForced[f] <=> Forced /\ f = 1
    BY DEF IsForced
  <2>5. CASE Analysed(epv[f]) /\ ~(Forced /\ f = 1)
    <3>1. Goto(f, "done") /\ "done" \in PCs
      BY <1>4, <2>5 DEF Count
    <3>2. InitOutcomeOf(f)' = "skipped" /\ InitOutcome' = [InitOutcome EXCEPT ![f] = InitOutcomeOf(f)']
      BY <1>3, <2>1, <3>1 DEF InitOutcomeOf
    <3>3. Initialisation!Count(f)
      BY <1>2, <2>1, <2>2, <2>3, <2>4, <2>5, <3>2
         DEF Initialisation!Count, Initialisation!Move
    <3> QED
      BY <3>3 DEF Initialisation!Next
  <2>6. CASE ~(Analysed(epv[f]) /\ ~(Forced /\ f = 1))
    <3>1. Goto(f, "fetch") /\ "fetch" \in PCs
      BY <1>4, <2>6 DEF Count
    <3>2. InitOutcomeOf(f)' = "counted" /\ InitOutcome' = [InitOutcome EXCEPT ![f] = InitOutcomeOf(f)']
      BY <1>3, <2>1, <3>1 DEF InitOutcomeOf
    <3>3. Initialisation!Count(f)
      BY <1>2, <2>1, <2>2, <2>3, <2>4, <2>6, <3>2
         DEF Initialisation!Count, Initialisation!Move
    <3> QED
      BY <3>3 DEF Initialisation!Next
  <2> QED
    BY <2>5, <2>6
<1>5. ASSUME NEW f \in Flows, Insert(f) PROVE Initialisation!Next
  <2>1. /\ pc[f] = "fetch" /\ ~doc[f] /\ Goto(f, "analysis") /\ UNCHANGED epv
        /\ doc' = [doc EXCEPT ![f] = TRUE]
    BY <1>5 DEF Insert, Step, DocFollowsFlow
  <2>2. doc'[f] /\ doc' = [doc EXCEPT ![f] = doc'[f]] /\ "analysis" \in PCs
    BY <2>1 DEF TypeOK
  <2>3. InitOutcome[f] = "counted" /\ InitOutcomeOf(f)' = "analysed"
    BY <1>2, <2>1, <2>2 DEF InitOutcomeOf
  <2>4. InitOutcome' = [InitOutcome EXCEPT ![f] = "analysed"]
    BY <1>1, <2>1, <2>2, <2>3 DEF Goto
  <2>5. Initialisation!Add(f)
    BY <1>2, <2>1, <2>3, <2>4 DEF Initialisation!Add, Initialisation!Move
  <2> QED
    BY <2>5 DEF Initialisation!Next
<1>6. ASSUME NEW f \in Flows, InitFails(f) \/ NodeFails(f) \/ CheckHungTask(f)
      PROVE  Initialisation!Next \/ UNCHANGED <<epv, IsForced, InitOutcome>>
  <2>1. pc[f] \notin Ended /\ Goto(f, "failed") /\ "failed" \in PCs /\ UNCHANGED <<doc, epv>>
    BY <1>6 DEF InitFails, NodeFails, CheckHungTask, GiveUp, Goto
  <2>2. /\ pc'[f] = "failed" /\ doc'[f] = doc[f]
        /\ InitOutcome' = [InitOutcome EXCEPT ![f] = InitOutcomeOf(f)']
    BY <1>3, <2>1
  <2>3. CASE doc[f]
    <3>1. InitOutcomeOf(f)' = InitOutcomeOf(f)
      BY <2>2, <2>3 DEF InitOutcomeOf
    <3> QED
      BY <1>2, <2>1, <2>2, <3>1 DEF InitOutcome
  <2>4. CASE ~doc[f]
    <3>1. pc[f] \in {"init", "fetch"}
      BY <2>1, <2>4 DEF TaskInv, TypeOK
    <3>2. InitOutcome[f] \in {"ready", "counted"} /\ InitOutcomeOf(f)' = "failed"
      BY <1>2, <2>2, <2>4, <3>1 DEF InitOutcomeOf
    <3>3. Initialisation!Fail(f)
      BY <1>2, <2>1, <2>2, <3>2 DEF Initialisation!Fail, Initialisation!Move
    <3> QED
      BY <3>3 DEF Initialisation!Next
  <2> QED
    BY <2>3, <2>4
<1>7. ASSUME NEW f \in Flows, AnalysisEnds(f) \/ Finalize(f) \/ Collect(f)
      PROVE  UNCHANGED <<epv, IsForced, InitOutcome>>
  <2>1. /\ pc[f] \in {"analysis", "finalize", "finalize_error", "collect"}
        /\ UNCHANGED <<doc, epv>> /\ \E to \in PCs : Goto(f, to)
    BY <1>7 DEF AnalysisEnds, Finalize, Collect, Step
  <2>2. doc[f]
    BY <2>1 DEF TaskInv
  <2>3. doc'[f] /\ InitOutcome' = [InitOutcome EXCEPT ![f] = InitOutcomeOf(f)']
    BY <1>3, <2>1, <2>2
  <2>4. InitOutcomeOf(f)' = InitOutcomeOf(f)
    BY <2>2, <2>3 DEF InitOutcomeOf
  <2> QED
    BY <1>2, <2>1, <2>3, <2>4 DEF InitOutcome
<1>8. ASSUME NEW f \in Flows, \/ MetadataEnds(f) \/ DigestsEnds(f) \/ ScheduleSnapshot(f)
                              \/ SnapshotEnds(f) \/ Choose(f) \/ ChooseFails(f)
      PROVE  UNCHANGED <<epv, IsForced, InitOutcome>>
  <2>1. UNCHANGED <<epv, pc, doc>>
    BY <1>8 DEF MetadataEnds, DigestsEnds, ScheduleSnapshot, SnapshotEnds, Choose, ChooseFails
  <2> QED
    BY <1>2, <2>1 DEF InitOutcome, InitOutcomeOf
<1>9. ASSUME NEW f \in Flows, NEW d \in Versions, Spawn(f, d) PROVE Initialisation!Next
  <2>0. PICK new \in Flows : new = used + 1
    BY <1>9 DEF Spawn, TypeOK
  <2>1. /\ new \in Flows /\ pc[new] = "unused" /\ pc' = [pc EXCEPT ![new] = "init"]
        /\ epv' = [epv EXCEPT ![new] = d] /\ UNCHANGED doc
    BY <1>9, <2>0 DEF Spawn, TypeOK
  <2>2. ~doc[new] /\ pc'[new] = "init" /\ doc' = [doc EXCEPT ![new] = doc'[new]] /\ "init" \in PCs
    BY <2>1 DEF DocFollowsFlow, TypeOK
  <2>3. InitOutcome[new] = "ready" /\ InitOutcomeOf(new)' = "ready"
    BY <1>2, <2>1, <2>2 DEF InitOutcomeOf
  <2>4. InitOutcome' = [InitOutcome EXCEPT ![new] = InitOutcomeOf(new)']
    BY <1>1, <2>1, <2>2
  <2>5. UNCHANGED InitOutcome
    BY <2>1, <2>3, <2>4 DEF InitOutcome
  <2>6. Initialisation!Assign(new, d)
    BY <1>2, <2>1, <2>3, <2>5 DEF Initialisation!Assign
  <2> QED
    BY <2>1, <2>6 DEF Initialisation!Next
<1>10. CASE UNCHANGED vars
  BY <1>2, <1>10 DEF vars, InitOutcome, InitOutcomeOf
<1> QED
  BY <1>4, <1>5, <1>6, <1>7, <1>8, <1>9, <1>10 DEF Next, Run

(* The initialisation that the recursion is built on is the promise that   *)
(* InitAnalysis implements, whatever flows, tasks and failures interleave. *)
THEOREM AlwaysInitialisesOnce == Spec => InitialisesOnce
<1>1. Init => DocFollowsFlow /\ Initialisation!Init
  BY DEF Init, DocFollowsFlow, Initialisation!Init, InitOutcome, InitOutcomeOf
<1> QED
  BY <1>1, DocStep, InitOnceStep, Inductive, PTL DEF Spec, InitialisesOnce, Initialisation!Spec

(* The flows keep both promises, in every dependency graph.                *)
THEOREM AlwaysKeepsPromises == Spec => KeepsPromises
BY KeepsIngestionPromise, AlwaysInitialisesOnce DEF KeepsPromises

-----------------------------------------------------------------------------
(* A dependency has an analysis, or is in the hands of the flow.           *)
Child(f, d) == \E g \in Flows : parent[g] = f /\ epv[g] = d /\ pc[g] # "done"
Settles(f) == \/ resolved[f] = {} \/ snapshot[f] = "lost"
              \/ snapshot[f] = "spawning" /\ chosen[f] = {}
CoverInv ==
    /\ \A f \in Flows : snapshot[f] = "spawning" =>
          \A d \in resolved[f] : d \in chosen[f] \/ Analysed(d) \/ Child(f, d)
    /\ \A f \in Flows : pc[f] \in AfterAnalysis =>
          Settles(f)

(* What has been seen to stays so: analyses are not removed, and a flow    *)
(* that is done leaves one.                                                *)
LEMMA CoveredStays ==
    TypeOK /\ TaskInv /\ [Next]_vars =>
        \A f \in Flows, d \in Versions :
            Analysed(d) \/ Child(f, d) => Analysed(d)' \/ Child(f, d)'
<1> SUFFICES ASSUME TypeOK, TaskInv, [Next]_vars, NEW f \in Flows, NEW d \in Versions,
                    Analysed(d) \/ Child(f, d)
             PROVE  Analysed(d)' \/ Child(f, d)'
  OBVIOUS
<1>1. ASSUME NEW g \in Flows, NEW e \in Versions, Spawn(g, e)
      PROVE  Analysed(d)' \/ Child(f, d)'
  <2>1. used + 1 \in Flows /\ ~doc[used + 1] /\ parent[used + 1] = 0
    BY <1>1 DEF Spawn, TypeOK, TaskInv
  <2>2. UNCHANGED doc
    BY <1>1 DEF Spawn
  <2>3. \A h \in Flows : h # used + 1 =>
            epv'[h] = epv[h] /\ pc'[h] = pc[h] /\ parent'[h] = parent[h]
    BY <1>1, <2>1 DEF Spawn, TypeOK
  <2> QED
    BY <2>1, <2>2, <2>3 DEF Analysed, Child
<1>2. ASSUME UNCHANGED <<epv, parent>>,
             \A g \in Flows : doc[g] => doc'[g],
             \A g \in Flows : pc'[g] = "done" => pc[g] = "done" \/ doc[g] \/ Analysed(epv[g])
      PROVE  Analysed(d)' \/ Child(f, d)'
  BY <1>2 DEF Analysed, Child
<1>3. ASSUME NEW g \in Flows, Count(g) PROVE Analysed(d)' \/ Child(f, d)'
  BY <1>2, <1>3 DEF Count, Goto, TypeOK
<1>4. ASSUME NEW g \in Flows, Insert(g) PROVE Analysed(d)' \/ Child(f, d)'
  BY <1>2, <1>4 DEF Insert, Step, Goto, TypeOK
<1>5. ASSUME NEW g \in Flows, InitFails(g) \/ NodeFails(g) \/ CheckHungTask(g)
      PROVE  Analysed(d)' \/ Child(f, d)'
  BY <1>2, <1>5 DEF InitFails, NodeFails, CheckHungTask, GiveUp, TypeOK
<1>6. CASE UNCHANGED <<epv, parent, doc, pc>>
  BY <1>2, <1>6
<1>7. ASSUME NEW g \in Flows, AnalysisEnds(g) PROVE Analysed(d)' \/ Child(f, d)'
  BY <1>2, <1>7 DEF AnalysisEnds, Goto, TypeOK
<1>8. ASSUME NEW g \in Flows, Finalize(g) PROVE Analysed(d)' \/ Child(f, d)'
  BY <1>2, <1>8 DEF Finalize, Goto, TypeOK, TaskInv
<1>9. ASSUME NEW g \in Flows, Collect(g) PROVE Analysed(d)' \/ Child(f, d)'
  BY <1>2, <1>9 DEF Collect, Step, Goto, TypeOK, TaskInv
<1> QED
  BY <1>1, <1>3, <1>4, <1>5, <1>6, <1>7, <1>8, <1>9
     DEF Next, Run, vars, MetadataEnds, DigestsEnds, ScheduleSnapshot, SnapshotEnds, Choose,
         ChooseFails

(* CoverInv is inductive. *)
LEMMA CoverStep ==
    TypeOK /\ TaskInv /\ CollectAfterTasks /\ CoverInv /\ [Next]_vars => CoverInv'
<1> SUFFICES ASSUME TypeOK, TaskInv, CollectAfterTasks, CoverInv, [Next]_vars PROVE CoverInv'
  OBVIOUS
<1> DEFINE Seen(f, d) == Analysed(d) \/ Child(f, d)
<1>0. \A f \in Flows, d \in Versions : Seen(f, d) => Seen(f, d)'
  BY CoveredStays
<1> HIDE DEF Seen
<1>1. \A f \in Flows : snapshot[f] = "spawning" =>
          \A d \in resolved[f] : d \in chosen[f] \/ Seen(f, d)
  BY DEF CoverInv, Seen
<1>2. \A f \in Flows : snapshot'[f] = "spawning" =>
          \A d \in resolved'[f] : d \in chosen'[f] \/ Seen(f, d)'
  <2>1. ASSUME NEW g \in Flows, Choose(g), NEW f \in Flows, snapshot'[f] = "spawning",
               NEW d \in resolved'[f]
        PROVE  d \in chosen'[f] \/ Seen(f, d)'
    <3>1. resolved'[f] = resolved[f] /\ d \in Versions
      BY <2>1 DEF Choose, TypeOK
    <3>2. CASE f = g
      <4>1. d \in chosen'[f] \/ Analysed(d)
        BY <2>1, <3>1, <3>2 DEF Choose, TypeOK
      <4> QED
        BY <4>1, <3>1, <1>0 DEF Seen
    <3>3. CASE f # g
      BY <2>1, <3>1, <3>3, <1>0, <1>1 DEF Choose, TypeOK
    <3> QED
      BY <3>2, <3>3
  <2>2. ASSUME NEW g \in Flows, NEW e \in Versions, Spawn(g, e), NEW f \in Flows,
               snapshot'[f] = "spawning", NEW d \in resolved'[f]
        PROVE  d \in chosen'[f] \/ Seen(f, d)'
    <3>1. resolved'[f] = resolved[f] /\ d \in Versions /\ snapshot[f] = "spawning"
      BY <2>2 DEF Spawn, TypeOK
    <3>2. CASE f = g /\ d = e
      <4>1. /\ used + 1 \in Flows
            /\ parent'[used + 1] = f /\ epv'[used + 1] = d /\ pc'[used + 1] = "init"
        BY <2>2, <3>2 DEF Spawn, TypeOK
      <4> QED
        BY <4>1 DEF Seen, Child
    <3>3. CASE ~(f = g /\ d = e)
      <4>1. d \in chosen[f] => d \in chosen'[f]
        BY <2>2, <3>3 DEF Spawn, TypeOK
      <4> QED
        BY <3>1, <4>1, <1>0, <1>1
    <3> QED
      BY <3>2, <3>3
  <2>3. ASSUME NEW g \in Flows, SnapshotEnds(g), NEW f \in Flows, snapshot'[f] = "spawning",
               NEW d \in resolved'[f]
        PROVE  d \in chosen'[f] \/ Seen(f, d)'
    <3>1. f # g
      BY <2>3 DEF SnapshotEnds, TypeOK
    <3>2. /\ resolved'[f] = resolved[f] /\ snapshot'[f] = snapshot[f] /\ chosen' = chosen
          /\ d \in Versions
      BY <2>3, <3>1 DEF SnapshotEnds, TypeOK
    <3> QED
      BY <2>3, <3>2, <1>0, <1>1
  <2>4. ASSUME NEW g \in Flows, ScheduleSnapshot(g) \/ ChooseFails(g), NEW f \in Flows,
               snapshot'[f] = "spawning", NEW d \in resolved'[f]
        PROVE  d \in chosen'[f] \/ Seen(f, d)'
    <3>1. snapshot[f] = "spawning" /\ UNCHANGED deps
      BY <2>4 DEF ScheduleSnapshot, ChooseFails, TypeOK
    <3> QED
      BY <2>4, <3>1, <1>0, <1>1 DEF TypeOK
  <2>5. CASE UNCHANGED <<snapshot, resolved, chosen>>
    BY <2>5, <1>0, <1>1 DEF TypeOK
  <2> QED
    BY <2>1, <2>2, <2>3, <2>4, <2>5
       DEF Next, Run, vars, Count, Insert, InitFails, NodeFails, CheckHungTask, GiveUp,
           MetadataEnds, DigestsEnds, AnalysisEnds, Finalize, Collect
<1>3. \A f \in Flows : pc'[f] \in AfterAnalysis =>
          Settles(f)'
  <2> SUFFICES ASSUME NEW f \in Flows, pc'[f] \in AfterAnalysis
               PROVE  Settles(f)'
    OBVIOUS
  <2> USE DEF Settles
  <2>1. ASSUME UNCHANGED <<snapshot, resolved, chosen>>, pc'[f] = pc[f]
        PROVE  Settles(f)'
    BY <2>1 DEF CoverInv
  <2>2. ASSUME NEW g \in Flows, AnalysisEnds(g)
        PROVE  Settles(f)'
    <3>1. UNCHANGED <<snapshot, resolved, chosen>>
      BY <2>2 DEF AnalysisEnds
    <3>2. CASE f = g
      <4>1. \/ snapshot[f] \in {"none", "failed", "lost"}
            \/ snapshot[f] = "spawning" /\ chosen[f] = {}
        BY <2>2, <3>2 DEF AnalysisEnds, Settled, TaskInv
      <4>2. Settles(f)
        BY <4>1 DEF TaskInv, Settles
      <4> QED
        BY <3>1, <4>2
    <3>3. CASE f # g
      BY <2>1, <2>2, <3>1, <3>3 DEF AnalysisEnds, Goto, TypeOK
    <3> QED
      BY <3>2, <3>3
  <2>3. ASSUME NEW g \in Flows, Count(g)
        PROVE  Settles(f)'
    <3>1. UNCHANGED <<snapshot, resolved, chosen>>
      BY <2>3 DEF Count
    <3>2. CASE f = g
      BY <2>3, <3>1, <3>2 DEF Count, TaskInv, TypeOK
    <3>3. CASE f # g
      BY <2>1, <2>3, <3>1, <3>3 DEF Count, Goto, TypeOK
    <3> QED
      BY <3>2, <3>3
  <2>4. ASSUME NEW g \in Flows, SnapshotEnds(g)
        PROVE  Settles(f)'
    <3>1. UNCHANGED pc /\ f # g
      BY <2>4 DEF SnapshotEnds, CollectAfterTasks
    <3>2. resolved'[f] = resolved[f] /\ snapshot'[f] = snapshot[f] /\ chosen'[f] = chosen[f]
      BY <2>4, <3>1 DEF SnapshotEnds, TypeOK
    <3> QED
      BY <3>1, <3>2 DEF CoverInv
  <2>5. ASSUME NEW g \in Flows, ScheduleSnapshot(g) \/ Choose(g) \/ ChooseFails(g)
        PROVE  Settles(f)'
    <3>1. UNCHANGED <<pc, resolved>> /\ pc[g] = "analysis"
      BY <2>5 DEF ScheduleSnapshot, Choose, ChooseFails
    <3>2. f # g
      BY <3>1 DEF AfterAnalysis
    <3>3. snapshot'[f] = snapshot[f] /\ chosen'[f] = chosen[f]
      BY <2>5, <3>2 DEF ScheduleSnapshot, Choose, ChooseFails, TypeOK
    <3> QED
      BY <3>1, <3>3 DEF CoverInv
  <2>6. ASSUME NEW g \in Flows, NEW d \in Versions, Spawn(g, d)
        PROVE  Settles(f)'
    <3>1. used + 1 \in Flows /\ UNCHANGED <<snapshot, resolved>> /\ pc[g] = "analysis"
      BY <2>6 DEF Spawn, TypeOK
    <3>2. f # used + 1 /\ pc'[f] = pc[f]
      BY <2>6, <3>1 DEF Spawn, TypeOK, AfterAnalysis
    <3>3. f # g
      BY <3>1, <3>2 DEF AfterAnalysis
    <3>4. chosen'[f] = chosen[f]
      BY <2>6, <3>3 DEF Spawn, TypeOK
    <3> QED
      BY <3>1, <3>2, <3>4 DEF CoverInv
  <2>7. ASSUME NEW g \in Flows, Insert(g) \/ InitFails(g) \/ NodeFails(g) \/ CheckHungTask(g)
        PROVE  Settles(f)'
    <3>1. UNCHANGED <<snapshot, resolved, chosen>>
      BY <2>7 DEF Insert, InitFails, NodeFails, CheckHungTask, GiveUp
    <3>2. pc'[f] = pc[f]
      BY <2>7 DEF Insert, InitFails, NodeFails, CheckHungTask, GiveUp, Step, Goto, TypeOK,
                  AfterAnalysis
    <3> QED
      BY <2>1, <3>1, <3>2
  <2>8. ASSUME NEW g \in Flows, Finalize(g) \/ Collect(g)
        PROVE  Settles(f)'
    <3>1. UNCHANGED <<snapshot, resolved, chosen>>
      BY <2>8 DEF Finalize, Collect
    <3>2. pc[f] \in AfterAnalysis
      BY <2>8 DEF Finalize, Collect, Step, Goto, TypeOK, AfterAnalysis
    <3> QED
      BY <3>1, <3>2 DEF CoverInv
  <2> QED
    BY <2>1, <2>2, <2>3, <2>4, <2>5, <2>6, <2>7, <2>8
       DEF Next, Run, vars, MetadataEnds, DigestsEnds
<1> QED
  BY <1>2, <1>3 DEF CoverInv, Seen

(* When its tasks have ended, a flow has seen to every dependency.         *)
THEOREM CoversDependencies == Spec => []DependenciesCovered
<1>1. Init => CoverInv
  BY DEF Init, CoverInv, AfterAnalysis
<1>2. TypeOK /\ CoverInv => DependenciesCovered
  <2> SUFFICES ASSUME TypeOK, CoverInv, NEW f \in Flows, pc[f] \in AfterAnalysis,
                      snapshot[f] # "lost", NEW d \in resolved[f]
               PROVE  Analysed(d) \/ Child(f, d)
    BY DEF DependenciesCovered, Child
  <2>1. snapshot[f] = "spawning" /\ chosen[f] = {}
    BY DEF CoverInv, Settles
  <2> QED
    BY <2>1 DEF CoverInv
<1> QED
  BY <1>1, <1>2, CoverStep, Inductive, CollectsAfterTasks, PTL DEF Spec

(* When all flows have ended well, each dependency that was resolved for   *)
(* an analysed version has an analysis, unless iterating them raised.      *)
NothingIsLeftOut ==
    (\A f \in Flows : pc[f] \in {"unused", "done"}) =>
        \A f \in Flows : doc[f] /\ snapshot[f] # "lost" => \A d \in resolved[f] : Analysed(d)

(* Ingestion is complete when it is over, in every dependency graph: no    *)
(* dependency falls between a flow that saw an analysis on its way and     *)
(* the flow that was to make it.                                           *)
THEOREM IngestionIsComplete == Spec => []NothingIsLeftOut
<1>1. TypeOK /\ TaskInv /\ DependenciesCovered => NothingIsLeftOut
  <2> SUFFICES ASSUME TypeOK, TaskInv, DependenciesCovered,
                      \A f \in Flows : pc[f] \in {"unused", "done"},
                      NEW f \in Flows, doc[f], snapshot[f] # "lost", NEW d \in resolved[f]
               PROVE  Analysed(d)
    BY DEF NothingIsLeftOut
  <2>1. pc[f] = "done"
    BY DEF TaskInv
  <2>2. ASSUME NEW g \in Flows, parent[g] = f, pc[g] # "done" PROVE FALSE
    BY <2>2 DEF TaskInv
  <2> QED
    BY <2>1, <2>2 DEF DependenciesCovered, AfterAnalysis
<1> QED
  BY <1>1, CoversDependencies, Inductive, PTL

-----------------------------------------------------------------------------
(* How far a flow and its tasks have come. *)
Place(node) == CASE node = "unused" -> 0
                 [] node = "init" -> 1
                 [] node = "fetch" -> 2
                 [] node = "analysis" -> 3
                 [] node \in {"finalize", "finalize_error"} -> 4
                 [] node = "collect" -> 5
                 [] OTHER -> 6
Stage(s) == CASE s = "none" -> 0
              [] s = "running" -> 1
              [] s = "ok" -> 2
              [] OTHER -> 3

(* Nothing goes back: no node is left for an earlier one, no task is       *)
(* started again, whatever fails.                                          *)
NothingGoesBack ==
    /\ used <= used'
    /\ \A f \in Flows : /\ Place(pc[f]) <= Place(pc'[f])
                        /\ Stage(metadata[f]) <= Stage(metadata'[f])
                        /\ Stage(digests[f]) <= Stage(digests'[f])
                        /\ Stage(snapshot[f]) <= Stage(snapshot'[f])

(* Something has come farther than it was. *)
SomethingAdvances ==
    \/ used < used'
    \/ \E f \in Flows : \/ Place(pc[f]) < Place(pc'[f])
                        \/ Stage(metadata[f]) < Stage(metadata'[f])
                        \/ Stage(digests[f]) < Stage(digests'[f])
                        \/ Stage(snapshot[f]) < Stage(snapshot'[f])

(* A step of the flows comes farther with one thing and goes back with     *)
(* none.  So flows that depend on each other cannot keep each other going: *)
(* each counter has a last value, and there are no more steps than the     *)
(* counters have values, whatever the dispatcher schedules next.           *)
THEOREM EveryStepAdvances == Spec => [][NothingGoesBack /\ SomethingAdvances]_vars
<1>1. ASSUME TypeOK, TaskInv, Next PROVE NothingGoesBack /\ SomethingAdvances
  <2> USE DEF NothingGoesBack, SomethingAdvances
  <2>0. /\ \A f \in Flows : /\ pc[f] \in PCs /\ metadata[f] \in Status /\ digests[f] \in Status
                            /\ snapshot[f] \in SnapshotStatus
        /\ \A node \in PCs : Place(node) \in 0..6
        /\ \A s \in SnapshotStatus : Stage(s) \in 0..3
    BY <1>1 DEF TypeOK, Place, Stage
  (* Only the node of one flow changes. *)
  <2>1. ASSUME NEW f \in Flows, NEW node \in PCs, Goto(f, node), Place(pc[f]) < Place(node),
               UNCHANGED <<used, tasks>>
        PROVE  NothingGoesBack /\ SomethingAdvances
    <3>1. pc'[f] = node /\ \A g \in Flows \ {f} : pc'[g] = pc[g]
      BY <1>1, <2>1 DEF TypeOK, Goto
    <3> HIDE DEF Flows, PCs, Status, SnapshotStatus
    <3>2. \A n \in 0..6 : n <= n
      OBVIOUS
    <3>3. \A n \in 0..3 : n <= n
      OBVIOUS
    <3>4. used <= used'
      BY <1>1, <2>1 DEF TypeOK, Flows
    <3>5. \A g \in Flows : Place(pc[g]) <= Place(pc'[g])
      BY <2>0, <2>1, <3>1
    <3> QED
      BY <2>0, <2>1, <3>1, <3>3, <3>4, <3>5 DEF SnapshotStatus
  <2>2. ASSUME NEW f \in Flows, Count(f) PROVE NothingGoesBack /\ SomethingAdvances
    <3>1. PICK node \in {"done", "fetch"} : pc[f] = "init" /\ Goto(f, node)
      BY <2>2 DEF Count
    <3>2. Place(pc[f]) < Place(node) /\ node \in PCs
      BY <3>1 DEF Place
    <3> QED
      BY <2>1, <2>2, <3>1, <3>2 DEF Count
  <2>3. ASSUME NEW f \in Flows, AnalysisEnds(f) PROVE NothingGoesBack /\ SomethingAdvances
    <3>1. PICK node \in {"finalize", "finalize_error"} : pc[f] = "analysis" /\ Goto(f, node)
      BY <2>3 DEF AnalysisEnds
    <3>2. Place(pc[f]) < Place(node) /\ node \in PCs
      BY <3>1 DEF Place
    <3> QED
      BY <2>1, <2>3, <3>1, <3>2 DEF AnalysisEnds
  <2>4. ASSUME NEW f \in Flows, Finalize(f) PROVE NothingGoesBack /\ SomethingAdvances
    <3>1. PICK node \in {"collect", "done"} : Goto(f, node)
      BY <2>4 DEF Finalize
    <3>2. Place(pc[f]) < Place(node) /\ node \in PCs
      BY <2>4, <3>1 DEF Finalize, Place
    <3> QED
      BY <2>1, <2>4, <3>1, <3>2 DEF Finalize
  <2>5. ASSUME NEW f \in Flows, Collect(f) PROVE NothingGoesBack /\ SomethingAdvances
    <3>1. pc[f] = "collect" /\ Goto(f, "done") /\ Place(pc[f]) < Place("done") /\ "done" \in PCs
      BY <2>5 DEF Collect, Step, Place
    <3> QED
      BY <2>1, <2>5, <3>1 DEF Collect
  <2>6. ASSUME NEW f \in Flows, InitFails(f) \/ NodeFails(f) \/ CheckHungTask(f)
        PROVE  NothingGoesBack /\ SomethingAdvances
    <3>1. pc[f] \notin Ended /\ GiveUp(f)
      BY <2>6 DEF InitFails, NodeFails, CheckHungTask
    <3>2. Place(pc[f]) < Place("failed") /\ "failed" \in PCs
      BY <2>0, <3>1 DEF Place
    <3> QED
      BY <2>1, <3>1, <3>2 DEF GiveUp, Goto
  <2>7. ASSUME NEW f \in Flows, Insert(f) PROVE NothingGoesBack /\ SomethingAdvances
    <3>1. /\ pc[f] = "fetch" /\ metadata[f] = "none" /\ digests[f] = "none"
          /\ UNCHANGED <<used, snapshot>>
      BY <1>1, <2>7 DEF Insert, Step, TaskInv
    <3>2. /\ pc'[f] = "analysis" /\ metadata'[f] = "running" /\ digests'[f] = "running"
          /\ \A g \in Flows \ {f} : /\ pc'[g] = pc[g] /\ metadata'[g] = metadata[g]
                                    /\ digests'[g] = digests[g]
      BY <1>1, <2>7 DEF Insert, Step, Goto, TypeOK
    <3>3. /\ Place("fetch") < Place("analysis") /\ Stage("none") < Stage("running")
          /\ Place("fetch") <= Place("analysis") /\ Stage("none") <= Stage("running")
      BY DEF Place, Stage
    <3>4. used <= used'
      BY <1>1, <3>1 DEF TypeOK
    <3> HIDE DEF Flows, PCs, Status, SnapshotStatus
    <3>5. \A g \in Flows : /\ Place(pc[g]) \in 0..6 /\ Stage(metadata[g]) \in 0..3
                           /\ Stage(digests[g]) \in 0..3 /\ Stage(snapshot[g]) \in 0..3
      BY <2>0 DEF SnapshotStatus
    <3>6. \A g \in Flows : /\ Place(pc[g]) <= Place(pc'[g])
                           /\ Stage(metadata[g]) <= Stage(metadata'[g])
                           /\ Stage(digests[g]) <= Stage(digests'[g])
                           /\ Stage(snapshot[g]) <= Stage(snapshot'[g])
      <4> SUFFICES ASSUME NEW g \in Flows
                   PROVE  /\ Place(pc[g]) <= Place(pc'[g])
                          /\ Stage(metadata[g]) <= Stage(metadata'[g])
                          /\ Stage(digests[g]) <= Stage(digests'[g])
                          /\ Stage(snapshot[g]) <= Stage(snapshot'[g])
        OBVIOUS
      <4> HIDE DEF Place, Stage
      <4>1. CASE g = f
        <5>1. Stage(snapshot[g]) <= Stage(snapshot'[g])
          BY <4>1, <3>1, <3>5
        <5> QED
          BY <5>1, <4>1, <3>1, <3>2, <3>3
      <4>2. CASE g # f
        <5>1. /\ pc'[g] = pc[g] /\ metadata'[g] = metadata[g] /\ digests'[g] = digests[g]
              /\ snapshot'[g] = snapshot[g]
          BY <4>2, <3>1, <3>2
        <5> QED
          BY <5>1, <3>5
      <4> QED
        BY <4>1, <4>2
    <3> QED
      BY <3>1, <3>2, <3>3, <3>4, <3>6
  (* Only one task of a flow changes. *)
  <2>8. ASSUME NEW f \in Flows, NEW s \in SnapshotStatus, UNCHANGED <<used, pc>>,
               \/ /\ metadata' = [metadata EXCEPT ![f] = s] /\ Stage(metadata[f]) < Stage(s)
                  /\ UNCHANGED <<digests, snapshot>>
               \/ /\ digests' = [digests EXCEPT ![f] = s] /\ Stage(digests[f]) < Stage(s)
                  /\ UNCHANGED <<metadata, snapshot>>
               \/ /\ snapshot' = [snapshot EXCEPT ![f] = s] /\ Stage(snapshot[f]) < Stage(s)
                  /\ UNCHANGED <<metadata, digests>>
        PROVE  NothingGoesBack /\ SomethingAdvances
    <3>1. DOMAIN metadata = Flows /\ DOMAIN digests = Flows /\ DOMAIN snapshot = Flows /\ used \in Nat
      BY <1>1 DEF TypeOK
    <3> HIDE DEF Flows, PCs, Status, SnapshotStatus
    <3>2. \A g \in Flows : /\ Place(pc[g]) \in 0..6 /\ Stage(metadata[g]) \in 0..3
                           /\ Stage(digests[g]) \in 0..3 /\ Stage(snapshot[g]) \in 0..3
      BY <2>0 DEF SnapshotStatus
    <3>3. \A m, n \in 0..3 : m <= n <=> m < n \/ m = n
      OBVIOUS
    <3>4. Stage(s) \in 0..3
      BY <2>0
    <3>5. CASE metadata' = [metadata EXCEPT ![f] = s] /\ Stage(metadata[f]) < Stage(s)
               /\ UNCHANGED <<digests, snapshot>>
      BY <2>8, <3>1, <3>2, <3>4, <3>5
    <3>6. CASE digests' = [digests EXCEPT ![f] = s] /\ Stage(digests[f]) < Stage(s)
               /\ UNCHANGED <<metadata, snapshot>>
      BY <2>8, <3>1, <3>2, <3>4, <3>6
    <3>7. CASE snapshot' = [snapshot EXCEPT ![f] = s] /\ Stage(snapshot[f]) < Stage(s)
               /\ UNCHANGED <<metadata, digests>>
      BY <2>8, <3>1, <3>2, <3>4, <3>7
    <3> QED
      BY <2>8, <3>5, <3>6, <3>7
  <2>9. ASSUME NEW f \in Flows, MetadataEnds(f) PROVE NothingGoesBack /\ SomethingAdvances
    <3>1. PICK s \in {"ok", "failed"} : metadata' = [metadata EXCEPT ![f] = s]
      BY <2>9 DEF MetadataEnds
    <3>2. Stage(metadata[f]) < Stage(s)
      BY <2>9, <3>1 DEF MetadataEnds, Stage
    <3> QED
      BY <2>8, <2>9, <3>1, <3>2 DEF MetadataEnds
  <2>10. ASSUME NEW f \in Flows, DigestsEnds(f) PROVE NothingGoesBack /\ SomethingAdvances
    <3>1. PICK s \in {"ok", "failed"} : digests' = [digests EXCEPT ![f] = s]
      BY <2>10 DEF DigestsEnds
    <3>2. Stage(digests[f]) < Stage(s)
      BY <2>10, <3>1 DEF DigestsEnds, Stage
    <3> QED
      BY <2>8, <2>10, <3>1, <3>2 DEF DigestsEnds
  <2>11. ASSUME NEW f \in Flows, ScheduleSnapshot(f) \/ SnapshotEnds(f) \/ Choose(f) \/ ChooseFails(f)
         PROVE  NothingGoesBack /\ SomethingAdvances
    <3>1. PICK s \in SnapshotStatus :
              snapshot' = [snapshot EXCEPT ![f] = s] /\ Stage(snapshot[f]) < Stage(s)
      BY <2>11 DEF ScheduleSnapshot, SnapshotEnds, Choose, ChooseFails, Stage
    <3>2. UNCHANGED <<used, pc, metadata, digests>>
      BY <2>11 DEF ScheduleSnapshot, SnapshotEnds, Choose, ChooseFails
    <3> QED
      BY <2>8, <3>1, <3>2
  <2>12. ASSUME NEW f \in Flows, NEW d \in Versions, Spawn(f, d)
         PROVE  NothingGoesBack /\ SomethingAdvances
    <3>1. /\ used + 1 \in Flows /\ used' = used + 1 /\ pc[used + 1] = "unused"
          /\ pc'[used + 1] = "init" /\ \A g \in Flows \ {used + 1} : pc'[g] = pc[g]
          /\ UNCHANGED tasks
      BY <1>1, <2>12 DEF Spawn, TypeOK
    <3>2. Place("unused") <= Place("init")
      BY DEF Place
    <3>3. used <= used' /\ used < used'
      BY <1>1, <3>1 DEF TypeOK
    <3> HIDE DEF Flows, PCs, Status, SnapshotStatus
    <3>4. \A g \in Flows : /\ Place(pc[g]) \in 0..6 /\ Stage(metadata[g]) \in 0..3
                           /\ Stage(digests[g]) \in 0..3 /\ Stage(snapshot[g]) \in 0..3
      BY <2>0 DEF SnapshotStatus
    <3>5. \A g \in Flows : Place(pc[g]) <= Place(pc'[g])
      BY <3>1, <3>2, <3>4
    <3>6. \A n \in 0..3 : n <= n
      OBVIOUS
    <3> QED
      BY <3>1, <3>3, <3>4, <3>5, <3>6
  <2> HIDE DEF NothingGoesBack, SomethingAdvances
  <2> QED
    BY <1>1, <2>2, <2>3, <2>4, <2>5, <2>6, <2>7, <2>9, <2>10, <2>11, <2>12 DEF Next, Run
<1> QED
  BY <1>1, Inductive, PTL DEF Spec

(* What a flow in the analysis has scheduled.                              *)
AnalysisStarted ==
    \A f \in Flows : pc[f] = "analysis" => metadata[f] # "none" /\ digests[f] # "none"

(* What the dispatcher or a worker can do next for a flow: run the         *)
(* initialisation, end a task, start or iterate the snapshot, schedule a   *)
(* dependency, end the analysis, finalize or collect.                      *)
CanGoOn(f) ==
    \/ pc[f] \in {"init", "fetch", "finalize", "finalize_error", "collect"}
    \/ "running" \in {metadata[f], digests[f], snapshot[f]}
    \/ metadata[f] = "ok" /\ limit[f] > 0 /\ snapshot[f] = "none"
    \/ snapshot[f] = "ok"
    \/ chosen[f] # {} /\ used < MaxFlows
    \/ Settled(f)

(* No flow waits for what nobody schedules: one that has not ended can go  *)
(* on, or has dependencies to schedule when all flows are used up.         *)
NoFlowIsStuck ==
    \A f \in Flows : pc[f] \notin Ended => CanGoOn(f) \/ (chosen[f] # {} /\ used = MaxFlows)

(* In every dependency graph a flow that has not ended has a next step,    *)
(* whatever has failed.  With the theorem above only a step that is never  *)
(* taken, or the bound MaxFlows, can keep flows from ending.               *)
THEOREM FlowsAreNeverStuck == Spec => []NoFlowIsStuck
<1>1. Init => AnalysisStarted
  BY DEF Init, AnalysisStarted
<1>2. TypeOK /\ TaskInv /\ AnalysisStarted /\ [Next]_vars => AnalysisStarted'
  <2> SUFFICES ASSUME TypeOK, TaskInv, AnalysisStarted, [Next]_vars PROVE AnalysisStarted'
    OBVIOUS
  <2> USE DEF AnalysisStarted, TypeOK
  <2>1. ASSUME NEW f \in Flows, Count(f) \/ AnalysisEnds(f) \/ Finalize(f) \/ Collect(f)
        PROVE  AnalysisStarted'
    BY <2>1 DEF Count, AnalysisEnds, Finalize, Collect, Step, Goto
  <2>2. ASSUME NEW f \in Flows, InitFails(f) \/ NodeFails(f) \/ CheckHungTask(f)
        PROVE  AnalysisStarted'
    BY <2>2 DEF InitFails, NodeFails, CheckHungTask, GiveUp
  <2>3. ASSUME NEW f \in Flows, Insert(f) PROVE AnalysisStarted'
    BY <2>3 DEF Insert, Step, Goto
  <2>4. ASSUME NEW f \in Flows, MetadataEnds(f) PROVE AnalysisStarted'
    BY <2>4 DEF MetadataEnds
  <2>5. ASSUME NEW f \in Flows, DigestsEnds(f) PROVE AnalysisStarted'
    BY <2>5 DEF DigestsEnds
  <2>6. ASSUME NEW f \in Flows, ScheduleSnapshot(f) \/ SnapshotEnds(f) \/ Choose(f) \/ ChooseFails(f)
        PROVE  AnalysisStarted'
    BY <2>6 DEF ScheduleSnapshot, SnapshotEnds, Choose, ChooseFails
  <2>7. ASSUME NEW f \in Flows, NEW d \in Versions, Spawn(f, d) PROVE AnalysisStarted'
    BY <2>7 DEF Spawn
  <2>8. CASE UNCHANGED vars
    BY <2>8 DEF vars
  <2> HIDE DEF AnalysisStarted, TypeOK
  <2> QED
    BY <2>1, <2>2, <2>3, <2>4, <2>5, <2>6, <2>7, <2>8 DEF Next, Run
<1>3. TypeOK /\ AnalysisStarted => NoFlowIsStuck
  <2> SUFFICES ASSUME TypeOK, AnalysisStarted, NEW f \in Flows, pc[f] \notin Ended
               PROVE  CanGoOn(f) \/ (chosen[f] # {} /\ used = MaxFlows)
    BY DEF NoFlowIsStuck
  <2>1. CASE pc[f] # "analysis"
    BY <2>1 DEF TypeOK, CanGoOn
  <2>2. CASE pc[f] = "analysis"
    <3>1. metadata[f] \in {"running", "ok", "failed"} /\ digests[f] \in {"running", "ok", "failed"}
      BY <2>2 DEF TypeOK, AnalysisStarted
    <3>2. snapshot[f] \in SnapshotStatus /\ limit[f] \in Nat
      BY DEF TypeOK
    <3>3. used < MaxFlows \/ used = MaxFlows
      BY DEF TypeOK
    <3>4. CASE snapshot[f] = "spawning"
      BY <3>1, <3>3, <3>4 DEF CanGoOn, Settled
    <3>5. CASE snapshot[f] # "spawning"
      BY <3>1, <3>2, <3>5 DEF CanGoOn, Settled
    <3> QED
      BY <3>4, <3>5
  <2> QED
    BY <2>1, <2>2
<1> QED
  BY <1>1, <1>2, <1>3, Inductive, PTL DEF Spec
=============================================================================
