------------------------- MODULE InitAnalysisProofs -------------------------
(***************************************************************************)
(* Theorems about InitAnalysis for every set of flows and names.           *)
(***************************************************************************)
EXTENDS InitAnalysis, TLAPS

USE InitAnalysisAssumption DEF Tables, Running, Ended, PCs, AfterTarball, s3, db, world, local

(* Every variable keeps its type: in particular no table ever gets a       *)
(* second row for the package or the version.                              *)
THEOREM TypeCorrect == Spec => []TypeOK
<1>1. Init => TypeOK
  <2> SUFFICES ASSUME Init PROVE TypeOK
    OBVIOUS
  <2>1. /\ rows \in [Tables -> 0..1]
        /\ pc \in [Flows -> PCs]
        /\ \A f \in Flows : pc[f] = "scheduled"
    BY DEF Init
  <2>2. /\ key \in [Flows -> Names \cup {None}]
        /\ fetched \in [Flows -> Names \cup {None}]
        /\ alone \in [Flows -> BOOLEAN]
    BY DEF Init
  <2>3. /\ analyses \subseteq Flows
        /\ meta \in Names \cup {None}
        /\ tarballs \subseteq Names
        /\ published \in Names
        /\ force \in [Flows -> BOOLEAN]
    BY DEF Init
  <2>4. jar \in BOOLEAN /\ pom \in BOOLEAN
    BY DEF Init
  <2>5. renames \in 0..MaxRenames
    BY DEF Init
  <2> QED
    BY <2>1, <2>2, <2>3, <2>4, <2>5 DEF TypeOK
<1>2. TypeOK /\ [Next]_vars => TypeOK'
  <2> SUFFICES ASSUME TypeOK, [Next]_vars PROVE TypeOK'
    OBVIOUS
  <2>1. ASSUME NEW f \in Flows, Start(f) PROVE TypeOK'
    BY <2>1 DEF Start, Step, Goto, TypeOK
  <2>2. ASSUME NEW f \in Flows, GetOrCreate(f) PROVE TypeOK'
    BY <2>2 DEF GetOrCreate, QueryRow, InsertRow, Step, Goto, TypeOK
  <2>3. ASSUME NEW f \in Flows, CountAnalyses(f) PROVE TypeOK'
    BY <2>3 DEF CountAnalyses, Step, Goto, TypeOK
  <2>4. ASSUME NEW f \in Flows, HasMeta(f) PROVE TypeOK'
    BY <2>4 DEF HasMeta, Step, Goto, TypeOK
  <2>5. ASSUME NEW f \in Flows, HasTarball(f) PROVE TypeOK'
    BY <2>5 DEF HasTarball, Step, Goto, TypeOK
  <2>6. ASSUME NEW f \in Flows, Fetch(f) PROVE TypeOK'
    BY <2>6 DEF Fetch, Step, Goto, TypeOK
  <2>7. ASSUME NEW f \in Flows, PutMeta(f) PROVE TypeOK'
    BY <2>7 DEF PutMeta, Step, Goto, TypeOK
  <2>8. ASSUME NEW f \in Flows, PutTarball(f) PROVE TypeOK'
    BY <2>8 DEF PutTarball, Step, Goto, TypeOK
  <2>9. ASSUME NEW f \in Flows, SourceJar(f) PROVE TypeOK'
    BY <2>9 DEF SourceJar, Step, Goto, TypeOK
  <2>10. ASSUME NEW f \in Flows, PomXml(f) PROVE TypeOK'
    BY <2>10 DEF PomXml, Step, Goto, TypeOK
  <2>11. ASSUME NEW f \in Flows, InsertAnalysis(f) PROVE TypeOK'
    BY <2>11 DEF InsertAnalysis, Step, Goto, TypeOK
  <2>12. ASSUME NEW f \in Flows, Fail(f) PROVE TypeOK'
    BY <2>12 DEF Fail, Goto, TypeOK
  <2>13. CASE Rename
    BY <2>13 DEF Rename, TypeOK
  <2>14. CASE UNCHANGED vars
    BY <2>14 DEF vars, TypeOK
  <2> QED
    BY <2>1, <2>2, <2>3, <2>4, <2>5, <2>6, <2>7, <2>8, <2>9, <2>10, <2>11, <2>12, <2>13, <2>14
       DEF Next, Execute
<1> QED
  BY <1>1, <1>2, PTL DEF Spec

-----------------------------------------------------------------------------
(* The inductive invariant.                                                *)

AfterVersion == {"has_meta", "has_tarball", "fetch", "put_meta", "put_tarball", "jar", "pom",
                 "analysis"}

(* What a flow has made sure of when it is past a step. *)
Progress ==
    \A f \in Flows :
        /\ pc[f] \in {"version", "insert_version", "count"} \cup AfterVersion
              => rows["package"] = 1
        /\ pc[f] \in {"count"} \cup AfterVersion => rows["version"] = 1
        /\ pc[f] \in {"jar", "pom", "analysis"} => tarballs # {}
        /\ pc[f] = "analysis" /\ Maven => pom
        /\ pc[f] = "put_tarball" => meta # None

(* A tarball is only stored after a meta.json. *)
MetaFirst == tarballs # {} => meta # None

(* Until the registry changes it, there is one name. *)
OneName ==
    renames = 0 => /\ meta \in {None, published}
                   /\ tarballs \subseteq {published}
                   /\ \A f \in Flows : /\ key[f] \in {None, published}
                                       /\ fetched[f] \in {None, published}

ArtifactInv == TypeOK /\ Progress /\ MetaFirst /\ OneName /\ AnalysisHasArtifacts

THEOREM ArtifactInductive == Spec => []ArtifactInv
<1> USE DEF AfterVersion, Progress, MetaFirst, OneName, AnalysisHasArtifacts, ArtifactInv
<1>1. Init /\ TypeOK => ArtifactInv
  BY DEF Init
<1>2. ArtifactInv /\ TypeOK' /\ [Next]_vars => ArtifactInv'
  <2> SUFFICES ASSUME ArtifactInv, TypeOK', [Next]_vars PROVE ArtifactInv'
    OBVIOUS
  <2>1. ASSUME NEW f \in Flows, Start(f) PROVE ArtifactInv'
    BY <2>1 DEF Start, Step, Goto, TypeOK
  <2>2. ASSUME NEW f \in Flows, GetOrCreate(f) PROVE ArtifactInv'
    BY <2>2 DEF GetOrCreate, QueryRow, InsertRow, Step, Goto, TypeOK
  <2>3. ASSUME NEW f \in Flows, CountAnalyses(f) PROVE ArtifactInv'
    BY <2>3 DEF CountAnalyses, Step, Goto, TypeOK
  <2>4. ASSUME NEW f \in Flows, HasMeta(f) PROVE ArtifactInv'
    BY <2>4 DEF HasMeta, Step, Goto, TypeOK
  <2>5. ASSUME NEW f \in Flows, HasTarball(f) PROVE ArtifactInv'
    BY <2>5 DEF HasTarball, Step, Goto, TypeOK
  <2>6. ASSUME NEW f \in Flows, Fetch(f) PROVE ArtifactInv'
    BY <2>6 DEF Fetch, Step, Goto, TypeOK
  <2>7. ASSUME NEW f \in Flows, PutMeta(f) PROVE ArtifactInv'
    BY <2>7 DEF PutMeta, Step, Goto, TypeOK
  <2>8. ASSUME NEW f \in Flows, PutTarball(f) PROVE ArtifactInv'
    BY <2>8 DEF PutTarball, Step, Goto, TypeOK
  <2>9. ASSUME NEW f \in Flows, SourceJar(f) PROVE ArtifactInv'
    BY <2>9 DEF SourceJar, Step, Goto, TypeOK
  <2>10. ASSUME NEW f \in Flows, PomXml(f) PROVE ArtifactInv'
    BY <2>10 DEF PomXml, Step, Goto, TypeOK
  <2>11. ASSUME NEW f \in Flows, InsertAnalysis(f) PROVE ArtifactInv'
    BY <2>11 DEF InsertAnalysis, Step, Goto, TypeOK
  <2>12. ASSUME NEW f \in Flows, Fail(f) PROVE ArtifactInv'
    BY <2>12 DEF Fail, Goto, TypeOK
  <2>13. CASE Rename
    BY <2>13 DEF Rename, TypeOK
  <2>14. CASE UNCHANGED vars
    BY <2>14 DEF vars, TypeOK
  <2> QED
    BY <2>1, <2>2, <2>3, <2>4, <2>5, <2>6, <2>7, <2>8, <2>9, <2>10, <2>11, <2>12, <2>13, <2>14
       DEF Next, Execute
<1> QED
  BY <1>1, <1>2, TypeCorrect, PTL DEF Spec

(* A version with an analysis has its rows, a tarball and, for maven, its  *)
(* pom.xml, wherever flows fail and however they interleave.               *)
THEOREM AnalysisAlwaysHasArtifacts == Spec => []AnalysisHasArtifacts
<1>1. ArtifactInv => AnalysisHasArtifacts
  BY DEF ArtifactInv
<1> QED
  BY <1>1, ArtifactInductive, PTL

(* As long as the registry serves one file, meta.json names the tarball of *)
(* a version with an analysis.                                             *)
THEOREM ArtifactAlwaysReadable == Spec => []ArtifactReadable
<1>1. ArtifactInv => ArtifactReadable
  BY DEF ArtifactInv, MetaFirst, OneName, AnalysisHasArtifacts, ArtifactReadable
<1> QED
  BY <1>1, ArtifactInductive, PTL

(* What the tasks of an analysis read is stored, and found by its name,    *)
(* wherever flows fail and however they overlap.                           *)
THEOREM ArtifactsAreAlwaysThere == Spec => []ArtifactsAreThere
<1>1. AnalysisHasArtifacts /\ ArtifactReadable => ArtifactsAreThere
  BY DEF ArtifactsAreThere
<1> QED
  BY <1>1, AnalysisAlwaysHasArtifacts, ArtifactAlwaysReadable, PTL

-----------------------------------------------------------------------------
(* Flows that run alone.                                                   *)

(* A flow that is alone is the only one that runs; if it is not forced and *)
(* past its count, there is no analysis yet.                               *)
Alone ==
    /\ \A f \in analyses : pc[f] = "done"
    /\ \A f, g \in Flows : alone[f] /\ pc[f] \in Running /\ pc[g] \in Running => f = g
    /\ \A f \in Flows : alone[f] /\ ~force[f] /\ pc[f] \in AfterVersion => analyses = {}

AloneInv == TypeOK /\ Alone /\ OneUnforcedAnalysis

THEOREM AloneInductive == Spec => []AloneInv
<1> USE DEF AfterVersion, Alone, OneUnforcedAnalysis, AloneInv
<1>1. Init /\ TypeOK => AloneInv
  BY DEF Init
<1>2. AloneInv /\ TypeOK' /\ [Next]_vars => AloneInv'
  <2> SUFFICES ASSUME AloneInv, TypeOK', [Next]_vars PROVE AloneInv'
    OBVIOUS
  <2>1. ASSUME NEW f \in Flows, Start(f) PROVE AloneInv'
    BY <2>1 DEF Start, Step, Goto, TypeOK
  <2>2. ASSUME NEW f \in Flows, GetOrCreate(f) PROVE AloneInv'
    BY <2>2 DEF GetOrCreate, QueryRow, InsertRow, Step, Goto, TypeOK
  <2>3. ASSUME NEW f \in Flows, CountAnalyses(f) PROVE AloneInv'
    BY <2>3 DEF CountAnalyses, Step, Goto, TypeOK
  <2>4. ASSUME NEW f \in Flows, HasMeta(f) PROVE AloneInv'
    BY <2>4 DEF HasMeta, Step, Goto, TypeOK
  <2>5. ASSUME NEW f \in Flows, HasTarball(f) PROVE AloneInv'
    BY <2>5 DEF HasTarball, Step, Goto, TypeOK
  <2>6. ASSUME NEW f \in Flows, Fetch(f) PROVE AloneInv'
    BY <2>6 DEF Fetch, Step, Goto, TypeOK
  <2>7. ASSUME NEW f \in Flows, PutMeta(f) PROVE AloneInv'
    BY <2>7 DEF PutMeta, Step, Goto, TypeOK
  <2>8. ASSUME NEW f \in Flows, PutTarball(f) PROVE AloneInv'
    BY <2>8 DEF PutTarball, Step, Goto, TypeOK
  <2>9. ASSUME NEW f \in Flows, SourceJar(f) PROVE AloneInv'
    BY <2>9 DEF SourceJar, Step, Goto, TypeOK
  <2>10. ASSUME NEW f \in Flows, PomXml(f) PROVE AloneInv'
    BY <2>10 DEF PomXml, Step, Goto, TypeOK
  <2>11. ASSUME NEW f \in Flows, InsertAnalysis(f) PROVE AloneInv'
    BY <2>11 DEF InsertAnalysis, Step, Goto, TypeOK
  <2>12. ASSUME NEW f \in Flows, Fail(f) PROVE AloneInv'
    BY <2>12 DEF Fail, Goto, TypeOK
  <2>13. CASE Rename
    BY <2>13 DEF Rename, TypeOK
  <2>14. CASE UNCHANGED vars
    BY <2>14 DEF vars, TypeOK
  <2> QED
    BY <2>1, <2>2, <2>3, <2>4, <2>5, <2>6, <2>7, <2>8, <2>9, <2>10, <2>11, <2>12, <2>13, <2>14
       DEF Next, Execute
<1> QED
  BY <1>1, <1>2, TypeCorrect, PTL DEF Spec

(* Flows that do not overlap and are not forced analyse a version once.    *)
THEOREM AtMostOneUnforcedAnalysis == Spec => []OneUnforcedAnalysis
<1>1. AloneInv => OneUnforcedAnalysis
  BY DEF AloneInv
<1> QED
  BY <1>1, AloneInductive, PTL

-----------------------------------------------------------------------------
(* The refinement of InitPromise.                                          *)

(* A row in analyses is the end of the flow that inserted it.              *)
RowEndsFlow == \A f \in Flows : f \in analyses <=> pc[f] = "done"

(* RowEndsFlow is inductive.                                               *)
LEMMA RowEndsFlowStep == TypeOK /\ RowEndsFlow /\ [Next]_vars => RowEndsFlow'
<1> SUFFICES ASSUME TypeOK, RowEndsFlow, [Next]_vars PROVE RowEndsFlow'
  OBVIOUS
<1> USE DEF RowEndsFlow, TypeOK
<1>1. ASSUME NEW f \in Flows, InsertAnalysis(f) PROVE RowEndsFlow'
  BY <1>1 DEF InsertAnalysis, Step, Goto
<1>2. ASSUME NEW f \in Flows, Start(f) \/ GetOrCreate(f) \/ CountAnalyses(f) PROVE RowEndsFlow'
  BY <1>2 DEF Start, GetOrCreate, QueryRow, InsertRow, CountAnalyses, Step, Goto
<1>3. ASSUME NEW f \in Flows, \/ HasMeta(f) \/ HasTarball(f) \/ Fetch(f) \/ PutMeta(f)
                              \/ PutTarball(f) \/ SourceJar(f) \/ PomXml(f)
      PROVE  RowEndsFlow'
  BY <1>3 DEF HasMeta, HasTarball, Fetch, PutMeta, PutTarball, SourceJar, PomXml, Step, Goto
<1>4. ASSUME NEW f \in Flows, Fail(f) PROVE RowEndsFlow'
  BY <1>4 DEF Fail, Goto
<1>5. CASE Rename \/ UNCHANGED vars
  BY <1>5 DEF Rename, vars
<1> QED
  BY <1>1, <1>2, <1>3, <1>4, <1>5 DEF Next, Execute

Ready == {"scheduled", "package", "insert_package", "version", "insert_version", "count"}

(* Each step of a flow is one of InitPromise or none of its business.      *)
LEMMA InitPromiseStep ==
    ASSUME TypeOK, RowEndsFlow, RowEndsFlow', [Next]_vars
    PROVE  [Promise!Next]_<<[f \in Flows |-> "it"], force, Outcome>>
<1> USE DEF TypeOK
<1>0. UNCHANGED [f \in Flows |-> "it"]
  OBVIOUS
(* One flow moves; the others stay what they are. *)
<1>a. ASSUME NEW f \in Flows, NEW to \in PCs, Goto(f, to), analyses' \in {analyses, analyses \cup {f}}
      PROVE  Outcome' = [Outcome EXCEPT ![f] = OutcomeOf(f)']
  <2>1. ASSUME NEW g \in Flows, g # f PROVE OutcomeOf(g)' = OutcomeOf(g)
    BY <1>a, <2>1 DEF OutcomeOf, Goto
  <2> QED
    BY <2>1 DEF Outcome
<1>b. \A f \in Flows : Outcome[f] = OutcomeOf(f)
  BY DEF Outcome
<1>1. ASSUME NEW f \in Flows, NEW to \in PCs, Goto(f, to), UNCHANGED analyses, f \notin analyses,
             \/ pc[f] \in Ready /\ to \in Ready
             \/ pc[f] \in AfterVersion /\ to \in AfterVersion
      PROVE  UNCHANGED Outcome
  <2>1. OutcomeOf(f)' = OutcomeOf(f)
    BY <1>1 DEF OutcomeOf, Goto, Ready, AfterVersion
  <2> QED
    BY <1>1, <1>a, <2>1 DEF Outcome
<1>2. ASSUME NEW f \in Flows, Start(f) \/ GetOrCreate(f) \/ CountAnalyses(f) \/ Fail(f)
      PROVE  UNCHANGED <<analyses, force>> /\ f \notin analyses
  BY <1>2 DEF Start, GetOrCreate, QueryRow, InsertRow, CountAnalyses, Fail, Step, Goto, RowEndsFlow
<1>3. ASSUME NEW f \in Flows, Start(f)
      PROVE  UNCHANGED <<force, Outcome>>
  <2>1. Goto(f, "package") /\ pc[f] \in Ready /\ "package" \in Ready
    BY <1>3 DEF Start, Step, Ready
  <2> QED
    BY <1>1, <1>2, <1>3, <2>1
<1>4. ASSUME NEW f \in Flows, NEW to \in {"failed", "type_error"}, Goto(f, to),
             pc[f] \in Running, UNCHANGED <<analyses, force>>, f \notin analyses
      PROVE  Promise!Next
  <2>1. Outcome[f] \in {"ready", "counted"}
    BY <1>4, <1>b DEF OutcomeOf
  <2>2. OutcomeOf(f)' = "failed"
    BY <1>4 DEF OutcomeOf, Goto
  <2>3. Outcome' = [Outcome EXCEPT ![f] = "failed"]
    BY <1>4, <1>a, <2>2
  <2>4. Promise!Fail(f)
    BY <1>0, <1>4, <2>1, <2>3 DEF Promise!Fail, Promise!Move
  <2> QED
    BY <2>4 DEF Promise!Next
<1>5. ASSUME NEW f \in Flows, GetOrCreate(f)
      PROVE  Promise!Next \/ UNCHANGED <<force, Outcome>>
  <2>1. PICK to \in Ready \cup {"type_error"} : Goto(f, to) /\ pc[f] \in Ready /\ pc[f] \in Running
    BY <1>5 DEF GetOrCreate, QueryRow, InsertRow, Step, Ready
  <2>2. CASE to = "type_error"
    BY <1>2, <1>4, <1>5, <2>1, <2>2
  <2>3. CASE to \in Ready
    <3>1. to \in PCs
      BY <2>3 DEF Ready
    <3> QED
      BY <1>1, <1>2, <1>5, <2>1, <2>3, <3>1
  <2> QED
    BY <2>1, <2>2, <2>3
<1>6. ASSUME NEW f \in Flows, Fail(f) PROVE Promise!Next
  <2>1. Goto(f, "failed") /\ pc[f] \in Running
    BY <1>6 DEF Fail
  <2> QED
    BY <1>2, <1>4, <1>6, <2>1
<1>7. ASSUME NEW f \in Flows, CountAnalyses(f) PROVE Promise!Next
  <2>1. Outcome[f] = "ready" /\ pc[f] = "count"
    BY <1>2, <1>7, <1>b DEF CountAnalyses, Step, OutcomeOf
  <2>2. Promise!Analysed("it") <=> analyses # {}
    <3>1. \A g \in Flows : Outcome[g] = "analysed" <=> g \in analyses
      BY <1>b DEF OutcomeOf
    <3> QED
      BY <3>1, Zenon DEF Promise!Analysed
  <2>3. CASE ~force[f] /\ analyses # {}
    <3>1. Goto(f, "exists")
      BY <1>7, <2>3 DEF CountAnalyses, Step
    <3>2. OutcomeOf(f)' = "skipped"
      BY <1>2, <1>7, <3>1 DEF OutcomeOf, Goto
    <3>3. Outcome' = [Outcome EXCEPT ![f] = "skipped"]
      BY <1>2, <1>7, <1>a, <3>1, <3>2
    <3>4. Promise!Count(f)
      BY <1>0, <1>2, <1>7, <2>1, <2>2, <2>3, <3>3 DEF Promise!Count, Promise!Move
    <3> QED
      BY <3>4 DEF Promise!Next
  <2>4. CASE ~(~force[f] /\ analyses # {})
    <3>1. Goto(f, "has_meta")
      BY <1>7, <2>4 DEF CountAnalyses, Step
    <3>2. OutcomeOf(f)' = "counted"
      BY <1>2, <1>7, <3>1 DEF OutcomeOf, Goto
    <3>3. Outcome' = [Outcome EXCEPT ![f] = "counted"]
      BY <1>2, <1>7, <1>a, <3>1, <3>2
    <3>4. Promise!Count(f)
      BY <1>0, <1>2, <1>7, <2>1, <2>2, <2>4, <3>3 DEF Promise!Count, Promise!Move
    <3> QED
      BY <3>4 DEF Promise!Next
  <2> QED
    BY <2>3, <2>4
<1>8. ASSUME NEW f \in Flows, \/ HasMeta(f) \/ HasTarball(f) \/ Fetch(f) \/ PutMeta(f)
                              \/ PutTarball(f) \/ SourceJar(f) \/ PomXml(f)
      PROVE  UNCHANGED <<force, Outcome>>
  <2>1. /\ UNCHANGED <<analyses, force>> /\ pc[f] \in AfterVersion
        /\ \E to \in AfterVersion : Goto(f, to)
    BY <1>8 DEF HasMeta, HasTarball, Fetch, PutMeta, PutTarball, SourceJar, PomXml, Step, AfterVersion
  <2>2. f \notin analyses /\ AfterVersion \subseteq PCs
    BY <2>1 DEF RowEndsFlow, AfterVersion
  <2> QED
    BY <1>1, <2>1, <2>2
<1>9. ASSUME NEW f \in Flows, InsertAnalysis(f) PROVE Promise!Next
  <2>1. pc[f] = "analysis" /\ analyses' = analyses \cup {f} /\ Goto(f, "done") /\ UNCHANGED force
    BY <1>9 DEF InsertAnalysis, Step
  <2>2. Outcome[f] = "counted"
    BY <2>1, <1>b DEF OutcomeOf, RowEndsFlow
  <2>3. OutcomeOf(f)' = "analysed"
    BY <2>1 DEF OutcomeOf
  <2>4. Outcome' = [Outcome EXCEPT ![f] = "analysed"]
    BY <2>1, <2>3, <1>a, "done" \in PCs
  <2>5. Promise!Add(f)
    BY <1>0, <2>1, <2>2, <2>4 DEF Promise!Add, Promise!Move
  <2> QED
    BY <2>5 DEF Promise!Next
<1>10. CASE Rename \/ UNCHANGED vars
  BY <1>10 DEF Rename, vars, Outcome, OutcomeOf
<1> QED
  BY <1>0, <1>3, <1>5, <1>6, <1>7, <1>8, <1>9, <1>10 DEF Next, Execute

(* InitAnalysisFlow implements InitPromise, with any number of flows over  *)
(* each other and wherever one of them fails: the flow counts once,        *)
(* decides once, and nothing else touches the analyses.                    *)
THEOREM InitAlwaysKeepsPromise == Spec => KeepsInitPromise
<1>1. Init => RowEndsFlow /\ Promise!Init
  BY DEF Init, RowEndsFlow, Promise!Init, Outcome, OutcomeOf
<1> QED
  BY <1>1, RowEndsFlowStep, InitPromiseStep, TypeCorrect, PTL
     DEF Spec, KeepsInitPromise, Promise!Spec
=============================================================================
