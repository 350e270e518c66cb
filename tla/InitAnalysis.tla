---------------------------- MODULE InitAnalysis ----------------------------
(***************************************************************************)
(* InitAnalysisFlow for one package version                                *)
(* (f8a_worker/workers/init_analysis_flow.py), run by any number of flows: *)
(* the rows it creates through get_or_create (f8a_worker/models.py) and    *)
(* the artifacts it stores through EPVCache (f8a_worker/object_cache.py).  *)
(*                                                                         *)
(* meta.json names the source tarball; both are S3 objects, stored and     *)
(* read by separate requests.  An EPVCache lives for one task (BaseTask    *)
(* wipes it) and fixes the object key of the tarball the first time it     *)
(* finds a meta.json.  Each statement and each request is one step; a flow *)
(* may fail, or its worker die, before any of them.                        *)
(***************************************************************************)
EXTENDS Naturals, FiniteSets

CONSTANTS
    Flows,       (* flows scheduled for the package version                  *)
    Names,       (* file names under which its artifact is published         *)
    None,        (* no name                                                  *)
    Maven,       (* the ecosystem is backed by maven                         *)
    MaxRenames   (* bound: times the registry serves another file            *)

ASSUME InitAnalysisAssumption ==
    /\ IsFiniteSet(Flows)
    /\ None \notin Names
    /\ Maven \in BOOLEAN
    /\ MaxRenames \in Nat

VARIABLES
    rows,        (* rows for the package and for the version                 *)
    analyses,    (* the flows that inserted a row into analyses              *)
    meta,        (* the tarball_name in meta.json on S3                      *)
    tarballs,    (* names of the tarballs on S3                              *)
    jar, pom,    (* the source jar and the pom.xml are on S3                 *)
    published,   (* the file that the registry serves                        *)
    renames,     (* how often that changed                                   *)
    pc, force,
    key,         (* the tarball name that the EPVCache of the flow has fixed *)
    fetched,     (* the file it downloaded                                   *)
    alone        (* history: no other flow ran at the same time              *)

s3      == <<meta, tarballs, jar, pom>>
db      == <<rows, analyses>>
world   == <<published, renames>>
local   == <<force, key, fetched>>
vars    == <<db, s3, world, pc, local, alone>>

Tables  == {"package", "version"}
Ended   == {"done", "exists", "failed", "type_error"}
Running == {"package", "insert_package", "version", "insert_version", "count", "has_meta",
            "has_tarball", "fetch", "put_meta", "put_tarball", "jar", "pom", "analysis"}
PCs     == {"scheduled"} \cup Running \cup Ended

Init == /\ rows = [t \in Tables |-> 0]
        /\ analyses = {}
        /\ meta = None
        /\ tarballs = {}
        /\ jar = FALSE
        /\ pom = FALSE
        /\ published \in Names
        /\ renames = 0
        /\ pc = [f \in Flows |-> "scheduled"]
        /\ force \in [Flows -> BOOLEAN]
        /\ key = [f \in Flows |-> None]
        /\ fetched = [f \in Flows |-> None]
        /\ alone = [f \in Flows |-> FALSE]

Goto(f, step) == pc' = [pc EXCEPT ![f] = step]
Step(f, from, to) == pc[f] = from /\ Goto(f, to)

(* After the tarball: jar and pom for maven, then the analyses row. *)
AfterTarball == IF Maven THEN "jar" ELSE "analysis"

-----------------------------------------------------------------------------
(* The asserts and checks before the first row end a flow in "failed".     *)
Start(f) ==
    /\ Step(f, "scheduled", "package")
    /\ alone' = [g \in Flows |-> IF g = f THEN \A h \in Flows : pc[h] \notin Running
                                         ELSE alone[g] /\ pc[g] \notin Running]
    /\ UNCHANGED <<db, s3, world, local>>

(* get_or_create, its query: t is the table, insert its next step if there *)
(* is no row, next if there is.                                            *)
QueryRow(f, t, insert, next) ==
    /\ \/ rows[t] > 0 /\ Step(f, t, next)
       \/ rows[t] = 0 /\ Step(f, t, insert)
    /\ UNCHANGED <<db, s3, world, local, alone>>

(* get_or_create, its insert: when another flow was first the unique       *)
(* constraint refuses it, and the handler that should return the other     *)
(* row calls _by_attrs without its session, a TypeError.                   *)
InsertRow(f, t, insert, next) ==
    /\ \/ /\ rows[t] = 0
          /\ rows' = [rows EXCEPT ![t] = @ + 1]
          /\ Step(f, insert, next)
       \/ /\ rows[t] > 0
          /\ Step(f, insert, "type_error")
          /\ UNCHANGED rows
    /\ UNCHANGED <<analyses, s3, world, local, alone>>

GetOrCreate(f) == \/ QueryRow(f, "package", "insert_package", "version")
                  \/ InsertRow(f, "package", "insert_package", "version")
                  \/ QueryRow(f, "version", "insert_version", "count")
                  \/ InsertRow(f, "version", "insert_version", "count")

(* Variant: always analyse. *)
CountNothing(f) ==
    /\ Step(f, "count", "has_meta")
    /\ UNCHANGED <<db, s3, world, local, alone>>

(* Unless forced, a version that has an analysis is not analysed again. *)
CountAnalyses(f) ==
    /\ IF ~force[f] /\ analyses # {} THEN Step(f, "count", "exists")
                                     ELSE Step(f, "count", "has_meta")
    /\ UNCHANGED <<db, s3, world, local, alone>>

-----------------------------------------------------------------------------
(* EPVCache.                                                               *)

(* _has_meta: any failure to read meta.json counts as its absence. *)
HasMeta(f) ==
    /\ \/ /\ meta # None
          /\ Step(f, "has_meta", "has_tarball")
          /\ key' = [key EXCEPT ![f] = meta]
       \/ Step(f, "has_meta", "fetch") /\ UNCHANGED key
    /\ UNCHANGED <<db, s3, world, force, fetched, alone>>

(* has_source_tarball: is there an object under the key? *)
HasTarball(f) ==
    /\ Step(f, "has_tarball", IF key[f] \in tarballs THEN AfterTarball ELSE "fetch")
    /\ UNCHANGED <<db, s3, world, local, alone>>

(* IndianaJones.fetch_artifact: the file that the registry serves now. *)
Fetch(f) ==
    /\ Step(f, "fetch", "put_meta")
    /\ fetched' = [fetched EXCEPT ![f] = published]
    /\ UNCHANGED <<db, s3, world, force, key, alone>>

(* put_source_tarball stores the new name first; the object key stays what *)
(* it is once it has been constructed.                                     *)
PutMeta(f) ==
    /\ Step(f, "put_meta", "put_tarball")
    /\ meta' = fetched[f]
    /\ key' = [key EXCEPT ![f] = IF @ = None THEN fetched[f] ELSE @]
    /\ UNCHANGED <<db, tarballs, jar, pom, world, force, fetched, alone>>

(* Variant: a tarball that cannot be stored is tolerated, as the jar is. *)
PutTarballOrNot(f) ==
    /\ Step(f, "put_tarball", AfterTarball)
    /\ tarballs' \in {tarballs, tarballs \cup {key[f]}}
    /\ UNCHANGED <<db, meta, jar, pom, world, local, alone>>

PutTarball(f) ==
    /\ Step(f, "put_tarball", AfterTarball)
    /\ tarballs' = tarballs \cup {key[f]}
    /\ UNCHANGED <<db, meta, jar, pom, world, local, alone>>

(* A source jar that cannot be had is tolerated. *)
SourceJar(f) ==
    /\ Step(f, "jar", "pom")
    /\ jar' \in {jar, TRUE}
    /\ UNCHANGED <<db, meta, tarballs, pom, world, local, alone>>

(* A pom.xml is required. *)
PomXml(f) ==
    /\ Step(f, "pom", "analysis")
    /\ pom' = TRUE
    /\ UNCHANGED <<db, meta, tarballs, jar, world, local, alone>>

InsertAnalysis(f) ==
    /\ Step(f, "analysis", "done")
    /\ analyses' = analyses \cup {f}
    /\ UNCHANGED <<rows, s3, world, local, alone>>

(* A check, a statement or a request fails, or the worker dies. *)
Fail(f) ==
    /\ pc[f] \in Running
    /\ Goto(f, "failed")
    /\ UNCHANGED <<db, s3, world, local, alone>>

(* The registry serves another file for the version: a source              *)
(* distribution is uploaded after a wheel.                                 *)
Rename ==
    /\ renames < MaxRenames
    /\ renames' = renames + 1
    /\ published' \in Names \ {published}
    /\ UNCHANGED <<db, s3, pc, local, alone>>

Execute(f) == \/ Start(f) \/ GetOrCreate(f) \/ CountAnalyses(f) \/ HasMeta(f) \/ HasTarball(f)
              \/ Fetch(f) \/ PutMeta(f) \/ PutTarball(f) \/ SourceJar(f) \/ PomXml(f)
              \/ InsertAnalysis(f)

Next == (\E f \in Flows : Execute(f) \/ Fail(f)) \/ Rename

Spec == Init /\ [][Next]_vars

-----------------------------------------------------------------------------
TypeOK ==
    /\ rows \in [Tables -> 0..1]
    /\ analyses \subseteq Flows
    /\ meta \in Names \cup {None}
    /\ tarballs \subseteq Names
    /\ jar \in BOOLEAN /\ pom \in BOOLEAN
    /\ published \in Names
    /\ renames \in 0..MaxRenames
    /\ pc \in [Flows -> PCs]
    /\ force \in [Flows -> BOOLEAN]
    /\ key \in [Flows -> Names \cup {None}]
    /\ fetched \in [Flows -> Names \cup {None}]
    /\ alone \in [Flows -> BOOLEAN]
    /\ \A f \in Flows : pc[f] = "put_meta" => fetched[f] # None
    /\ \A f \in Flows : pc[f] = "put_tarball" => key[f] # None

(* A version with an analysis has its version row, a source tarball on S3  *)
(* and, for maven, its pom.xml, wherever flows fail: the tasks of the      *)
(* analysis flow read them.                                                *)
AnalysisHasArtifacts ==
    analyses # {} => /\ rows = [t \in Tables |-> 1]
                     /\ tarballs # {}
                     /\ Maven => pom

(* As long as the registry serves the same file, meta.json names a tarball *)
(* that is there once a version has an analysis: a meta.json left behind   *)
(* by a flow that died before it stored the tarball is not trusted.        *)
ArtifactReadable == analyses # {} /\ renames = 0 => meta \in tarballs

(* What the tasks of an analysis read is stored, and found by its name.    *)
ArtifactsAreThere == AnalysisHasArtifacts /\ ArtifactReadable

(* A version is analysed twice only by flows that overlap or are forced.   *)
OneUnforcedAnalysis ==
    \A f, g \in analyses : alone[f] /\ alone[g] /\ ~force[f] /\ ~force[g] => f = g

(* What the initialisation of a flow has come to, for those who wait.      *)
OutcomeOf(f) ==
    IF f \in analyses THEN "analysed"
    ELSE CASE pc[f] = "exists"                   -> "skipped"
           [] pc[f] \in {"failed", "type_error"} -> "failed"
           [] pc[f] \in {"scheduled", "package", "insert_package", "version", "insert_version",
                         "count"}                -> "ready"
           [] OTHER                              -> "counted"
Outcome == [f \in Flows |-> OutcomeOf(f)]

(* The steps of InitAnalysisFlow add up to what the recursion of the flows *)
(* relies on: one count, one decision, at most one analysis, and no other  *)
(* effect on the analyses, wherever it fails or is overtaken.  All flows   *)
(* are of the one version.                                                 *)
Promise == INSTANCE InitPromise WITH
    Versions <- {"it"}, of <- [f \in Flows |-> "it"], forced <- force, at <- Outcome

KeepsInitPromise == Promise!Spec

(* The comment of EPVCache, "Based on actual tarball name which can vary   *)
(* based on ecosystem - see meta.json": meta.json names a stored tarball   *)
(* once a flow that ran alone has stored one.                              *)
MetaNamesTarball ==
    \A f \in Flows : alone[f] /\ pc[f] \in {"jar", "pom", "analysis"} => meta \in tarballs

(* The comment of get_or_create, "object was created in the meanwhile by   *)
(* someone else": the flow that loses the race gets the row of the other.  *)
LoserGetsRow == \A f \in Flows : pc[f] # "type_error"
=============================================================================
