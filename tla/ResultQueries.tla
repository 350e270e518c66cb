---------------------------- MODULE ResultQueries ----------------------------
(***************************************************************************)
(* The queries of storages/postgres.py and storages/package_postgres.py    *)
(* over the analyses of one package and the results of one task in them,   *)
(* and who asks: selective runs, the iteration over dependencies and the   *)
(* graph importer.  The writers are those of TaskRun, BayesianFlow and     *)
(* ResultSync, each in one step here.                                      *)
(***************************************************************************)
EXTENDS Naturals, FiniteSets

CONSTANTS Docs,       (* ids of analyses, serial numbers                    *)
          Versions,   (* versions of the package                            *)
          NoVersionId (* of a package analysis, or of none                  *)

VARIABLES qLevel,     (* "version" or "package": which storage is asked     *)
          qVersion,   (* the version of an analysis, NoVersionId before it  *)
          qStarted,   (* the analyses created                               *)
          qFinished,  (* when finished_at was set, 0 while it is NULL       *)
          qRow,       (* the task's row: "none", "real" or "error", then    *)
                      (* "ref" or "error ref" once it is on S3              *)
          qUploaded,  (* when the row was uploaded, 0 before                *)
          qReused,    (* for a selective run: the analyses whose worker_id  *)
                      (* it may have got instead of running the task        *)
          qClock

queryVars == <<qLevel, qVersion, qStarted, qFinished, qRow, qUploaded, qReused, qClock>>

Good  == {"real", "ref"}        (* the rows with error FALSE                *)
Bad   == {"error", "error ref"}
Place(d) == qVersion[d]         (* the analyses that share an S3 object     *)

(* The object of the task holds what was uploaded last.                    *)
Object(place) == LET up == {d \in Docs : qUploaded[d] > 0 /\ Place(d) = place}
                 IN  CHOOSE d \in up : \A e \in up : qUploaded[e] <= qUploaded[d]
-----------------------------------------------------------------------------
(* ORDER BY finished_at: NULLs first when it descends, last when it        *)
(* ascends.                                                                *)
Descending(d, e) == qFinished[d] = 0 \/ (qFinished[e] # 0 /\ qFinished[d] >= qFinished[e])

FirstRow(d, e) == Descending(d, e)

First(rows) == {d \in rows : \A e \in rows : FirstRow(d, e)}

RowsOf(version, kinds) == {d \in Docs : qVersion[d] = version /\ qRow[d] \in kinds}

(* get_latest_task_result: the rows the database may take; a reference is  *)
(* replaced by the object, whatever was uploaded there since.              *)
LatestRows(version) == First(RowsOf(version, Good))
Content(d) == IF qRow[d] = "real" THEN d ELSE Object(Place(d))

(* get_latest_task_entry: the query of BayesianPostgres joins Analysis to  *)
(* Package, between which no foreign key is: it always fails.              *)
get_latest_task_entry(version, error) ==
    IF qLevel = "version" THEN {}
    ELSE First(RowsOf(version, IF error THEN Bad ELSE Good))

get_finished_task_names(d) == qRow[d] \in Good

get_analysis_count(version) == Cardinality({d \in qStarted : qVersion[d] = version})

get_analysed_versions == {qVersion[d] : d \in {e \in qStarted : qFinished[e] # 0}}
-----------------------------------------------------------------------------
QueryInit == /\ qLevel \in {"version", "package"}
             /\ qVersion = [d \in Docs |-> NoVersionId]
             /\ qStarted = {} /\ qClock = 0
             /\ qFinished = [d \in Docs |-> 0]
             /\ qRow = [d \in Docs |-> "none"]
             /\ qUploaded = [d \in Docs |-> 0]
             /\ qReused = [d \in Docs |-> {}]

(* selective_run_function hides the failure of the query.  A normal run    *)
(* does not ask.                                                           *)
BeginAnalysis(d, version, selective) ==
    /\ d \notin qStarted /\ \A e \in Docs \ qStarted : d <= e
    /\ (version = NoVersionId <=> qLevel = "package")
    /\ qStarted' = qStarted \cup {d}
    /\ qVersion' = [qVersion EXCEPT ![d] = version]
    /\ qReused' = [qReused EXCEPT ![d] = IF selective THEN get_latest_task_entry(version, FALSE)
                                         ELSE {}]
    /\ UNCHANGED <<qLevel, qFinished, qRow, qUploaded, qClock>>

(* A task whose entry is reused does not run.                              *)
StoreRow(d, kind) ==
    /\ d \in qStarted /\ qRow[d] = "none" /\ qReused[d] = {} /\ qFinished[d] = 0
    /\ qRow' = [qRow EXCEPT ![d] = kind]
    /\ UNCHANGED <<qLevel, qVersion, qStarted, qFinished, qUploaded, qReused, qClock>>

Tick == qClock' = qClock + 1

FinishAnalysis(d) ==
    /\ d \in qStarted /\ qFinished[d] = 0
    /\ Tick /\ qFinished' = [qFinished EXCEPT ![d] = qClock + 1]
    /\ UNCHANGED <<qLevel, qVersion, qStarted, qRow, qUploaded, qReused>>

(* Variant: the row is replaced without an upload.                         *)
CollectUnsent(d) ==
    /\ qFinished[d] # 0 /\ qRow[d] \in {"real", "error"}
    /\ Tick
    /\ qRow' = [qRow EXCEPT ![d] = IF qRow[d] = "real" THEN "ref" ELSE "error ref"]
    /\ UNCHANGED <<qLevel, qVersion, qStarted, qFinished, qUploaded, qReused>>

CollectRow(d) ==
    /\ qFinished[d] # 0 /\ qRow[d] \in {"real", "error"}
    /\ Tick /\ qUploaded' = [qUploaded EXCEPT ![d] = qClock + 1]
    /\ qRow' = [qRow EXCEPT ![d] = IF qRow[d] = "real" THEN "ref" ELSE "error ref"]
    /\ UNCHANGED <<qLevel, qVersion, qStarted, qFinished, qReused>>

QueryNext == \E d \in Docs :
    \/ \E v \in Versions \cup {NoVersionId}, s \in BOOLEAN : BeginAnalysis(d, v, s)
    \/ \E kind \in {"real", "error"} : StoreRow(d, kind)
    \/ FinishAnalysis(d)
    \/ CollectRow(d)
QuerySpec == QueryInit /\ [][QueryNext]_queryVars
-----------------------------------------------------------------------------
Places == Versions \cup {NoVersionId}

(* A latest result may only be older than one that was complete before if  *)
(* its own analysis is not finished, for finished_at is NULL then.         *)
LatestIsNewest ==
    \A p \in Places : \A d \in LatestRows(p), e \in RowsOf(p, Good) :
        qFinished[d] < qFinished[e] => qFinished[d] = 0

(* An unfinished or stopped analysis hides every complete one.             *)
UnfinishedHidesFinished ==
    \A p \in Places : \A d \in LatestRows(p) :
        qFinished[d] # 0 => \A e \in RowsOf(p, Good) : qFinished[e] # 0

(* The queries skip failed results, but a reference leads to the audit of  *)
(* a failure when that was uploaded after the result it stood for.         *)
FailureOnlyIfUploadedLater ==
    \A p \in Places : \A d \in LatestRows(p) :
        qRow[Content(d)] \in Bad => qUploaded[Content(d)] > qUploaded[d] /\ qUploaded[d] > 0

(* The entry that a selective run reuses is of its own version, did not    *)
(* fail, and never changes to a failure.                                   *)
ReusedIsOfVersion ==
    \A d \in Docs : \A e \in qReused[d] : qRow[e] \in Good /\ qVersion[e] = qVersion[d]

(* What the graph importer names after the collector of the analysis has   *)
(* an object to read, of this analysis or of one collected later.          *)
ImportedWasUploaded ==
    \A d \in Docs : get_finished_task_names(d) /\ qRow[d] # "real" =>
        qUploaded[d] > 0 /\ qUploaded[Object(Place(d))] >= qUploaded[d]

(* What each reader of the results gets, over every order in which analyses *)
(* begin, store, finish and are collected.                                 *)
QueriesExplained ==
    /\ ImportedWasUploaded
    /\ LatestIsNewest
    /\ UnfinishedHidesFinished
    /\ FailureOnlyIfUploadedLater
    /\ ReusedIsOfVersion
=============================================================================
