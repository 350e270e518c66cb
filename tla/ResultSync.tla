----------------------------- MODULE ResultSync -----------------------------
(***************************************************************************)
(* ResultCollector and PackageResultCollector for one package version or   *)
(* package (f8a_worker/workers/result_collector.py,                        *)
(* f8a_worker/storages/s3_data_base.py).                                   *)
(*                                                                         *)
(* The collector of an analysis uploads the results of its tasks to S3,    *)
(* replaces each row by a reference to its S3 version and adds the tasks   *)
(* to the base file, which it reads, changes and writes.  It overrides     *)
(* BaseTask.run, so nothing stops a redelivered message from running it    *)
(* again, even at the same time.  S3 keys do not depend on the analysis:   *)
(* all analyses of a version share the object of a task, and its base      *)
(* file.  Every request, and every UPDATE of the flush (AUTOCOMMIT), is    *)
(* one step.  The flag synced2graph of the version, which the collector    *)
(* clears, is left out: it is FALSE from the start and nothing in the      *)
(* repository sets it.                                                     *)
(***************************************************************************)
EXTENDS Naturals

CONSTANTS
    Analyses,      (* document ids of the package version or package         *)
    Tasks,         (* lowercase task names                                   *)
    Collectors,    (* celery workers that run collectors                     *)
    None,          (* the document of an idle collector                      *)
    PackageLevel,  (* PackageResultCollector, not ResultCollector            *)
    MaxRepeats     (* bound: messages delivered twice or after a crash       *)

ASSUME ResultSyncAssumption ==
    /\ None \notin Analyses
    /\ PackageLevel \in BOOLEAN
    /\ MaxRepeats \in Nat

VARIABLES
    row,         (* task_result and error of the row of a task of an analysis *)
    obj,         (* the latest version of the S3 object of a task            *)
    base,        (* the analyses listed in the base file                     *)
    queue,       (* messages for the collector of an analysis                *)
    repeats,     (* messages delivered twice, or again after a crash         *)
    pc, doc,     (* the step of a collector and its analysis                 *)
    loaded,      (* the rows of the analysis as it loaded them               *)
    todo,        (* those it has not uploaded yet                            *)
    pending,     (* rows it has uploaded and changed in its session          *)
    names,       (* tasks in the record that it adds to the base file        *)
    old,         (* tasks in the base file as it read it                     *)
    finished,    (* history: analyses with a collector that has ended well   *)
    gaveUp,      (* history: analyses with a collector that failed           *)
    overlapped   (* history: two collectors ran at the same time             *)

broker  == <<queue, repeats>>
session == <<loaded, todo, pending, names, old>>
history == <<finished, gaveUp, overlapped>>
vars    == <<row, obj, base, broker, pc, doc, session, history>>

(* A failed task leaves an audit with error set, or no result at all. *)
Outcomes == {"none", "result", "error_audit", "error_empty"}
Real     == {"result", "error_audit"}
References == {"ref", "error_ref"}
Contents == Outcomes \cup References
NoRows   == [t \in Tasks |-> "none"]
PCs      == {"idle", "upload", "flush", "record", "write", "ended", "failed"}

Init == /\ row = [a \in Analyses |-> NoRows]
        /\ obj = NoRows
        /\ base = {}
        /\ queue = [a \in Analyses |-> 0]
        /\ repeats = 0
        /\ pc = [c \in Collectors |-> "idle"]
        /\ doc = [c \in Collectors |-> None]
        /\ loaded = [c \in Collectors |-> NoRows]
        /\ todo = [c \in Collectors |-> {}]
        /\ pending = [c \in Collectors |-> {}]
        /\ names = [c \in Collectors |-> {}]
        /\ old = [c \in Collectors |-> {}]
        /\ finished = {}
        /\ gaveUp = {}
        /\ overlapped = FALSE

Goto(c, step) == pc' = [pc EXCEPT ![c] = step]
Step(c, from, to) == pc[c] = from /\ Goto(c, to) /\ UNCHANGED doc

(* The rows of an analysis that hold a result of their own. *)
RealRows(a) == {t \in Tasks : row[a][t] \in Real}

(* The worker names in the dictionary of an analysis: PackageAnalysis has  *)
(* no analyses in its to_dict.                                             *)
Listed(a) == IF PackageLevel THEN {} ELSE {t \in Tasks : row[a][t] # "none"}

(* The assignment replaces task_result and leaves error as it is. *)
ReferenceTo(r) == IF r \in {"error_audit", "error_ref"} THEN "error_ref" ELSE "ref"

-----------------------------------------------------------------------------
(* The tasks of an analysis have run, its flow schedules the collector.    *)
Analyse(a) ==
    /\ queue[a] = 0
    /\ row[a] = NoRows
    /\ \E outcome \in [Tasks -> Outcomes] :
          /\ outcome # row[a]
          /\ row' = [row EXCEPT ![a] = outcome]
    /\ queue' = [queue EXCEPT ![a] = 1]
    /\ UNCHANGED <<obj, base, repeats, pc, doc, session, history>>

(* The broker delivers a message twice. *)
Copy(a) ==
    /\ repeats < MaxRepeats
    /\ row[a] # NoRows
    /\ repeats' = repeats + 1
    /\ queue' = [queue EXCEPT ![a] = @ + 1]
    /\ UNCHANGED <<row, obj, base, pc, doc, session, history>>

(* Variant: every row is uploaded, references included. *)
LoadAll(c, a) ==
    /\ pc[c] = "idle"
    /\ queue[a] > 0
    /\ queue' = [queue EXCEPT ![a] = @ - 1]
    /\ Goto(c, "upload")
    /\ doc' = [doc EXCEPT ![c] = a]
    /\ loaded' = [loaded EXCEPT ![c] = row[a]]
    /\ todo' = [todo EXCEPT ![c] = {t \in Tasks : row[a][t] # "none"}]
    /\ overlapped' = (overlapped \/ \E d \in Collectors : pc[d] # "idle")
    /\ UNCHANGED <<row, obj, base, repeats, pending, names, old, finished, gaveUp>>

(* The collector loads the rows; references, and rows without a result,    *)
(* are left out.                                                           *)
Load(c, a) ==
    /\ pc[c] = "idle"
    /\ queue[a] > 0
    /\ queue' = [queue EXCEPT ![a] = @ - 1]
    /\ Goto(c, "upload")
    /\ doc' = [doc EXCEPT ![c] = a]
    /\ loaded' = [loaded EXCEPT ![c] = row[a]]
    /\ todo' = [todo EXCEPT ![c] = RealRows(a)]
    /\ overlapped' = (overlapped \/ \E d \in Collectors : pc[d] # "idle")
    /\ UNCHANGED <<row, obj, base, repeats, pending, names, old, finished, gaveUp>>

(* store_task_result: the object is replaced whatever it holds, also by    *)
(* the audit of a failed task.                                             *)
Upload(c, t) ==
    /\ pc[c] = "upload"
    /\ t \in todo[c]
    /\ obj' = [obj EXCEPT ![t] = loaded[c][t]]
    /\ todo' = [todo EXCEPT ![c] = @ \ {t}]
    /\ pending' = [pending EXCEPT ![c] = @ \cup {t}]
    /\ UNCHANGED <<row, base, broker, pc, doc, loaded, names, old, history>>

(* Variant: the rows are changed and committed before the uploads. *)
CommitFirst(c) ==
    /\ Step(c, "upload", "flush")
    /\ pending' = [pending EXCEPT ![c] = @ \cup todo[c]]
    /\ UNCHANGED <<row, obj, base, broker, loaded, todo, names, old, history>>

Commit(c) ==
    /\ Step(c, "upload", "flush")
    /\ todo[c] = {}
    /\ UNCHANGED <<row, obj, base, broker, session, history>>

(* One UPDATE of the flush. *)
UpdateRow(c, t) ==
    /\ pc[c] = "flush"
    /\ t \in pending[c]
    /\ row' = [row EXCEPT ![doc[c]][t] = ReferenceTo(@)]
    /\ pending' = [pending EXCEPT ![c] = @ \ {t}]
    /\ UNCHANGED <<obj, base, broker, pc, doc, loaded, todo, names, old, history>>

(* to_dict, after the commit. *)
Record(c) ==
    /\ Step(c, "flush", "record")
    /\ pending[c] = {}
    /\ names' = [names EXCEPT ![c] = Listed(doc[c])]
    /\ UNCHANGED <<row, obj, base, broker, loaded, todo, pending, old, history>>

(* Variant: what was in the base file is not read. *)
ReadNothing(c) ==
    /\ Step(c, "record", "write")
    /\ old' = [old EXCEPT ![c] = {}]
    /\ UNCHANGED <<row, obj, base, broker, loaded, todo, pending, names, history>>

ReadBase(c) ==
    /\ Step(c, "record", "write")
    /\ old' = [old EXCEPT ![c] = base]
    /\ UNCHANGED <<row, obj, base, broker, loaded, todo, pending, names, history>>

WriteBase(c) ==
    /\ Step(c, "write", "ended")
    /\ base' = old[c] \cup names[c]
    /\ finished' = finished \cup {doc[c]}
    /\ UNCHANGED <<row, obj, broker, session, gaveUp, overlapped>>

(* A request or a statement fails; a collector is not retried. *)
Fail(c) ==
    /\ pc[c] \in {"upload", "flush", "record", "write"}
    /\ Step(c, pc[c], "failed")
    /\ gaveUp' = gaveUp \cup {doc[c]}
    /\ UNCHANGED <<row, obj, base, broker, session, finished, overlapped>>

Idle(c) == /\ Goto(c, "idle")
           /\ doc' = [doc EXCEPT ![c] = None]
           /\ loaded' = [loaded EXCEPT ![c] = NoRows]
           /\ todo' = [todo EXCEPT ![c] = {}]
           /\ pending' = [pending EXCEPT ![c] = {}]
           /\ names' = [names EXCEPT ![c] = {}]
           /\ old' = [old EXCEPT ![c] = {}]
           /\ UNCHANGED <<row, obj, base, history>>

(* The message is acknowledged late. *)
Acknowledge(c) ==
    /\ pc[c] \in {"ended", "failed"}
    /\ Idle(c)
    /\ UNCHANGED <<queue, repeats>>

(* Variant: a message is acknowledged when it is taken. *)
CrashLosesMessage(c) ==
    /\ pc[c] # "idle"
    /\ repeats < MaxRepeats
    /\ repeats' = repeats + 1
    /\ Idle(c)
    /\ UNCHANGED queue

(* The worker dies and its message comes back. *)
Crash(c) ==
    /\ pc[c] # "idle"
    /\ repeats < MaxRepeats
    /\ repeats' = repeats + 1
    /\ queue' = [queue EXCEPT ![doc[c]] = @ + 1]
    /\ Idle(c)

Run(c) == \/ \E t \in Tasks : Upload(c, t) \/ UpdateRow(c, t)
          \/ Commit(c) \/ Record(c) \/ ReadBase(c) \/ WriteBase(c) \/ Acknowledge(c)

Next == \/ \E a \in Analyses : Analyse(a) \/ Copy(a) \/ \E c \in Collectors : Load(c, a)
        \/ \E c \in Collectors : Run(c) \/ Fail(c) \/ Crash(c)

Spec == Init /\ [][Next]_vars

-----------------------------------------------------------------------------
TypeOK ==
    /\ row \in [Analyses -> [Tasks -> Contents]]
    /\ obj \in [Tasks -> Contents]
    /\ base \subseteq Tasks
    /\ queue \in [Analyses -> Nat]
    /\ repeats \in 0..MaxRepeats
    /\ pc \in [Collectors -> PCs]
    /\ doc \in [Collectors -> Analyses \cup {None}]
    /\ loaded \in [Collectors -> [Tasks -> Contents]]
    /\ todo \in [Collectors -> SUBSET Tasks]
    /\ pending \in [Collectors -> SUBSET Tasks]
    /\ names \in [Collectors -> SUBSET Tasks]
    /\ old \in [Collectors -> SUBSET Tasks]
    /\ finished \subseteq Analyses
    /\ gaveUp \subseteq Analyses
    /\ overlapped \in BOOLEAN
    /\ \A c \in Collectors : pc[c] # "idle" => doc[c] \in Analyses

(* A row that is a reference can be read: the object of its task is on S3, *)
(* wherever collectors die or fail and however often they run.             *)
ReferenceResolves ==
    \A a \in Analyses, t \in Tasks : row[a][t] \in References => obj[t] # "none"

(* "Do not overwrite results stored on S3 with references to their         *)
(* version": an object holds what a task left, whatever reruns of a        *)
(* collector have found in the rows.                                       *)
S3HoldsResults == \A t \in Tasks : obj[t] \notin References

(* When collectors do not overlap, the base file lists every task of every *)
(* analysis whose collector has ended, also after a crash in the middle    *)
(* ("Add info about analyses available", store_base_file_record).          *)
BaseListsCollected ==
    ~overlapped => \A a \in finished, t \in Tasks : row[a][t] # "none" => t \in base

(* No result is left behind: when no message and no collector is left for  *)
(* an analysis, its results are references, unless a collector failed on   *)
(* it.  Crashes only delay this.                                           *)
NothingLeftBehind ==
    \A a \in Analyses :
        queue[a] = 0 /\ (\A c \in Collectors : doc[c] # a)
            => RealRows(a) = {} \/ a \in gaveUp
=============================================================================
