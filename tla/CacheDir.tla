------------------------------ MODULE CacheDir ------------------------------
(***************************************************************************)
(* The download side of f8a_worker/object_cache.py: files and extracted    *)
(* trees of packages in the directory of one worker, which runs one task   *)
(* at a time (hack/workers.sh).  BaseTask.run wipes the cache after each.  *)
(* S3 is outside; download_file of boto3 renames a complete file.          *)
(***************************************************************************)
EXTENDS Naturals, FiniteSets

CONSTANTS Packages,    (* [maven: BOOLEAN, stored: the objects on S3, odd:  *)
                       (* the tarball's name has no known suffix]           *)
          MaxTasks     (* bound: tasks that are started                     *)

VARIABLES cdMem,       (* keys of ObjectCache._cache                        *)
          cdFiles,     (* package -> files in its directory                 *)
          cdTree,      (* package and archive -> its extracted directory    *)
          cdTask,      (* the running task: [of, kind, pc, want]            *)
          cdGiven,     (* the tree that task works on: "none", or its state *)
          cdFailed,    (* history: an extraction of this task's has failed  *)
          cdDied,      (* history: packages whose task died with the worker *)
          cdTasks

cacheVars == <<cdMem, cdFiles, cdTree, cdTask, cdGiven, cdFailed, cdDied, cdTasks>>

Kinds    == {"digests", "metadata", "source_licenses"}
Archives == {"tarball", "jar"}
Idle     == [pc |-> "idle"]
NoTrees  == [a \in Archives |-> "absent"]

CacheInit == /\ cdMem = {} /\ cdDied = {} /\ cdTasks = 0
             /\ cdFiles = [p \in Packages |-> {}]
             /\ cdTree = [p \in Packages |-> NoTrees]
             /\ cdTask = Idle /\ cdGiven = "none" /\ cdFailed = FALSE

Running(pc) == cdTask.pc = pc

(* What the task asks for: the pom for mercator and the source jar for the *)
(* licenses of a maven package, the tarball of any other.                  *)
Wanted(p, kind) == CASE kind = "metadata" /\ p.maven        -> "pom"
                     [] kind = "source_licenses" /\ p.maven -> "jar"
                     [] OTHER                               -> "tarball"

(* ObjectCache.get.                                                        *)
BeginTask(p, kind) ==
    /\ Running("idle") /\ cdTasks < MaxTasks
    /\ cdTasks' = cdTasks + 1
    /\ cdMem' = cdMem \cup {p}
    /\ cdTask' = [of |-> p, kind |-> kind, want |-> Wanted(p, kind),
                  pc |-> IF kind = "digests" \/ Wanted(p, kind) = "pom" THEN "file" ELSE "tree"]
    /\ cdGiven' = "none" /\ cdFailed' = FALSE
    /\ UNCHANGED <<cdFiles, cdTree, cdDied>>

Goto(pc) == cdTask' = [cdTask EXCEPT !.pc = pc]

(* The license task of a maven package tries the binary jar next, which is *)
(* its tarball; every other exception ends the task.                       *)
Raise == cdTask' = IF cdTask.kind = "source_licenses" /\ cdTask.want = "jar"
                   THEN [of |-> cdTask.of, kind |-> cdTask.kind, pc |-> "tree", want |-> "tarball"]
                   ELSE [cdTask EXCEPT !.pc = "raised"]

TreeHere == cdTree[cdTask.of][cdTask.want]
TreeBecomes(state) == cdTree' = [cdTree EXCEPT ![cdTask.of][cdTask.want] = state]

(* _get_object_cached.  Any request to S3 may fail.                        *)
GetObject ==
    /\ cdTask.want \in cdFiles[cdTask.of] \cup cdTask.of.stored
    /\ cdFiles' = [cdFiles EXCEPT ![cdTask.of] = @ \cup {cdTask.want}]

GetFile == /\ Running("file") /\ GetObject /\ Goto("working")
           /\ UNCHANGED <<cdMem, cdTree, cdGiven, cdFailed, cdDied, cdTasks>>

(* The name of a tarball is in meta.json, which each task reads anew.      *)
GetFails == /\ Running("file") \/ Running("tree")
            /\ \/ cdTask.want = "tarball"
               \/ /\ cdTask.want \notin cdFiles[cdTask.of]
                  /\ Running("tree") => TreeHere = "absent"
            /\ Raise
            /\ UNCHANGED <<cdMem, cdFiles, cdTree, cdGiven, cdFailed, cdDied, cdTasks>>

(* A directory that exists is taken for the whole tree.                    *)
TreeCached == /\ Running("tree") /\ TreeHere # "absent"
              /\ Goto("working") /\ cdGiven' = TreeHere
              /\ UNCHANGED <<cdMem, cdFiles, cdTree, cdFailed, cdDied, cdTasks>>

(* get_extracted_*: the archive, then the directory, then its content.     *)
BeginExtract == /\ Running("tree") /\ TreeHere = "absent"
                /\ GetObject /\ Goto("extract")
                /\ TreeBecomes("partial")
                /\ UNCHANGED <<cdMem, cdGiven, cdFailed, cdDied, cdTasks>>

Extractable == ~(cdTask.of.odd /\ cdTask.want = "tarball")

Extracted == /\ Running("extract") /\ Extractable
             /\ TreeBecomes("full")
             /\ cdGiven' = "full" /\ Goto("working")
             /\ UNCHANGED <<cdMem, cdFiles, cdFailed, cdDied, cdTasks>>

(* unzip or tar fails or times out: get_command_output is graceful, so it  *)
(* is logged and what there is of the tree is returned.                    *)
ExtractFails == /\ Running("extract") /\ Extractable
                /\ cdFailed' = TRUE
                /\ cdGiven' = "partial" /\ Goto("working")
                /\ UNCHANGED <<cdMem, cdFiles, cdTree, cdDied, cdTasks>>

(* ValueError for the name, OSError for the command: the tree is removed.  *)
ExtractRaises == /\ Running("extract")
                 /\ TreeBecomes("absent")
                 /\ Raise
                 /\ UNCHANGED <<cdMem, cdFiles, cdGiven, cdFailed, cdDied, cdTasks>>

(* Variant: the cache is forgotten and its files stay.                     *)
EndTaskForgets ==
    /\ Running("working") \/ Running("raised")
    /\ cdMem' = {} /\ cdTask' = Idle /\ cdGiven' = "none"
    /\ UNCHANGED <<cdFiles, cdTree, cdFailed, cdDied, cdTasks>>

(* ObjectCache.wipe, in the finally of BaseTask.run.                       *)
EndTask ==
    /\ Running("working") \/ Running("raised")
    /\ cdFiles' = [p \in Packages |-> IF p \in cdMem THEN {} ELSE cdFiles[p]]
    /\ cdTree' = [p \in Packages |-> IF p \in cdMem THEN NoTrees ELSE cdTree[p]]
    /\ cdDied' = cdDied \ cdMem
    /\ cdMem' = {} /\ cdTask' = Idle /\ cdGiven' = "none"
    /\ UNCHANGED <<cdFailed, cdTasks>>

(* The worker dies and a new one starts on the same directory, or on a new *)
(* one if the container does not keep it.                                  *)
WorkerDies(kept) ==
    /\ ~Running("idle")
    /\ cdMem' = {} /\ cdTask' = Idle /\ cdGiven' = "none"
    /\ cdFiles' = IF kept THEN cdFiles ELSE [p \in Packages |-> {}]
    /\ cdTree' = IF kept THEN cdTree ELSE [p \in Packages |-> NoTrees]
    /\ cdDied' = IF kept THEN cdDied \cup {cdTask.of} ELSE {}
    /\ UNCHANGED <<cdFailed, cdTasks>>

CacheNext == \/ \E p \in Packages, kind \in Kinds : BeginTask(p, kind)
             \/ GetFile \/ GetFails \/ TreeCached \/ BeginExtract
             \/ Extracted \/ ExtractFails \/ ExtractRaises \/ EndTask
             \/ \E kept \in BOOLEAN : WorkerDies(kept)

CacheSpec == CacheInit /\ [][CacheNext]_cacheVars
-----------------------------------------------------------------------------
(* A task gets an incomplete tree only if the command of its own failed,   *)
(* or the worker died in an earlier task of the same package: the trees of *)
(* other tasks, and of attempts that raised, are out of reach.             *)
IncompleteHasCause ==
    cdGiven = "partial" => cdFailed \/ cdTask.of \in cdDied

(* Between tasks nothing is left of a package, unless a worker died in one *)
(* of its tasks and none has ended since: the directory does not fill up.  *)
NothingOutlivesItsTask ==
    Running("idle") =>
        \A p \in Packages \ cdDied : cdFiles[p] = {} /\ \A a \in Archives : cdTree[p][a] = "absent"

(* An attempt that raised leaves no directory for the next one to find.    *)
RaisedIsRetried ==
    Running("raised") \/ Running("tree") =>
        \A p \in Packages \ cdDied, a \in Archives : cdTree[p][a] # "partial"

(* No task is given what another one left, but for workers that died.      *)
CacheIsSound ==
    /\ IncompleteHasCause
    /\ NothingOutlivesItsTask
    /\ RaisedIsRetried
=============================================================================
