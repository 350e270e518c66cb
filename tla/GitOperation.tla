----------------------------- MODULE GitOperation -----------------------------
(***************************************************************************)
(* workers/git_operations.py: one worker runs tasks one after the other,   *)
(* on a directory below /tmp/clonedRepos that is named by the last part of *)
(* the URL, and with one FuturesSession whose threads send the requests.   *)
(* The session has one set of headers: a request carries those that are    *)
(* set when its thread prepares it.                                        *)
(***************************************************************************)
EXTENDS Naturals, FiniteSets

CONSTANTS Runs,      (* [url, dir, eco, scan]: messages of the task        *)
          MaxRuns    (* bound: executions that are started                 *)
ASSUME GitAssumption == Runs # {}

VARIABLES goRun, goPc,     (* the message and the step of the running task *)
          goNo,            (* number of the execution                      *)
          goClones,        (* directory -> [url, outputs]: what is in it,  *)
                           (* the executions that wrote its dependencies   *)
          goFiles,         (* [url, outputs] of the file that was opened   *)
          goHeader,        (* header git-url of the session                *)
          goWaiting,       (* requests no thread has prepared: [of, to]    *)
          goSent,          (* requests that were sent: [of, to, header]    *)
          goLeft           (* history: directories of runs that ended early*)

goVars == <<goRun, goPc, goNo, goClones, goFiles, goHeader, goWaiting, goSent, goLeft>>

Dirs == {r.dir : r \in Runs}
Empty == [url |-> "none", outputs |-> {}]
Call(to) == [of |-> goRun.url, no |-> goNo, to |-> to]

GitInit == /\ goPc = "idle" /\ goNo = 0 /\ goRun = CHOOSE r \in Runs : TRUE
           /\ goClones = [d \in Dirs |-> Empty] /\ goFiles = Empty
           /\ goHeader = "none" /\ goWaiting = {} /\ goSent = {} /\ goLeft = {}

GitStep(from, to) == goPc = from /\ goPc' = to

(* Variant: a clone that is there is used again.                           *)
BeginRunReuses(r) ==
    /\ GitStep("idle", IF goClones[r.dir] = Empty THEN "clone" ELSE "generate") /\ goNo < MaxRuns
    /\ goRun' = r /\ goNo' = goNo + 1 /\ goFiles' = Empty
    /\ UNCHANGED <<goClones, goHeader, goWaiting, goSent, goLeft>>

(* create_repo_and_generate_files: rm -rf, whatever is there.              *)
BeginRun(r) ==
    /\ GitStep("idle", "clone") /\ goNo < MaxRuns
    /\ goRun' = r /\ goNo' = goNo + 1 /\ goFiles' = Empty
    /\ goClones' = [goClones EXCEPT ![r.dir] = Empty]
    /\ goLeft' = goLeft \ {r.dir}
    /\ UNCHANGED <<goHeader, goWaiting, goSent>>

Clone == /\ GitStep("clone", "generate")
         /\ goClones' = [goClones EXCEPT ![goRun.dir] = [url |-> goRun.url, outputs |-> {}]]
         /\ UNCHANGED <<goRun, goNo, goFiles, goHeader, goWaiting, goSent, goLeft>>

(* mvn appends to its output file, npm list writes a new one; nobody looks *)
(* at their exit status, only at the file.                                 *)
Generate == /\ GitStep("generate", "read") /\ goRun.eco \in {"maven", "npm"}
            /\ goClones' = [goClones EXCEPT ![goRun.dir].outputs =
                               IF goRun.eco = "maven" THEN @ \cup {goNo} ELSE {goNo}]
            /\ goFiles' = goClones'[goRun.dir]
            /\ UNCHANGED <<goRun, goNo, goHeader, goWaiting, goSent, goLeft>>

(* No clone, no output file, another ecosystem: no manifests, and the task *)
(* returns early.  Its directory stays, as it does when the dependencies   *)
(* turn out empty or cannot be read.                                       *)
ReturnEarly == /\ goPc \in {"clone", "generate", "read", "scanned"} /\ goPc' = "idle"
               /\ goPc = "read" => ~goRun.scan \* after the call to gemini
               /\ goLeft' = goLeft \cup {goRun.dir}
               /\ UNCHANGED <<goRun, goNo, goClones, goFiles, goHeader, goWaiting, goSent>>

(* DependencyFinder raises.                                                *)
ScanRaises == /\ GitStep("read", "idle")
              /\ goLeft' = goLeft \cup {goRun.dir}
              /\ UNCHANGED <<goRun, goNo, goClones, goFiles, goHeader, goWaiting, goSent>>

(* gemini_call_for_cve_scan sets the header and waits for the response, or *)
(* for an error that is logged.                                            *)
SetHeader == /\ GitStep("read", "wait") /\ goRun.scan
             /\ goHeader' = goRun.url
             /\ goWaiting' = goWaiting \cup {Call("gemini")}
             /\ UNCHANGED <<goRun, goNo, goClones, goFiles, goSent, goLeft>>

Answered == /\ GitStep("wait", "scanned") /\ Call("gemini") \notin goWaiting
            /\ UNCHANGED <<goRun, goNo, goClones, goFiles, goHeader, goWaiting, goSent, goLeft>>

(* A thread prepares the request and sends it.                             *)
SendCall(c) == /\ c \in goWaiting /\ goWaiting' = goWaiting \ {c}
               /\ goSent' = goSent \cup {[call |-> c, header |-> goHeader]}
               /\ UNCHANGED <<goRun, goPc, goNo, goClones, goFiles, goHeader, goLeft>>

(* backbone_for_stack_analysis submits two requests and waits for neither; *)
(* then the clone is removed.                                              *)
CallBackbone == /\ goPc \in {"read", "scanned"} /\ goPc' = "idle"
                /\ goPc = "read" => ~goRun.scan
                /\ goWaiting' = goWaiting \cup {Call("aggregator"), Call("recommender")}
                /\ goClones' = [goClones EXCEPT ![goRun.dir] = Empty]
                /\ UNCHANGED <<goRun, goNo, goFiles, goHeader, goSent, goLeft>>

(* The worker dies, with its session and the requests that wait; a new one *)
(* has the directory.                                                      *)
GitWorkerDies == /\ goPc # "idle" /\ goPc' = "idle"
                 /\ goHeader' = "none" /\ goWaiting' = {}
                 /\ goLeft' = goLeft \cup {goRun.dir}
                 /\ UNCHANGED <<goRun, goNo, goClones, goFiles, goSent>>

GitNext == \/ \E r \in Runs : BeginRun(r)
           \/ Clone \/ Generate \/ ReturnEarly \/ ScanRaises \/ SetHeader \/ Answered
           \/ \E c \in goWaiting : SendCall(c)
           \/ CallBackbone \/ GitWorkerDies

GitSpec == GitInit /\ [][GitNext]_goVars
-----------------------------------------------------------------------------
(* The dependencies that are reported are of the run's own repository and  *)
(* its own commands, whatever an earlier run of a repository of the same   *)
(* name, or an earlier attempt, has left in the directory.                 *)
FilesAreOfOwnRun ==
    goPc \in {"read", "wait", "scanned"} =>
        goFiles = [url |-> goRun.url, outputs |-> {goNo}]

(* A scan is of the repository it names: the header is not changed for a   *)
(* later run before the request is prepared.  (The requests to the         *)
(* backbone have no such guarantee: they carry the URL of any run that set *)
(* the header before they were prepared.)                                  *)
ScanNamesItsRepo ==
    \A s \in goSent : s.call.to = "gemini" => s.header = s.call.of

(* A clone stays only of a run that ended early.                           *)
CloneLeftHasCause ==
    goPc = "idle" => \A d \in Dirs : goClones[d] # Empty => d \in goLeft

(* Runs that share directories and a session do not get at each other.     *)
RunsAreApart == FilesAreOfOwnRun /\ ScanNamesItsRepo /\ CloneLeftHasCause
=============================================================================
