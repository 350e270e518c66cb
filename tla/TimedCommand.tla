---------------------------- MODULE TimedCommand ----------------------------
(***************************************************************************)
(* f8a_worker/utils.py: TimedCommand.run, a command run by a helper thread *)
(* while the caller waits for the thread with a timeout, and               *)
(* get_command_output, which waits for the command itself.                 *)
(*                                                                         *)
(* The command is started without a session of its own, so that its        *)
(* process group is the group of the worker that runs the task; it may     *)
(* leave descendants that hold its output open, in the same group.         *)
(***************************************************************************)
EXTENDS Naturals

CONSTANT MaxDescendants

VARIABLES cmdApi,      (* "run" or "get_command_output"                     *)
          cmdCaller,   (* where the caller is, or how the call ended        *)
          cmdThread,   (* the helper thread                                 *)
          cmdProcess,  (* the command: "none", "running", "exited" (nobody  *)
                       (* waited for it yet), "reaped"                      *)
          descendants, (* descendants of the command that hold its output   *)
          cmdKilled,   (* the command was killed                            *)
          cmdOutput    (* what self.output and self.status hold             *)

cmdVars == <<cmdApi, cmdCaller, cmdThread, cmdProcess, descendants, cmdKilled, cmdOutput>>

CommandInit == /\ cmdApi \in {"run", "get_command_output"}
               /\ cmdCaller = "start" /\ cmdThread = "new" /\ cmdProcess = "none"
               /\ descendants = 0 /\ cmdKilled = FALSE /\ cmdOutput = "unset"

ThreadStart == /\ cmdApi = "run" /\ cmdCaller = "start"
               /\ cmdCaller' = "joining" /\ cmdThread' = "starting"
               /\ UNCHANGED <<cmdApi, cmdProcess, descendants, cmdKilled, cmdOutput>>

(* Popen raises: the except branch sets an empty output and status -1.     *)
PopenFails == /\ cmdThread = "starting"
              /\ cmdThread' = "ended" /\ cmdOutput' = "empty, status -1"
              /\ UNCHANGED <<cmdApi, cmdCaller, cmdProcess, descendants, cmdKilled>>

Popen == /\ cmdThread = "starting"
         /\ cmdThread' = "communicating" /\ cmdProcess' = "running"
         /\ UNCHANGED <<cmdApi, cmdCaller, descendants, cmdKilled, cmdOutput>>

CommandForks == /\ cmdProcess = "running" /\ descendants < MaxDescendants
                /\ descendants' = descendants + 1
                /\ UNCHANGED <<cmdApi, cmdCaller, cmdThread, cmdProcess, cmdKilled, cmdOutput>>

CommandExits == /\ cmdProcess = "running"
                /\ cmdProcess' = "exited"
                /\ UNCHANGED <<cmdApi, cmdCaller, cmdThread, descendants, cmdKilled, cmdOutput>>

DescendantExits == /\ descendants > 0
                   /\ descendants' = descendants - 1
                   /\ UNCHANGED <<cmdApi, cmdCaller, cmdThread, cmdProcess, cmdKilled, cmdOutput>>

(* communicate: the end of the output, then wait; the thread ends.         *)
Communicate == /\ cmdThread = "communicating" /\ cmdProcess = "exited" /\ descendants = 0
               /\ cmdProcess' = "reaped" /\ cmdThread' = "ended"
               /\ cmdOutput' = IF cmdKilled THEN "partial" ELSE "whole"
               /\ UNCHANGED <<cmdApi, cmdCaller, descendants, cmdKilled>>

(* thread.join returns: the thread ended, or the time is up.  The join     *)
(* after the kill has no timeout.                                          *)
JoinReturns == /\ cmdCaller \in {"joining", "joining for good"} /\ cmdThread = "ended"
               /\ cmdCaller' = "returned"
               /\ UNCHANGED <<cmdApi, cmdThread, cmdProcess, descendants, cmdKilled, cmdOutput>>

JoinTimesOut == /\ cmdCaller = "joining" /\ cmdThread # "ended"
                /\ cmdCaller' = "killing"
                /\ UNCHANGED <<cmdApi, cmdThread, cmdProcess, descendants, cmdKilled, cmdOutput>>

(* Variant: the command alone is killed.                                   *)
KillCommand == /\ cmdCaller = "killing"
               /\ cmdCaller' = "joining for good"
               /\ IF cmdProcess \in {"none", "reaped"} THEN UNCHANGED <<cmdProcess, cmdKilled>>
                  ELSE cmdProcess' = "exited" /\ cmdKilled' = TRUE
               /\ UNCHANGED <<cmdApi, cmdThread, descendants, cmdOutput>>

(* killpg(getpgid(self.process.pid)): no such attribute before Popen, no   *)
(* such process once it was waited for; otherwise everything in the group  *)
(* is killed, the caller included.                                         *)
KillGroup == /\ cmdCaller = "killing"
             /\ IF cmdProcess \in {"none", "reaped"}
                THEN /\ cmdCaller' = "raised"
                     /\ UNCHANGED <<cmdThread, cmdProcess, descendants, cmdKilled>>
                ELSE /\ cmdCaller' = "worker killed" /\ cmdThread' = "ended"
                     /\ cmdProcess' = "reaped" /\ cmdKilled' = TRUE
                     /\ descendants' = 0
             /\ UNCHANGED <<cmdApi, cmdOutput>>
-----------------------------------------------------------------------------
(* get_command_output: check_output waits in the caller; when the time is  *)
(* up it kills the command alone and reads its output to the end.          *)
CheckOutput == /\ cmdApi = "get_command_output" /\ cmdCaller = "start"
               /\ cmdCaller' = "communicating" /\ cmdProcess' = "running"
               /\ UNCHANGED <<cmdApi, cmdThread, descendants, cmdKilled, cmdOutput>>

CheckOutputTimesOut == /\ cmdCaller = "communicating"
                       /\ ~(cmdProcess = "exited" /\ descendants = 0)
                       /\ cmdCaller' = "draining" /\ cmdProcess' = "exited"
                       /\ cmdKilled' = TRUE
                       /\ UNCHANGED <<cmdApi, cmdThread, descendants, cmdOutput>>

(* Variant: the output of a killed command is not read to its end.         *)
CheckOutputUndrained ==
    /\ cmdCaller \in {"communicating", "draining"} /\ cmdProcess = "exited"
    /\ cmdCaller = "communicating" => descendants = 0
    /\ cmdProcess' = "reaped"
    /\ cmdOutput' = "empty, status -1" /\ cmdCaller' \in {"returned", "raised"}
    /\ UNCHANGED <<cmdApi, cmdThread, descendants, cmdKilled>>

(* The output of a command that was killed or failed is dropped: [] when   *)
(* graceful, TaskError otherwise.                                          *)
CheckOutputEnds ==
    /\ cmdCaller \in {"communicating", "draining"} /\ cmdProcess = "exited" /\ descendants = 0
    /\ cmdProcess' = "reaped"
    /\ \/ cmdCaller = "communicating" /\ cmdOutput' = "whole" /\ cmdCaller' = "returned"
       \/ cmdOutput' = "empty, status -1" /\ cmdCaller' \in {"returned", "raised"}
    /\ UNCHANGED <<cmdApi, cmdThread, descendants, cmdKilled>>

CommandNext == \/ ThreadStart \/ PopenFails \/ Popen \/ CommandForks \/ CommandExits
               \/ DescendantExits \/ Communicate \/ JoinReturns \/ JoinTimesOut \/ KillGroup
               \/ CheckOutput \/ CheckOutputTimesOut \/ CheckOutputEnds
CommandSpec == CommandInit /\ [][CommandNext]_cmdVars
-----------------------------------------------------------------------------
(* A caller that gets an answer gets the whole output of the command or    *)
(* the mark that there is none, never what a killed command had written.   *)
NoPartialOutput == cmdCaller = "returned" => cmdOutput \in {"whole", "empty, status -1"}

(* The two kinds of timeout leave nothing behind: when a call ended, its   *)
(* command was waited for and has no descendant left.                      *)
NothingLeftBehind ==
    cmdCaller \in {"returned", "worker killed"} =>
        cmdProcess \in {"none", "reaped"} /\ descendants = 0

(* run ends whatever the command does: by an answer, an exception, or the  *)
(* death of the worker.                                                    *)
RunEnds == (cmdCaller = "joining") ~> cmdCaller \in {"returned", "raised", "worker killed"}

(* No output of a killed command gets out, and nothing of it stays.        *)
CallIsContained == NoPartialOutput /\ NothingLeftBehind
=============================================================================
