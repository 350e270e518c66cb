----------------------------- MODULE InitPromise -----------------------------
(***************************************************************************)
(* What the flows of package versions rely on of their initialisation,     *)
(* whatever it stores and fetches on the way: it counts the analyses of    *)
(* the version at one moment, skips the version when there are some and    *)
(* the flow is not forced, and adds at most one, later.  Another flow may  *)
(* add its own in between, and nothing but this adds or removes one.       *)
(***************************************************************************)
CONSTANTS Flows, Versions

VARIABLES of,      (* the version of a flow                                  *)
          forced,  (* the flow analyses what has an analysis                 *)
          at       (* what the initialisation of a flow has come to          *)

Init == /\ of \in [Flows -> Versions]
        /\ at = [f \in Flows |-> "ready"]

Analysed(e) == \E f \in Flows : at[f] = "analysed" /\ of[f] = e

Move(f, from, to) == /\ at[f] = from
                     /\ at' = [at EXCEPT ![f] = to]
                     /\ UNCHANGED <<of, forced>>

(* A flow that has not started may still be given a version. *)
Assign(f, e) == /\ at[f] = "ready"
                /\ of' = [of EXCEPT ![f] = e]
                /\ UNCHANGED <<forced, at>>

Count(f) == Move(f, "ready", IF Analysed(of[f]) /\ ~forced[f] THEN "skipped" ELSE "counted")
Add(f)   == Move(f, "counted", "analysed")
Fail(f)  == Move(f, "ready", "failed") \/ Move(f, "counted", "failed")

Next == \E f \in Flows : Count(f) \/ Add(f) \/ Fail(f) \/ \E e \in Versions : Assign(f, e)
Spec == Init /\ [][Next]_<<of, forced, at>>
=============================================================================
