------------------------------ MODULE Ingestion ------------------------------
(***************************************************************************)
(* What recursive ingestion promises to whoever asked for it, with         *)
(* whatever number of flows, in whatever order: nothing is ingested but    *)
(* the root, with the limit that was asked for, and dependencies of what   *)
(* is ingested, with one less.                                             *)
(***************************************************************************)
EXTENDS Naturals

CONSTANTS Versions,      (* ecosystem/package/version triplets              *)
          Dependencies,  (* the versions that a version depends on          *)
          Root, Limit    (* what was asked for                              *)

VARIABLE ingested        (* what has an analysis, with the limit it had     *)

(* One of its dependants is ingested and has one step left for it. *)
HasDependant(e, n) ==
    \E i \in ingested : e \in Dependencies[i.version] /\ i.limit = n + 1

Ingest(e, n) ==
    /\ (e = Root /\ n = Limit) \/ HasDependant(e, n)
    /\ ingested' = ingested \cup {[version |-> e, limit |-> n]}

Init == ingested = {}
Next == \E e \in Versions, n \in 0..Limit : Ingest(e, n)
Spec == Init /\ [][Next]_ingested
=============================================================================
