------------------------------ MODULE Bookkeeper ------------------------------
(***************************************************************************)
(* f8a_worker/workers/bookkeeper.py and store_api_requests_post of         *)
(* storages/postgres.py: what a request leaves in the graph and in         *)
(* component_analyses_requests.  Messages come at least once, and          *)
(* deliveries of one overlap; one that goes no further died.  The graph is *)
(* outside: a query is one transaction there, but its answer may be lost.  *)
(***************************************************************************)
EXTENDS Naturals, Sequences, FiniteSets

CONSTANTS Users,
          Components,    (* packages of the graph, a version each           *)
          Requests,      (* [id, api, user, manifests, whole]: the resolved *)
                         (* components of each manifest, None for one       *)
                         (* without a version; whole: all columns that may  *)
                         (* not be NULL are set                             *)
          MaxDeliveries  (* bound: deliveries of a message                  *)
ASSUME BookAssumption == IsFiniteSet(Users)

VARIABLES bkTaken,       (* deliveries of each request so far               *)
          bkAt,          (* the queries that each delivery has sent         *)
          bkUses,        (* edges from users to components                  *)
          bkCount,       (* osio_usage_count of a component                 *)
          bkRows,        (* rows of the table for each request              *)
          bkUnsaved,     (* history: the queries that were logged as failed *)
          bkRaised       (* history: deliveries whose task raised           *)

bookVars == <<bkTaken, bkAt, bkUses, bkCount, bkRows, bkUnsaved, bkRaised>>

BookInit == /\ bkTaken = [r \in Requests |-> 0]
            /\ bkAt = [r \in Requests |-> [n \in 1..MaxDeliveries |-> 0]]
            /\ bkUses = {} /\ bkUnsaved = {}
            /\ bkCount = [c \in Components |-> 0]
            /\ bkRows = [r \in Requests |-> 0]
            /\ bkRaised = [r \in Requests |-> 0]

(* The loop of store_user_node turns to its next manifest.  A stack        *)
(* analysis without the address of a user leaves nothing.                  *)
DepsAt(r, n) == r.manifests[bkAt[r][n] + 1]

NextManifest(r, n) ==
    /\ r.api = "stack_analyses" /\ r.user \in Users
    /\ n <= bkTaken[r] + 1 /\ bkAt[r][n] < Len(r.manifests)
    /\ bkAt' = [bkAt EXCEPT ![r][n] = @ + 1]
    /\ bkTaken' = IF n > bkTaken[r] THEN [bkTaken EXCEPT ![r] = n] ELSE bkTaken
    /\ UNCHANGED <<bkRows, bkRaised>>

(* The query: nodes that are missing, then for each resolved component     *)
(* without an edge from the user the edge and the counter.                 *)
RunQuery(user, deps) ==
    /\ bkUses' = bkUses \cup ({user} \X (deps \cap Components))
    /\ bkCount' = [c \in Components |->
                      IF c \in deps /\ <<user, c>> \notin bkUses THEN bkCount[c] + 1 ELSE bkCount[c]]

(* Variant: the edge is added whether there is one or not.                 *)
StoreUserNodeAgain(r, n) ==
    /\ NextManifest(r, n)
    /\ bkUses' = bkUses \cup ({r.user} \X (DepsAt(r, n) \cap Components))
    /\ bkCount' = [c \in Components |->
                      IF c \in DepsAt(r, n) THEN bkCount[c] + 1 ELSE bkCount[c]]
    /\ UNCHANGED bkUnsaved

StoreUserNode(r, n) ==
    /\ NextManifest(r, n)
    /\ RunQuery(r.user, DepsAt(r, n))
    /\ UNCHANGED bkUnsaved

(* A status other than 200, or no answer to a query that may have run: it  *)
(* is logged, and the loop goes on.                                        *)
StoreUserNodeFails(r, n) ==
    /\ NextManifest(r, n)
    /\ RunQuery(r.user, DepsAt(r, n)) \/ UNCHANGED <<bkUses, bkCount>>
    /\ bkUnsaved' = bkUnsaved \cup {<<r, bkAt[r][n] + 1>>}

TakeRequest(r) ==
    /\ r.api = "component_analyses_post" /\ bkTaken[r] < MaxDeliveries
    /\ bkTaken' = [bkTaken EXCEPT ![r] = @ + 1]
    /\ UNCHANGED <<bkAt, bkUses, bkCount, bkUnsaved>>

AddRow(r) == bkRows' = [bkRows EXCEPT ![r] = @ + 1]

(* No column but the key is unique: the IntegrityError that is taken for a *)
(* repeated request is that of a column that may not be NULL.              *)
StoreApiRequest(r) ==
    /\ TakeRequest(r)
    /\ IF r.whole THEN AddRow(r) ELSE UNCHANGED bkRows
    /\ UNCHANGED bkRaised

(* Another SQLAlchemyError: the task raises.  Under AUTOCOMMIT an insert   *)
(* that was sent stays, whatever rollback() is called.                     *)
StoreApiRequestFails(r) ==
    /\ TakeRequest(r)
    /\ UNCHANGED bkRows \/ (r.whole /\ AddRow(r))
    /\ bkRaised' = [bkRaised EXCEPT ![r] = @ + 1]

BookNext == \E r \in Requests :
                \/ \E n \in 1..MaxDeliveries : StoreUserNode(r, n) \/ StoreUserNodeFails(r, n)
                \/ StoreApiRequest(r)
                \/ StoreApiRequestFails(r)
BookSpec == BookInit /\ [][BookNext]_bookVars
-----------------------------------------------------------------------------
(* The counter of a component is the number of users who use it, however   *)
(* often and by whichever requests they were reported.                     *)
UsageCountsUsers ==
    \A c \in Components : bkCount[c] = Cardinality({u \in Users : <<u, c>> \in bkUses})

(* A request with all its columns is never taken for a repeated one: a     *)
(* delivery that leaves no row has raised, and one that raised may have    *)
(* left a row for all that.                                                *)
RequestsAreRecorded ==
    \A r \in Requests : r.api = "component_analyses_post" /\ r.whole =>
        bkTaken[r] <= bkRows[r] + bkRaised[r] /\ bkRows[r] <= bkTaken[r]

(* A use is missing after its query only if that query was logged as       *)
(* failed: the failure of a manifest does not take along another, and      *)
(* nothing tries it again.                                                 *)
UsesLostOnlyByFailure ==
    \A r \in Requests : \A n \in 1..MaxDeliveries : \A m \in 1..bkAt[r][n] :
        \/ <<r, m>> \in bkUnsaved
        \/ {r.user} \X (r.manifests[m] \cap Components) \subseteq bkUses

(* The books are right under duplicated deliveries and failing queries.    *)
UsageIsExact ==
    /\ UsageCountsUsers
    /\ RequestsAreRecorded
    /\ UsesLostOnlyByFailure
=============================================================================
