------------------------------ MODULE Upstreams ------------------------------
(***************************************************************************)
(* The monitored_upstreams rows of one package, as InitPackageFlow keeps   *)
(* them (f8a_worker/workers/init_package_flow.py), with any number of      *)
(* package flows for that package at the same time.                        *)
(*                                                                         *)
(* A flow loads the active rows into its SQLAlchemy session, decides in    *)
(* memory, and writes.  PostgresBase.connect opens the session with        *)
(* isolation_level AUTOCOMMIT and autoflush: what is pending is written    *)
(* before the next query and stays written, and session.rollback() only    *)
(* forgets what has not been flushed.  A flush updates the changed columns *)
(* of a row, no others.  The statements of one flush are one step here.    *)
(***************************************************************************)
EXTENDS Naturals, FiniteSets

CONSTANTS
    Flows,       (* processes that run InitPackageFlow for the package       *)
    Ids,         (* ids of monitored_upstreams rows; their number is a bound *)
    Urls,        (* upstream URLs that validate_url accepts                  *)
    InvalidUrl,  (* a URL that it replaces by ''                             *)
    NoUrl,       (* no URL was given and the metadata have none              *)
    Empty,       (* ''                                                       *)
    None,        (* no row                                                   *)
    Interval,    (* _UPDATE_INTERVAL, in ticks of the clock                  *)
    MaxClock,    (* bound: ticks                                             *)
    MaxRuns      (* bound: flows started                                     *)

ASSUME UpstreamsAssumption ==
    /\ IsFiniteSet(Flows) /\ IsFiniteSet(Ids)
    /\ None \notin Ids
    /\ {InvalidUrl, NoUrl, Empty} \cap Urls = {}
    /\ InvalidUrl # NoUrl /\ InvalidUrl # Empty /\ NoUrl # Empty
    /\ None \notin Urls \cup {InvalidUrl, NoUrl, Empty}
    /\ Interval \in Nat /\ MaxClock \in Nat /\ MaxRuns \in Nat

StoredUrls  == Urls \cup {Empty}
RequestUrls == Urls \cup {InvalidUrl, NoUrl}

VARIABLES
    url,         (* the table: url, updated_at and "deactivated_at is None"  *)
    updated,
    active,
    clock,       (* utcnow()                                                 *)
    runs,        (* flows started so far                                     *)
    pc, req, force,
    dirty,       (* pending deactivations of the flow's session              *)
    entry,       (* the upstream it decided on, None for a new one           *)
    reactivate,  (* pending reactivation of entry                            *)
    seen,        (* updated_at of entry as loaded                            *)
    alone,       (* history: no other flow ran at the same time              *)
    raced,       (* history: two flows have run at the same time             *)
    before,      (* history: active rows when the flow loaded them           *)
    scheduled    (* history: when an analysis of the URL was last scheduled  *)

table   == <<url, updated, active>>
request == <<req, force>>
session == <<dirty, entry, reactivate, seen>>
history == <<alone, raced, before, scheduled>>
vars    == <<table, clock, runs, pc, request, session, history>>

PCs == {"idle", "autoflush", "lookup", "decide", "skipped"}

Rows   == {i \in Ids : url[i] # None}
Active == {i \in Rows : active[i]}

Init == /\ url = [i \in Ids |-> None]
        /\ updated = [i \in Ids |-> 0]
        /\ active = [i \in Ids |-> FALSE]
        /\ clock = 0
        /\ runs = 0
        /\ pc = [f \in Flows |-> "idle"]
        /\ req = [f \in Flows |-> NoUrl]
        /\ force = [f \in Flows |-> FALSE]
        /\ dirty = [f \in Flows |-> {}]
        /\ entry = [f \in Flows |-> None]
        /\ reactivate = [f \in Flows |-> FALSE]
        /\ seen = [f \in Flows |-> 0]
        /\ alone = [f \in Flows |-> FALSE]
        /\ raced = FALSE
        /\ before = [f \in Flows |-> {}]
        /\ scheduled = [u \in Urls |-> None]

(* The newest rows of S: ORDER BY updated_at leaves ties open. *)
Newest(S) == {i \in S : \A j \in S : updated[j] <= updated[i]}

(* The active rows that get_upstream_entry keeps for a requested URL. *)
Kept(u) == IF u = NoUrl THEN Active ELSE {i \in Active : url[i] = u}

(* validate_url, as add_or_update_upstream stores the URL. *)
Validated(u) == IF u \in Urls THEN u ELSE Empty

Running == {f \in Flows : pc[f] # "idle"}

-----------------------------------------------------------------------------
(* get_upstream_entry: load the active rows, mark those with another URL   *)
(* for deactivation, reuse the last of the others.                         *)
LoadActive(f, u, forced) ==
    /\ pc[f] = "idle"
    /\ runs < MaxRuns
    /\ runs' = runs + 1
    /\ req' = [req EXCEPT ![f] = u]
    /\ force' = [force EXCEPT ![f] = forced]
    /\ dirty' = [dirty EXCEPT ![f] = Active \ Kept(u)]
    /\ \/ /\ Kept(u) = {}
          /\ pc' = [pc EXCEPT ![f] = "autoflush"]
          /\ UNCHANGED <<entry, seen>>
       \/ \E i \in Newest(Kept(u)) :
             /\ entry' = [entry EXCEPT ![f] = i]
             /\ seen' = [seen EXCEPT ![f] = updated[i]]
             /\ pc' = [pc EXCEPT ![f] = "decide"]
    /\ alone' = [g \in Flows |-> IF g = f THEN Running = {} ELSE FALSE]
    /\ raced' = (raced \/ Running # {})
    /\ before' = [before EXCEPT ![f] = Active]
    /\ UNCHANGED <<table, clock, reactivate, scheduled>>

(* Variant: the entries with another URL are not marked. *)
AutoflushNothing(f) ==
    /\ pc[f] = "autoflush"
    /\ dirty' = [dirty EXCEPT ![f] = {}]
    /\ pc' = [pc EXCEPT ![f] = "lookup"]
    /\ UNCHANGED <<table, clock, runs, request, entry, reactivate, seen, history>>

(* add_or_update_upstream queries the table: the session writes the        *)
(* pending deactivations first.                                            *)
Autoflush(f) ==
    /\ pc[f] = "autoflush"
    /\ active' = [i \in Ids |-> active[i] /\ i \notin dirty[f]]
    /\ dirty' = [dirty EXCEPT ![f] = {}]
    /\ pc' = [pc EXCEPT ![f] = "lookup"]
    /\ UNCHANGED <<url, updated, clock, runs, request, entry, reactivate, seen, history>>

(* Variant: a new row without a look at the deactivated ones. *)
AlwaysNewUpstream(f) ==
    /\ pc[f] = "lookup"
    /\ pc' = [pc EXCEPT ![f] = "decide"]
    /\ UNCHANGED <<table, clock, runs, request, session, history>>

(* add_or_update_upstream: reactivate the newest deactivated row of the    *)
(* URL, or create one.                                                     *)
FindOlder(f) ==
    LET older == {i \in Rows : ~active[i] /\ url[i] = req[f]} IN
    /\ pc[f] = "lookup"
    /\ pc' = [pc EXCEPT ![f] = "decide"]
    /\ \/ older = {} /\ UNCHANGED session
       \/ \E i \in Newest(older) :
             /\ entry' = [entry EXCEPT ![f] = i]
             /\ seen' = [seen EXCEPT ![f] = updated[i]]
             /\ reactivate' = [reactivate EXCEPT ![f] = TRUE]
             /\ UNCHANGED dirty
    /\ UNCHANGED <<table, clock, runs, request, history>>

(* rollback, or the commit that ends the flow: the session keeps nothing. *)
EmptySession(f) == /\ dirty' = [dirty EXCEPT ![f] = {}]
                   /\ entry' = [entry EXCEPT ![f] = None]
                   /\ reactivate' = [reactivate EXCEPT ![f] = FALSE]
                   /\ seen' = [seen EXCEPT ![f] = 0]

Recent(f) == entry[f] # None /\ clock - seen[f] < Interval

(* The data are recent: roll back and return without a document_id. *)
Skip(f) ==
    /\ pc[f] = "decide"
    /\ ~force[f]
    /\ Recent(f)
    /\ pc' = [pc EXCEPT ![f] = "skipped"]
    /\ EmptySession(f)
    /\ UNCHANGED <<table, clock, runs, request, history>>

InsertUpstream(f, i) ==
    /\ entry[f] = None
    /\ url' = [url EXCEPT ![i] = Validated(req[f])]
    /\ updated' = [updated EXCEPT ![i] = clock]
    /\ active' = [j \in Ids |-> j = i \/ (active[j] /\ j \notin dirty[f])]

(* Variant: updated_at of a row that is reused stays as it was. *)
WriteUpstreamKeepsUpdatedAt(f) ==
    \/ \E i \in Ids \ Rows : InsertUpstream(f, i)
    \/ /\ entry[f] # None
       /\ active' = [active EXCEPT ![entry[f]] = @ \/ reactivate[f]]
       /\ UNCHANGED <<url, updated>>

(* Variant: only the entry that is reused is written. *)
WriteOnlyEntry(f) ==
    \/ \E i \in Ids \ Rows : InsertUpstream(f, i)
    \/ /\ entry[f] # None
       /\ updated' = [updated EXCEPT ![entry[f]] = clock]
       /\ active' = [active EXCEPT ![entry[f]] = @ \/ reactivate[f]]
       /\ UNCHANGED url

(* The flow writes its upstream row: an inserted one, or the changed       *)
(* columns of the one it loaded.                                           *)
WriteUpstream(f) ==
    \/ \E i \in Ids \ Rows : InsertUpstream(f, i)
    \/ /\ entry[f] # None
       /\ updated' = [updated EXCEPT ![entry[f]] = clock]
       /\ active' = [j \in Ids |-> \/ j = entry[f] /\ reactivate[f]
                                   \/ active[j] /\ j \notin dirty[f]]
       /\ UNCHANGED url

(* PackageAnalysis, updated_at and what is pending, in one commit. *)
Schedule(f) ==
    /\ pc[f] = "decide"
    /\ force[f] \/ ~Recent(f)
    /\ pc' = [pc EXCEPT ![f] = "idle"]
    /\ WriteUpstream(f)
    /\ EmptySession(f)
    /\ scheduled' = IF req[f] \in Urls THEN [scheduled EXCEPT ![req[f]] = clock] ELSE scheduled
    /\ UNCHANGED <<clock, runs, request, alone, raced, before>>

Return(f) ==
    /\ pc[f] = "skipped"
    /\ pc' = [pc EXCEPT ![f] = "idle"]
    /\ UNCHANGED <<table, clock, runs, request, session, history>>

(* The worker process dies, or a statement fails and the task with it. *)
Fail(f) ==
    /\ pc[f] # "idle"
    /\ pc' = [pc EXCEPT ![f] = "idle"]
    /\ EmptySession(f)
    /\ UNCHANGED <<table, clock, runs, request, history>>

Tick == /\ clock < MaxClock
        /\ clock' = clock + 1
        /\ UNCHANGED <<table, runs, pc, request, session, history>>

Next == \/ \E f \in Flows : \/ \E u \in RequestUrls, forced \in BOOLEAN : LoadActive(f, u, forced)
                            \/ Autoflush(f) \/ FindOlder(f) \/ Skip(f) \/ Schedule(f)
                            \/ Return(f) \/ Fail(f)
        \/ Tick

Spec == Init /\ [][Next]_vars

-----------------------------------------------------------------------------
TypeOK ==
    /\ url \in [Ids -> StoredUrls \cup {None}]
    /\ updated \in [Ids -> 0..MaxClock]
    /\ active \in [Ids -> BOOLEAN]
    /\ clock \in 0..MaxClock
    /\ runs \in 0..MaxRuns
    /\ pc \in [Flows -> PCs]
    /\ req \in [Flows -> RequestUrls]
    /\ force \in [Flows -> BOOLEAN]
    /\ dirty \in [Flows -> SUBSET Ids]
    /\ entry \in [Flows -> Ids \cup {None}]
    /\ reactivate \in [Flows -> BOOLEAN]
    /\ seen \in [Flows -> 0..MaxClock]
    /\ alone \in [Flows -> BOOLEAN]
    /\ raced \in BOOLEAN
    /\ before \in [Flows -> SUBSET Ids]
    /\ scheduled \in [Urls -> (0..MaxClock) \cup {None}]

(* As long as flows of the package do not overlap, it never has two active *)
(* upstreams, wherever a flow fails.                                       *)
AtMostOneActive == ~raced => \A i, j \in Active : i = j

(* As long as flows do not overlap, a URL keeps one row: it is deactivated *)
(* and reactivated, never duplicated.                                      *)
OneRowPerUrl ==
    ~raced => \A i, j \in Rows : url[i] = url[j] /\ url[i] \in Urls => i = j

(* A package has one active upstream and a URL one row.                    *)
UpstreamsUnique == AtMostOneActive /\ OneRowPerUrl

(* Flows that overlap leave more than one active upstream, but never more  *)
(* than there are flows.                                                   *)
ActiveBoundedByFlows == Cardinality(Active) <= Cardinality(Flows)

(* A flow that ran alone and scheduled an analysis of a URL leaves only    *)
(* rows with that URL active, whatever earlier races left behind.          *)
ScheduledUrlWins ==
    [][\A f \in Flows : pc[f] = "decide" /\ Schedule(f) /\ alone[f] /\ req[f] # NoUrl
          => /\ Active' # {}
             /\ \A i \in Active' : url'[i] = Validated(req[f])]_vars

(* As long as flows do not overlap, a valid URL that was analysed within   *)
(* _UPDATE_INTERVAL is not scheduled again unless the flow is forced.      *)
RecentIsSkipped ==
    [][\A u \in Urls : ~raced /\ scheduled'[u] # scheduled[u] /\ scheduled[u] # None
          => \/ scheduled'[u] - scheduled[u] >= Interval
             \/ \E f \in Flows : pc[f] = "decide" /\ pc'[f] = "idle" /\ force[f]]_vars

(* The comment of the skip, "discard changes like updates": a flow that    *)
(* finds recent data leaves the active upstreams as it found them.         *)
SkipDiscardsChanges == \A f \in Flows : pc[f] = "skipped" /\ alone[f] => Active = before[f]
=============================================================================
