--------------------------- MODULE UpstreamsProofs ---------------------------
(***************************************************************************)
(* Theorems about Upstreams for every set of ids, URLs and flows, every    *)
(* interval and every bound.                                               *)
(***************************************************************************)
EXTENDS Upstreams, FiniteSetTheorems, TLAPS

USE UpstreamsAssumption
    DEF StoredUrls, RequestUrls, PCs, table, request, session, history

(* Every variable keeps its type. *)
THEOREM TypeCorrect == Spec => []TypeOK
<1>1. Init => TypeOK
  <2> SUFFICES ASSUME Init PROVE TypeOK
    OBVIOUS
  <2>1. raced \in BOOLEAN
    BY DEF Init
  <2>2. clock \in 0..MaxClock /\ runs \in 0..MaxRuns
    BY DEF Init
  <2>3. /\ url \in [Ids -> StoredUrls \cup {None}]
        /\ updated \in [Ids -> 0..MaxClock]
        /\ active \in [Ids -> BOOLEAN]
        /\ scheduled \in [Urls -> (0..MaxClock) \cup {None}]
    BY DEF Init
  <2>4. /\ pc \in [Flows -> PCs]
        /\ req \in [Flows -> RequestUrls]
        /\ force \in [Flows -> BOOLEAN]
        /\ alone \in [Flows -> BOOLEAN]
    BY DEF Init
  <2>5. /\ dirty \in [Flows -> SUBSET Ids]
        /\ entry \in [Flows -> Ids \cup {None}]
        /\ reactivate \in [Flows -> BOOLEAN]
        /\ seen \in [Flows -> 0..MaxClock]
        /\ before \in [Flows -> SUBSET Ids]
    BY DEF Init
  <2> QED
    BY <2>1, <2>2, <2>3, <2>4, <2>5 DEF TypeOK
<1>2. TypeOK /\ [Next]_vars => TypeOK'
  <2> SUFFICES ASSUME TypeOK, [Next]_vars PROVE TypeOK'
    OBVIOUS
  <2>1. ASSUME NEW f \in Flows, NEW u \in RequestUrls, NEW forced \in BOOLEAN,
               LoadActive(f, u, forced)
        PROVE  TypeOK'
    <3>1. Active \subseteq Ids /\ Newest(Kept(u)) \subseteq Ids
      BY DEF Active, Rows, Newest, Kept
    <3>2. /\ runs' \in 0..MaxRuns
          /\ req' \in [Flows -> RequestUrls]
          /\ force' \in [Flows -> BOOLEAN]
      BY <2>1 DEF LoadActive, TypeOK
    <3>3. /\ dirty' \in [Flows -> SUBSET Ids]
          /\ before' \in [Flows -> SUBSET Ids]
          /\ alone' \in [Flows -> BOOLEAN]
          /\ raced' \in BOOLEAN
      BY <2>1, <3>1 DEF LoadActive, TypeOK
    <3>4. /\ entry' \in [Flows -> Ids \cup {None}]
          /\ seen' \in [Flows -> 0..MaxClock]
          /\ pc' \in [Flows -> PCs]
      BY <2>1, <3>1 DEF LoadActive, TypeOK
    <3>5. UNCHANGED <<table, clock, reactivate, scheduled>>
      BY <2>1 DEF LoadActive
    <3> QED
      BY <3>2, <3>3, <3>4, <3>5 DEF TypeOK
  <2>2. ASSUME NEW f \in Flows, Autoflush(f) PROVE TypeOK'
    BY <2>2 DEF Autoflush, TypeOK
  <2>3. ASSUME NEW f \in Flows, FindOlder(f) PROVE TypeOK'
    <3> DEFINE older == {i \in Rows : ~active[i] /\ url[i] = req[f]}
    <3>1. CASE UNCHANGED session
      BY <2>3, <3>1 DEF FindOlder, TypeOK
    <3>2. ASSUME NEW i \in Newest(older),
                 entry' = [entry EXCEPT ![f] = i],
                 seen' = [seen EXCEPT ![f] = updated[i]],
                 reactivate' = [reactivate EXCEPT ![f] = TRUE],
                 UNCHANGED dirty
          PROVE  TypeOK'
      <4>1. i \in Ids
        BY DEF Newest, Rows
      <4> HIDE DEF older
      <4> QED
        BY <2>3, <3>2, <4>1 DEF FindOlder, TypeOK
    <3> QED
      BY <2>3, <3>1, <3>2 DEF FindOlder
  <2>4. ASSUME NEW f \in Flows, Skip(f) PROVE TypeOK'
    BY <2>4 DEF Skip, EmptySession, TypeOK
  <2>5. ASSUME NEW f \in Flows, Schedule(f) PROVE TypeOK'
    <3>1. Validated(req[f]) \in StoredUrls
      BY DEF Validated
    <3>2. url' \in [Ids -> StoredUrls \cup {None}]
      BY <2>5, <3>1 DEF Schedule, WriteUpstream, InsertUpstream, TypeOK
    <3>3. updated' \in [Ids -> 0..MaxClock]
      BY <2>5 DEF Schedule, WriteUpstream, InsertUpstream, TypeOK
    <3>4. active' \in [Ids -> BOOLEAN]
      BY <2>5 DEF Schedule, WriteUpstream, InsertUpstream, TypeOK
    <3>5. scheduled' \in [Urls -> (0..MaxClock) \cup {None}]
      BY <2>5 DEF Schedule, TypeOK
    <3>6. /\ dirty' \in [Flows -> SUBSET Ids]
          /\ entry' \in [Flows -> Ids \cup {None}]
          /\ reactivate' \in [Flows -> BOOLEAN]
          /\ seen' \in [Flows -> 0..MaxClock]
      BY <2>5 DEF Schedule, EmptySession, TypeOK
    <3> QED
      BY <2>5, <3>2, <3>3, <3>4, <3>5, <3>6 DEF Schedule, TypeOK
  <2>6. ASSUME NEW f \in Flows, Return(f) PROVE TypeOK'
    BY <2>6 DEF Return, TypeOK
  <2>7. ASSUME NEW f \in Flows, Fail(f) PROVE TypeOK'
    BY <2>7 DEF Fail, EmptySession, TypeOK
  <2>8. CASE Tick
    BY <2>8 DEF Tick, TypeOK
  <2>9. CASE UNCHANGED vars
    BY <2>9 DEF vars, TypeOK
  <2> QED
    BY <2>1, <2>2, <2>3, <2>4, <2>5, <2>6, <2>7, <2>8, <2>9 DEF Next
<1> QED
  BY <1>1, <1>2, PTL DEF Spec

-----------------------------------------------------------------------------
(* The inductive invariant of flows that do not overlap.                   *)

(* What the session of the flow says of the table at each step. *)
SessionFits(f) ==
    /\ pc[f] # "decide" => entry[f] = None /\ ~reactivate[f]
    /\ pc[f] = "autoflush" => dirty[f] = Active
    /\ pc[f] = "lookup" => Active = {} /\ dirty[f] = {}
    /\ pc[f] = "decide" =>
          /\ dirty[f] = {}
          /\ entry[f] = None \/ reactivate[f] => Active = {}
          /\ entry[f] \in Rows \cup {None}
          /\ entry[f] # None => seen[f] = updated[entry[f]]
          /\ req[f] \in Urls => IF entry[f] = None THEN \A i \in Rows : url[i] # req[f]
                                                   ELSE url[entry[f]] = req[f]

(* The row of a URL remembers the last analysis of it. *)
ScheduledHasRow ==
    \A u \in Urls : scheduled[u] # None
        => /\ scheduled[u] <= clock
           /\ \E i \in Rows : url[i] = u /\ updated[i] >= scheduled[u]

OneAtATime == \A f, g \in Flows : pc[f] # "idle" /\ pc[g] # "idle" => f = g

Sequential == /\ OneAtATime
              /\ AtMostOneActive
              /\ OneRowPerUrl
              /\ ScheduledHasRow
              /\ \A f \in Flows : SessionFits(f)

FlowInv == TypeOK /\ (~raced => Sequential)

(* What holds as long as flows do not overlap is preserved by every step.  *)
THEOREM FlowInductive == Spec => []FlowInv
<1> USE DEF Rows, Active, OneAtATime, Sequential, AtMostOneActive, OneRowPerUrl, ScheduledHasRow,
            SessionFits
<1>1. Init => Sequential
  BY DEF Init
<1>2. FlowInv /\ TypeOK' /\ [Next]_vars => FlowInv'
  <2> SUFFICES ASSUME TypeOK, TypeOK', [Next]_vars, ~raced, ~raced', Sequential
               PROVE  Sequential'
    BY DEF FlowInv, Next, LoadActive, Autoflush, FindOlder, Skip, Schedule, Return, Fail, Tick,
           vars, TypeOK
  <2>1. ASSUME NEW f \in Flows, NEW u \in RequestUrls, NEW forced \in BOOLEAN,
               LoadActive(f, u, forced)
        PROVE  Sequential'
    <3>0. ASSUME NEW g \in Flows, g # f PROVE pc'[g] = "idle" /\ SessionFits(g)'
      <4>1. pc[g] = "idle"
        BY <2>1 DEF LoadActive, Running
      <4>2. pc'[g] = pc[g] /\ entry'[g] = entry[g] /\ reactivate'[g] = reactivate[g]
        BY <2>1, <3>0 DEF LoadActive, TypeOK
      <4> QED
        BY <4>1, <4>2
    <3>1. UNCHANGED <<url, updated, active, clock, scheduled>>
      BY <2>1 DEF LoadActive
    <3>2. dirty'[f] = Active \ Kept(u) /\ req'[f] = u /\ reactivate'[f] = reactivate[f]
      BY <2>1 DEF LoadActive, TypeOK
    <3>3. entry[f] = None /\ ~reactivate[f]
      BY <2>1 DEF LoadActive
    <3>4. SessionFits(f)'
      <4>1. CASE Kept(u) = {} /\ pc' = [pc EXCEPT ![f] = "autoflush"] /\ UNCHANGED <<entry, seen>>
        BY <3>1, <3>2, <3>3, <4>1 DEF TypeOK
      <4>2. ASSUME NEW i \in Newest(Kept(u)),
                   entry' = [entry EXCEPT ![f] = i],
                   seen' = [seen EXCEPT ![f] = updated[i]],
                   pc' = [pc EXCEPT ![f] = "decide"]
            PROVE  SessionFits(f)'
        <5>1. i \in Active /\ i \in Kept(u)
          BY DEF Newest, Kept
        <5>2. Active \ Kept(u) = {}
          BY <5>1
        <5>3. u \in Urls => url[i] = u
          BY <5>1 DEF Kept
        <5>4. entry'[f] = i /\ seen'[f] = updated[i] /\ pc'[f] = "decide"
          BY <4>2 DEF TypeOK
        <5> QED
          BY <3>1, <3>2, <3>3, <5>1, <5>2, <5>3, <5>4
      <4> HIDE DEF SessionFits
      <4> QED
        BY <2>1, <4>1, <4>2 DEF LoadActive
    <3> QED
      BY <3>0, <3>1, <3>4
  <2>2. ASSUME NEW f \in Flows, Autoflush(f) PROVE Sequential'
    BY <2>2 DEF Autoflush, TypeOK
  <2>3. ASSUME NEW f \in Flows, FindOlder(f) PROVE Sequential'
    <3> DEFINE older == {i \in Rows : ~active[i] /\ url[i] = req[f]}
    <3>0. ASSUME NEW g \in Flows, g # f PROVE pc'[g] = "idle" /\ SessionFits(g)'
      <4>1. pc[g] = "idle"
        BY <2>3, <3>0 DEF FindOlder
      <4>2. pc'[g] = pc[g] /\ entry'[g] = entry[g] /\ reactivate'[g] = reactivate[g]
        <5>1. CASE UNCHANGED session
          BY <2>3, <3>0, <5>1 DEF FindOlder
        <5>2. ASSUME NEW i \in Ids,
                     entry' = [entry EXCEPT ![f] = i],
                     reactivate' = [reactivate EXCEPT ![f] = TRUE]
              PROVE  entry'[g] = entry[g] /\ reactivate'[g] = reactivate[g]
          BY <3>0, <5>2
        <5>3. \A i \in Newest(older) : i \in Ids
          BY DEF Newest
        <5>4. pc'[g] = pc[g]
          BY <2>3, <3>0 DEF FindOlder
        <5>5. CASE ~UNCHANGED session
          <6>1. PICK i \in Newest(older) : /\ entry' = [entry EXCEPT ![f] = i]
                                          /\ reactivate' = [reactivate EXCEPT ![f] = TRUE]
            BY <2>3, <5>5 DEF FindOlder
          <6> QED
            BY <5>2, <5>3, <5>4, <6>1
        <5> QED
          BY <5>1, <5>5
      <4> QED
        BY <4>1, <4>2
    <3>1. UNCHANGED <<url, updated, active, clock, scheduled, req>>
      BY <2>3 DEF FindOlder
    <3>2. pc[f] = "lookup" /\ pc'[f] = "decide"
      BY <2>3 DEF FindOlder, TypeOK
    <3>3. Active = {} /\ entry[f] = None /\ ~reactivate[f] /\ dirty'[f] = dirty[f] /\ dirty[f] = {}
      BY <2>3, <3>2 DEF FindOlder
    <3>4. SessionFits(f)'
      <4>1. CASE older = {} /\ UNCHANGED session
        BY <3>1, <3>2, <3>3, <4>1
      <4>2. ASSUME NEW i \in Newest(older),
                   entry' = [entry EXCEPT ![f] = i],
                   seen' = [seen EXCEPT ![f] = updated[i]],
                   reactivate' = [reactivate EXCEPT ![f] = TRUE]
            PROVE  SessionFits(f)'
        <5>1. i \in Rows /\ url[i] = req[f]
          BY DEF Newest
        <5>2. entry'[f] = i /\ seen'[f] = updated[i]
          BY <4>2 DEF TypeOK
        <5> QED
          BY <3>1, <3>2, <3>3, <5>1, <5>2
      <4> HIDE DEF SessionFits
      <4> QED
        BY <2>3, <4>1, <4>2 DEF FindOlder
    <3> QED
      BY <3>0, <3>1, <3>4
  <2>4. ASSUME NEW f \in Flows, Skip(f) PROVE Sequential'
    BY <2>4 DEF Skip, EmptySession, TypeOK
  <2>5. ASSUME NEW f \in Flows, Schedule(f) PROVE Sequential'
    <3>1. pc[f] = "decide" /\ pc'[f] = "idle"
      BY <2>5 DEF Schedule, TypeOK
    <3>2. dirty[f] = {} /\ dirty'[f] = {} /\ entry'[f] = None /\ ~reactivate'[f]
      BY <2>5, <3>1 DEF Schedule, EmptySession, TypeOK
    <3>0. ASSUME NEW g \in Flows, g # f PROVE pc'[g] = "idle" /\ SessionFits(g)'
      BY <2>5, <3>0 DEF Schedule, EmptySession, TypeOK
    <3>3. OneAtATime' /\ \A g \in Flows : SessionFits(g)'
      BY <3>0, <3>1, <3>2
    <3>4. scheduled' = IF req[f] \in Urls THEN [scheduled EXCEPT ![req[f]] = clock] ELSE scheduled
      BY <2>5 DEF Schedule
    <3> clock' = clock
      BY <2>5 DEF Schedule
    <3>5. clock \in 0..MaxClock /\ \A u \in Urls : scheduled[u] # None => scheduled[u] \in 0..MaxClock
      BY DEF TypeOK
    <3>6. ASSUME NEW i \in Ids \ Rows, InsertUpstream(f, i) PROVE Sequential'
      <4>1. entry[f] = None /\ Active = {}
        BY <3>1, <3>6 DEF InsertUpstream
      <4>2. /\ url' = [url EXCEPT ![i] = Validated(req[f])]
            /\ updated' = [updated EXCEPT ![i] = clock]
            /\ \A j \in Rows \cup {i} : active'[j] <=> j = i
        <5>1. active' = [j \in Ids |-> j = i \/ (active[j] /\ j \notin dirty[f])]
          BY <3>6 DEF InsertUpstream
        <5>2. \A j \in Rows : ~active[j]
          BY <4>1
        <5> QED
          BY <3>6, <5>1, <5>2 DEF InsertUpstream
      <4>3. AtMostOneActive'
        BY <4>2
      <4>4. OneRowPerUrl'
        BY <3>1, <4>1, <4>2 DEF TypeOK, Validated
      <4>5. ScheduledHasRow'
        <5> SUFFICES ASSUME NEW u \in Urls, scheduled'[u] # None
                     PROVE  /\ scheduled'[u] <= clock'
                            /\ \E j \in Rows' : url'[j] = u /\ updated'[j] >= scheduled'[u]
          OBVIOUS
        <5>1. CASE u = req[f]
          <6>1. url'[i] = u /\ updated'[i] = clock /\ scheduled'[u] = clock
            BY <3>4, <4>2, <5>1 DEF TypeOK, Validated
          <6> QED
            BY <3>5, <6>1
        <5>2. CASE u # req[f]
          <6>1. scheduled'[u] = scheduled[u]
            BY <3>4, <5>2 DEF TypeOK
          <6>2. PICK j \in Rows : url[j] = u /\ updated[j] >= scheduled[u]
            BY <6>1
          <6>3. url'[j] = url[j] /\ updated'[j] = updated[j]
            BY <4>2, <6>2
          <6> QED
            BY <6>1, <6>2, <6>3
        <5> QED
          BY <5>1, <5>2
      <4> QED
        BY <3>3, <4>3, <4>4, <4>5
    <3>7. ASSUME entry[f] # None, WriteUpstream(f) PROVE Sequential'
      <4>1. entry[f] \in Rows
        BY <3>1, <3>7
      <4>2. /\ url' = url
            /\ updated' = [updated EXCEPT ![entry[f]] = clock]
            /\ \A j \in Ids : active'[j] <=> (j = entry[f] /\ reactivate[f]) \/ active[j]
        BY <3>2, <3>7 DEF WriteUpstream, InsertUpstream, TypeOK
      <4>3. AtMostOneActive'
        BY <3>1, <4>1, <4>2
      <4>4. OneRowPerUrl'
        BY <4>2
      <4>5. ScheduledHasRow'
        BY <3>1, <3>4, <3>5, <3>7, <4>1, <4>2 DEF TypeOK
      <4> QED
        BY <3>3, <4>3, <4>4, <4>5
    <3> QED
      BY <2>5, <3>6, <3>7 DEF Schedule, WriteUpstream
  <2>6. ASSUME NEW f \in Flows, Return(f) PROVE Sequential'
    BY <2>6 DEF Return, TypeOK
  <2>7. ASSUME NEW f \in Flows, Fail(f) PROVE Sequential'
    BY <2>7 DEF Fail, EmptySession, TypeOK
  <2>8. CASE Tick
    BY <2>8 DEF Tick, TypeOK
  <2>9. CASE UNCHANGED vars
    BY <2>9 DEF vars, TypeOK
  <2> QED
    BY <2>1, <2>2, <2>3, <2>4, <2>5, <2>6, <2>7, <2>8, <2>9 DEF Next
<1>3. Init /\ TypeOK => FlowInv
  BY <1>1 DEF FlowInv
<1> QED
  BY <1>2, <1>3, TypeCorrect, PTL DEF Spec

-----------------------------------------------------------------------------
(* A package whose flows do not overlap never has two active upstreams,    *)
(* wherever its flows fail.                                                *)
THEOREM OneActiveUpstream == Spec => []AtMostOneActive
<1>1. FlowInv => AtMostOneActive
  BY DEF FlowInv, Sequential, AtMostOneActive
<1> QED
  BY <1>1, FlowInductive, PTL

(* Nor two rows for a URL. *)
THEOREM UrlHasOneRow == Spec => []OneRowPerUrl
<1>1. FlowInv => OneRowPerUrl
  BY DEF FlowInv, Sequential, OneRowPerUrl
<1> QED
  BY <1>1, FlowInductive, PTL

(* Both, for any number of flows, rows and URLs. *)
THEOREM UpstreamsAlwaysUnique == Spec => []UpstreamsUnique
<1>1. AtMostOneActive /\ OneRowPerUrl => UpstreamsUnique
  BY DEF UpstreamsUnique
<1> QED
  BY <1>1, OneActiveUpstream, UrlHasOneRow, PTL

(* Nor an analysis of a URL within _UPDATE_INTERVAL of the last one, unless *)
(* it is forced.                                                           *)
THEOREM RecentUpstreamIsSkipped == Spec => RecentIsSkipped
<1> DEFINE RecentStep ==
        \A u \in Urls : ~raced /\ scheduled'[u] # scheduled[u] /\ scheduled[u] # None
          => \/ scheduled'[u] - scheduled[u] >= Interval
             \/ \E f \in Flows : pc[f] = "decide" /\ pc'[f] = "idle" /\ force[f]
<1>1. FlowInv /\ [Next]_vars => [RecentStep]_vars
  <2> SUFFICES ASSUME FlowInv, Next, NEW u \in Urls, ~raced,
                      scheduled'[u] # scheduled[u], scheduled[u] # None
               PROVE  \/ scheduled'[u] - scheduled[u] >= Interval
                      \/ \E f \in Flows : pc[f] = "decide" /\ pc'[f] = "idle" /\ force[f]
    BY DEF vars, history
  <2> USE DEF FlowInv, Sequential
  <2>1. PICK f \in Flows : Schedule(f)
    BY DEF Next, LoadActive, Autoflush, FindOlder, Skip, Return, Fail, Tick
  <2>2. CASE force[f]
    BY <2>1, <2>2 DEF Schedule, TypeOK
  <2>3. CASE ~force[f]
    <3>1. pc[f] = "decide" /\ ~Recent(f)
      BY <2>1, <2>3 DEF Schedule
    <3>2. u = req[f] /\ scheduled'[u] = clock
      BY <2>1 DEF Schedule, TypeOK
    <3>3. PICK i \in Rows : url[i] = u /\ updated[i] >= scheduled[u]
      BY DEF ScheduledHasRow
    <3>4. entry[f] # None /\ entry[f] \in Rows /\ url[entry[f]] = u /\ seen[f] = updated[entry[f]]
      BY <3>1, <3>2, <3>3 DEF SessionFits
    <3>5. entry[f] = i
      BY <3>3, <3>4 DEF OneRowPerUrl
    <3>6. updated[i] \in Nat /\ scheduled[u] \in Nat /\ clock \in Nat
      BY <3>3 DEF TypeOK, Rows
    <3>7. ~(clock - updated[i] < Interval)
      BY <3>1, <3>4, <3>5 DEF Recent
    <3> QED
      BY <3>2, <3>3, <3>6, <3>7
  <2> QED
    BY <2>2, <2>3
<1> QED
  BY <1>1, FlowInductive, PTL DEF Spec, RecentIsSkipped

-----------------------------------------------------------------------------
(* The bound on what overlapping flows leave behind: each active row can   *)
(* be laid to a flow, the last one that activated it, and none has two.    *)

(* A flow that is about to activate a row has none: it has written the     *)
(* deactivation of what it saw, which its own row was part of.             *)
MayOwn(f, i) ==
    /\ pc[f] = "autoflush" => i \in dirty[f]
    /\ pc[f] # "lookup"
    /\ pc[f] = "decide" => entry[f] # None /\ ~reactivate[f]

Laid(own) ==
    /\ \A i \in Active : own[i] \in Flows /\ MayOwn(own[i], i)
    /\ \A i, j \in Active : own[i] = own[j] => i = j

Owned == /\ \A f \in Flows : pc[f] \in {"idle", "skipped"} => ~reactivate[f]
         /\ \E own \in [Ids -> Flows \cup {None}] : Laid(own)

(* Every step keeps a row to a flow.                                       *)
THEOREM ActiveAreOwned == Spec => []Owned
<1>1. Init => Owned
  <2> SUFFICES ASSUME Init PROVE Owned
    OBVIOUS
  <2>1. Laid([i \in Ids |-> None])
    BY DEF Init, Laid, Active, Rows
  <2> QED BY <2>1 DEF Owned, Init
<1>2. Owned /\ TypeOK /\ TypeOK' /\ [Next]_vars => Owned'
  <2> SUFFICES ASSUME Owned, TypeOK, TypeOK', [Next]_vars PROVE Owned'
    OBVIOUS
  <2>0. PICK own \in [Ids -> Flows \cup {None}] : Laid(own)
    BY DEF Owned
  <2> USE DEF Laid, MayOwn, Active, Rows
  <2>1. ASSUME Active' \subseteq Active, \A f \in Flows, i \in Active : MayOwn(f, i) => MayOwn(f, i)',
               \A f \in Flows : pc'[f] \in {"idle", "skipped"} => ~reactivate'[f]
        PROVE  Owned'
    <3>1. Laid(own)'
      BY <2>0, <2>1
    <3> QED BY <2>1, <3>1 DEF Owned
  <2>2. ASSUME NEW f \in Flows, NEW u \in RequestUrls, NEW forced \in BOOLEAN, LoadActive(f, u, forced)
        PROVE  Owned'
    <3>1. Active' = Active /\ reactivate' = reactivate /\ pc[f] = "idle"
      BY <2>2 DEF LoadActive
    <3>2. ~reactivate[f]
      BY <3>1 DEF Owned
    <3>3. dirty' = [dirty EXCEPT ![f] = Active \ Kept(u)]
      BY <2>2 DEF LoadActive
    <3>4. \/ Kept(u) = {} /\ pc' = [pc EXCEPT ![f] = "autoflush"] /\ UNCHANGED entry
          \/ \E i \in Ids : pc' = [pc EXCEPT ![f] = "decide"] /\ entry' = [entry EXCEPT ![f] = i]
      BY <2>2 DEF LoadActive, Newest, Kept
    <3> HIDE DEF Active
    <3>5. \A g \in Flows, i \in Active : MayOwn(g, i) => MayOwn(g, i)'
      <4>1. CASE Kept(u) = {} /\ pc' = [pc EXCEPT ![f] = "autoflush"] /\ UNCHANGED entry
        BY <3>1, <3>3, <4>1 DEF TypeOK
      <4>2. ASSUME NEW i \in Ids, pc' = [pc EXCEPT ![f] = "decide"], entry' = [entry EXCEPT ![f] = i]
            PROVE  \A g \in Flows, j \in Active : MayOwn(g, j) => MayOwn(g, j)'
        BY <3>1, <3>2, <3>3, <4>2 DEF TypeOK
      <4> QED BY <3>4, <4>1, <4>2
    <3>6. \A g \in Flows : pc'[g] \in {"idle", "skipped"} => ~reactivate'[g]
      BY <3>1, <3>2, <3>4 DEF Owned, TypeOK
    <3> QED BY <2>1, <3>1, <3>5, <3>6
  <2>3. ASSUME NEW f \in Flows, Autoflush(f) PROVE Owned'
    <3>1. Active' \subseteq Active \ dirty[f]
      BY <2>3 DEF Autoflush
    <3>2. /\ pc[f] = "autoflush" /\ pc' = [pc EXCEPT ![f] = "lookup"]
          /\ dirty' = [dirty EXCEPT ![f] = {}] /\ UNCHANGED <<entry, reactivate>>
      BY <2>3 DEF Autoflush, session
    <3> HIDE DEF Active
    <3>3. Laid(own)'
      BY <2>0, <3>1, <3>2 DEF TypeOK
    <3>4. \A g \in Flows : pc'[g] \in {"idle", "skipped"} => ~reactivate'[g]
      BY <3>2 DEF Owned, TypeOK
    <3> QED BY <3>3, <3>4 DEF Owned
  <2>4. ASSUME NEW f \in Flows, FindOlder(f) PROVE Owned'
    <3>1. Active' = Active
      BY <2>4 DEF FindOlder
    <3>2. pc[f] = "lookup" /\ pc' = [pc EXCEPT ![f] = "decide"] /\ UNCHANGED dirty
      BY <2>4 DEF FindOlder, session
    <3>3. \A g \in Flows \ {f} : entry'[g] = entry[g] /\ reactivate'[g] = reactivate[g]
      BY <2>4 DEF FindOlder, session, TypeOK
    <3> HIDE DEF Active
    <3>4. \A g \in Flows, i \in Active : MayOwn(g, i) => MayOwn(g, i)'
      BY <3>2, <3>3 DEF TypeOK
    <3>5. \A g \in Flows : pc'[g] \in {"idle", "skipped"} => ~reactivate'[g]
      BY <3>2, <3>3 DEF Owned, TypeOK
    <3> QED BY <2>1, <3>1, <3>4, <3>5
  <2>5. ASSUME NEW f \in Flows, Skip(f) \/ Fail(f) \/ Return(f) PROVE Owned'
    <3>1. Active' = Active
      BY <2>5 DEF Skip, Fail, Return
    <3>2. /\ pc' = [pc EXCEPT ![f] = "skipped"] \/ pc' = [pc EXCEPT ![f] = "idle"]
          /\ \A g \in Flows \ {f} : /\ entry'[g] = entry[g] /\ reactivate'[g] = reactivate[g]
                                    /\ dirty'[g] = dirty[g]
      BY <2>5 DEF Skip, Fail, Return, EmptySession, session, TypeOK
    <3> HIDE DEF Active
    <3>3. \A g \in Flows, i \in Active : MayOwn(g, i) => MayOwn(g, i)'
      BY <3>2 DEF TypeOK
    <3>4. ~reactivate'[f]
      BY <2>5 DEF Owned, Skip, Fail, Return, EmptySession, session, TypeOK
    <3>5. \A g \in Flows : pc'[g] \in {"idle", "skipped"} => ~reactivate'[g]
      BY <3>2, <3>4 DEF Owned, TypeOK
    <3> QED BY <2>1, <3>1, <3>3, <3>5
  <2>6. ASSUME NEW f \in Flows, Schedule(f) PROVE Owned'
    <3>1. /\ pc[f] = "decide" /\ pc' = [pc EXCEPT ![f] = "idle"] /\ WriteUpstream(f)
          /\ dirty' = [dirty EXCEPT ![f] = {}] /\ entry' = [entry EXCEPT ![f] = None]
          /\ reactivate' = [reactivate EXCEPT ![f] = FALSE]
      BY <2>6 DEF Schedule, EmptySession
    <3>2. \A g \in Flows : pc'[g] \in {"idle", "skipped"} => ~reactivate'[g]
      BY <3>1 DEF Owned, TypeOK
    <3>3. \A g \in Flows, i \in Ids : MayOwn(g, i) => MayOwn(g, i)'
      BY <3>1 DEF TypeOK
    <3>4. \A i \in Ids : MayOwn(f, i)'
      BY <3>1 DEF TypeOK
    <3>5. CASE entry[f] # None /\ ~reactivate[f]
      <4>1. Active' \subseteq Active
        BY <3>1, <3>5 DEF WriteUpstream, InsertUpstream
      <4> QED BY <2>1, <3>2, <3>3, <4>1
    <3>6. ASSUME NEW i \in Ids, Active' \subseteq Active \cup {i}, entry[f] = None \/ reactivate[f]
          PROVE  Owned'
      <4> DEFINE new == [own EXCEPT ![i] = f]
      <4> HIDE DEF Active, MayOwn
      <4>1. \A j \in Active : own[j] # f
        BY <2>0, <3>1, <3>6 DEF MayOwn
      <4>2. Active \subseteq Ids /\ Active' \subseteq Ids
        BY DEF Active
      <4>3. \A j \in Active' : new[j] \in Flows /\ MayOwn(new[j], j)'
        BY <2>0, <3>3, <3>4, <3>6, <4>2
      <4>4. \A j, k \in Active' : new[j] = new[k] => j = k
        BY <2>0, <3>6, <4>1, <4>2
      <4>5. new \in [Ids -> Flows \cup {None}]
        OBVIOUS
      <4>6. Laid(new)'
        BY <4>3, <4>4
      <4> HIDE DEF new
      <4> QED BY <3>2, <4>5, <4>6 DEF Owned
    <3>7. CASE entry[f] = None \/ reactivate[f]
      <4>1. CASE \E i \in Ids \ Rows : InsertUpstream(f, i)
        <5>1. PICK i \in Ids : InsertUpstream(f, i)
          BY <4>1
        <5>2. Active' \subseteq Active \cup {i}
          BY <5>1 DEF InsertUpstream, TypeOK
        <5> QED BY <3>6, <3>7, <5>2
      <4>2. CASE entry[f] # None /\ WriteUpstream(f)
        <5>1. entry[f] \in Ids
          BY <4>2 DEF TypeOK
        <5>2. Active' \subseteq Active \cup {entry[f]}
          BY <4>2 DEF WriteUpstream, InsertUpstream
        <5> QED BY <3>6, <3>7, <5>1, <5>2
      <4> QED BY <3>1, <4>1, <4>2 DEF WriteUpstream
    <3> QED BY <3>5, <3>7
  <2>7. CASE Tick \/ UNCHANGED vars
    <3>1. UNCHANGED <<Active, pc, dirty, entry, reactivate>>
      BY <2>7 DEF Tick, vars, session
    <3> HIDE DEF Active
    <3>2. \A f \in Flows, i \in Active : MayOwn(f, i) => MayOwn(f, i)'
      BY <3>1
    <3> QED BY <2>1, <3>1, <3>2 DEF Owned
  <2> QED BY <2>2, <2>3, <2>4, <2>5, <2>6, <2>7 DEF Next
<1> QED BY <1>1, <1>2, TypeCorrect, PTL DEF Spec

(* Overlapping flows never leave more active upstreams than there are      *)
(* flows.                                                                  *)
THEOREM ActiveAlwaysBounded == Spec => []ActiveBoundedByFlows
<1>1. Owned => ActiveBoundedByFlows
  <2> SUFFICES ASSUME Owned PROVE Cardinality(Active) <= Cardinality(Flows)
    BY DEF ActiveBoundedByFlows
  <2>1. PICK own \in [Ids -> Flows \cup {None}] : Laid(own)
    BY DEF Owned
  <2>2. [i \in Active |-> own[i]] \in Injection(Active, Flows)
    BY <2>1 DEF Laid, Injection, IsInjective
  <2> QED BY <2>2, FS_Injection
<1> QED BY <1>1, ActiveAreOwned, PTL

-----------------------------------------------------------------------------
(* What a flow without another one beside it has loaded.                   *)

(* A session that has not decided on an entry has none.                    *)
Undecided(f) == pc[f] # "decide" => entry[f] = None /\ ~reactivate[f]

(* What the commit of f leaves of the rows that are active.                *)
Staying(f) == Active \ dirty[f]

(* The rows that stay active have the URL that was asked for, and the      *)
(* entry is one of them or will be.                                        *)
Decided(f) ==
    /\ entry[f] = None => Staying(f) = {}
    /\ entry[f] # None =>
          /\ entry[f] \in Rows
          /\ entry[f] \in Staying(f) \/ reactivate[f]
          /\ req[f] # NoUrl => url[entry[f]] = req[f]
    /\ req[f] # NoUrl => \A i \in Staying(f) : url[i] = req[f]

LoadedAlone(f) ==
    alone[f] /\ pc[f] # "idle" =>
        /\ \A g \in Flows : pc[g] # "idle" => g = f
        /\ pc[f] = "autoflush" => Staying(f) = {}
        /\ pc[f] = "lookup" => Active = {}
        /\ pc[f] = "decide" => Decided(f)

AloneInv == \A f \in Flows : Undecided(f) /\ LoadedAlone(f)

(* A flow that loads starts from the rows that are active now.             *)
LEMMA LoadKeepsAlone ==
    ASSUME TypeOK, AloneInv, NEW f \in Flows, NEW u \in RequestUrls, NEW forced \in BOOLEAN,
           LoadActive(f, u, forced)
    PROVE  AloneInv'
<1>1. UNCHANGED <<url, active, reactivate>> /\ pc[f] = "idle"
  BY DEF LoadActive
<1>2. Active' = Active /\ Rows' = Rows
  BY <1>1 DEF Active, Rows
<1>3. dirty'[f] = Active \ Kept(u) /\ req'[f] = u
  BY DEF LoadActive, TypeOK
<1>4. Kept(u) \subseteq Active /\ (u # NoUrl => \A i \in Kept(u) : url[i] = u)
  BY DEF Kept
<1>5. Staying(f)' = Kept(u)
  BY <1>2, <1>3, <1>4 DEF Staying
<1>6. entry[f] = None /\ ~reactivate[f]
  BY <1>1 DEF AloneInv, Undecided
<1>7. \/ Kept(u) = {} /\ pc'[f] = "autoflush" /\ entry' = entry
      \/ \E i \in Kept(u) : entry' = [entry EXCEPT ![f] = i] /\ pc'[f] = "decide"
  <2>1. Newest(Kept(u)) \subseteq Kept(u)
    BY DEF Newest
  <2> QED BY <2>1 DEF LoadActive, TypeOK
<1>8. \A g \in Flows \ {f} : entry'[g] = entry[g] /\ pc'[g] = pc[g] /\ ~alone'[g]
  BY DEF LoadActive, TypeOK
<1>9. Undecided(f)' /\ LoadedAlone(f)'
  <2>1. CASE Kept(u) = {} /\ pc'[f] = "autoflush" /\ entry' = entry
    <3>1. Undecided(f)'
      BY <1>1, <1>6, <2>1 DEF Undecided
    <3>2. alone'[f] => \A g \in Flows : pc'[g] # "idle" => g = f
      BY <1>8 DEF LoadActive, Running, TypeOK
    <3> QED BY <1>5, <2>1, <3>1, <3>2 DEF LoadedAlone
  <2>2. CASE \E i \in Kept(u) : entry' = [entry EXCEPT ![f] = i] /\ pc'[f] = "decide"
    <3>1. PICK i \in Kept(u) : entry' = [entry EXCEPT ![f] = i] /\ pc'[f] = "decide"
      BY <2>2
    <3>2. entry'[f] = i /\ i \in Active /\ i \in Rows /\ i # None
      BY <1>4, <3>1 DEF TypeOK, Active, Rows
    <3>3. alone'[f] => \A g \in Flows : pc'[g] # "idle" => g = f
      BY <1>8 DEF LoadActive, Running, TypeOK
    <3>4. Decided(f)'
      BY <1>1, <1>2, <1>3, <1>4, <1>5, <3>1, <3>2 DEF Decided
    <3> QED BY <3>1, <3>3, <3>4 DEF Undecided, LoadedAlone
  <2> QED BY <1>7, <2>1, <2>2
<1> QED BY <1>1, <1>8, <1>9 DEF AloneInv, Undecided, LoadedAlone

(* A step of f that leaves the other sessions alone disturbs no other flow *)
(* that is alone: there is none while f runs.                              *)
LEMMA OthersStay ==
    ASSUME AloneInv, NEW f \in Flows, NEW g \in Flows, g # f, pc[f] # "idle",
           pc'[g] = pc[g], entry'[g] = entry[g], reactivate'[g] = reactivate[g], alone' = alone
    PROVE  Undecided(g)' /\ LoadedAlone(g)'
<1>1. ~alone[g] \/ pc[g] = "idle"
  BY DEF AloneInv, LoadedAlone
<1> QED BY <1>1 DEF AloneInv, Undecided, LoadedAlone

(* A flow that is alone commits the rows it decided on.                    *)
LEMMA AloneSchedulesItsUrl ==
    ASSUME TypeOK, AloneInv, NEW f \in Flows, Schedule(f), alone[f], req[f] # NoUrl
    PROVE  Active' # {} /\ \A i \in Active' : url'[i] = Validated(req[f])
<1>1. Decided(f)
  BY DEF Schedule, AloneInv, LoadedAlone
<1>2. CASE \E i \in Ids \ Rows : InsertUpstream(f, i)
  <2>1. PICK i \in Ids \ Rows : InsertUpstream(f, i)
    BY <1>2
  <2>2. Staying(f) = {}
    BY <1>1, <2>1 DEF Decided, InsertUpstream
  <2>3. url'[i] = Validated(req[f]) /\ Validated(req[f]) # None
    BY <2>1 DEF InsertUpstream, TypeOK, Validated
  <2>4. \A j \in Ids : active'[j] /\ url'[j] # None => j = i
    <3> SUFFICES ASSUME NEW j \in Ids, active'[j], url'[j] # None, j # i
                 PROVE  FALSE
      OBVIOUS
    <3>1. active[j] /\ j \notin dirty[f] /\ url[j] # None
      BY <2>1 DEF InsertUpstream, TypeOK
    <3> QED BY <2>2, <3>1 DEF Staying, Active, Rows
  <2>5. active'[i]
    BY <2>1 DEF InsertUpstream
  <2> QED BY <2>3, <2>4, <2>5 DEF Active, Rows
<1>3. CASE ~\E i \in Ids \ Rows : InsertUpstream(f, i)
  <2>1. /\ entry[f] # None /\ url' = url
        /\ active' = [j \in Ids |-> (j = entry[f] /\ reactivate[f]) \/ (active[j] /\ j \notin dirty[f])]
    BY <1>3 DEF Schedule, WriteUpstream
  <2>2. Active' \subseteq Staying(f) \cup {entry[f]}
    BY <2>1 DEF Active, Rows, Staying, TypeOK
  <2>3. entry[f] \in Active'
    <3>1. entry[f] \in Ids /\ url[entry[f]] # None /\ (entry[f] \in Staying(f) \/ reactivate[f])
      BY <1>1, <2>1 DEF Decided, Rows
    <3> QED BY <2>1, <3>1 DEF Active, Rows, Staying
  <2>4. \A i \in Active' : url'[i] = req[f] /\ i \in Ids /\ url'[i] # None
    BY <1>1, <2>1, <2>2 DEF Decided, Active, Rows
  <2>5. \A i \in Active' : url'[i] = Validated(req[f])
    BY <2>1, <2>4 DEF Validated, TypeOK
  <2> QED BY <2>3, <2>5
<1> QED BY <1>2, <1>3

(* As long as no other flow loads, the session of a flow fits the table.   *)
THEOREM LoadedAloneInvariant == Spec => []AloneInv
<1>1. Init => AloneInv
  BY DEF Init, AloneInv, Undecided, LoadedAlone
<1>2. TypeOK /\ AloneInv /\ [Next]_vars => AloneInv'
  <2> SUFFICES ASSUME TypeOK, AloneInv, [Next]_vars
               PROVE  AloneInv'
    OBVIOUS
  <2>1. ASSUME NEW f \in Flows, NEW u \in RequestUrls, NEW forced \in BOOLEAN, LoadActive(f, u, forced)
        PROVE  AloneInv'
    BY <2>1, LoadKeepsAlone
  <2>2. ASSUME NEW f \in Flows, Autoflush(f)
        PROVE  AloneInv'
    <3>1. \A g \in Flows \ {f} : Undecided(g)' /\ LoadedAlone(g)'
      BY <2>2, OthersStay DEF Autoflush, TypeOK, history
    <3>2. pc[f] = "autoflush" /\ pc'[f] = "lookup" /\ alone' = alone /\ entry' = entry /\ reactivate' = reactivate
      BY <2>2 DEF Autoflush, TypeOK, history
    <3>3. alone[f] => Staying(f) = {} /\ \A g \in Flows : pc[g] # "idle" => g = f
      BY <3>2 DEF AloneInv, LoadedAlone
    <3>4. Active' = Staying(f)
      BY <2>2 DEF Autoflush, Active, Rows, Staying, TypeOK
    <3>5. \A g \in Flows \ {f} : pc'[g] = pc[g]
      BY <2>2 DEF Autoflush, TypeOK
    <3> QED BY <3>1, <3>2, <3>3, <3>4, <3>5 DEF AloneInv, Undecided, LoadedAlone
  <2>3. ASSUME NEW f \in Flows, FindOlder(f)
        PROVE  AloneInv'
    <3> DEFINE older == {i \in Rows : ~active[i] /\ url[i] = req[f]}
    <3>1. pc[f] = "lookup" /\ pc'[f] = "decide" /\ UNCHANGED <<url, active, req, alone, dirty>>
      BY <2>3 DEF FindOlder, TypeOK, history, table, request, session
    <3>2. \A g \in Flows \ {f} : pc'[g] = pc[g]
      BY <2>3 DEF FindOlder, TypeOK
    <3>3. \/ entry' = entry /\ reactivate' = reactivate
          \/ \E i \in older : entry' = [entry EXCEPT ![f] = i] /\ reactivate' = [reactivate EXCEPT ![f] = TRUE]
      <4>1. Newest(older) \subseteq older
        BY DEF Newest
      <4> HIDE DEF older
      <4> QED BY <2>3, <4>1 DEF FindOlder, session, older
    <3>4. \A g \in Flows \ {f} : entry'[g] = entry[g] /\ reactivate'[g] = reactivate[g]
      <4> HIDE DEF older
      <4> QED BY <3>3 DEF TypeOK
    <3>5. \A g \in Flows \ {f} : Undecided(g)' /\ LoadedAlone(g)'
      BY <3>1, <3>2, <3>4, OthersStay
    <3>6. Undecided(f)'
      BY <3>1 DEF Undecided
    <3>7. alone[f] => Active = {} /\ \A g \in Flows : pc[g] # "idle" => g = f
      BY <3>1 DEF AloneInv, LoadedAlone
    <3>8. Staying(f)' \subseteq Active /\ Rows' = Rows
      BY <3>1 DEF Staying, Active, Rows
    <3>9. entry[f] = None
      BY <3>1 DEF AloneInv, Undecided
    <3>10. alone[f] => Decided(f)'
      <4>1. CASE entry' = entry /\ reactivate' = reactivate
        BY <3>7, <3>8, <3>9, <4>1 DEF Decided
      <4>2. CASE \E i \in older : entry' = [entry EXCEPT ![f] = i] /\ reactivate' = [reactivate EXCEPT ![f] = TRUE]
        <5>1. PICK i \in older : entry' = [entry EXCEPT ![f] = i] /\ reactivate' = [reactivate EXCEPT ![f] = TRUE]
          BY <4>2
        <5>2. entry'[f] = i /\ reactivate'[f] /\ i \in Rows /\ i # None /\ url[i] = req[f]
          BY <5>1 DEF TypeOK, Rows
        <5> QED BY <3>1, <3>7, <3>8, <5>2 DEF Decided
      <4> QED BY <3>3, <4>1, <4>2
    <3> QED BY <3>1, <3>2, <3>5, <3>6, <3>7, <3>10 DEF AloneInv, LoadedAlone
  <2>4. ASSUME NEW f \in Flows, Skip(f) \/ Schedule(f) \/ Fail(f)
        PROVE  AloneInv'
    <3>1. EmptySession(f) /\ pc[f] # "idle" /\ alone' = alone
      BY <2>4 DEF Skip, Schedule, Fail, history
    <3>2. pc'[f] \in {"idle", "skipped"} /\ \A g \in Flows \ {f} : pc'[g] = pc[g]
      BY <2>4 DEF Skip, Schedule, Fail, TypeOK
    <3>3. \A g \in Flows \ {f} : entry'[g] = entry[g] /\ reactivate'[g] = reactivate[g]
      BY <3>1 DEF EmptySession, TypeOK
    <3>4. entry'[f] = None /\ ~reactivate'[f]
      BY <3>1 DEF EmptySession, TypeOK
    <3>5. \A g \in Flows \ {f} : Undecided(g)' /\ LoadedAlone(g)'
      BY <3>1, <3>2, <3>3, OthersStay
    <3>6. alone[f] => \A g \in Flows : pc[g] # "idle" => g = f
      BY <3>1 DEF AloneInv, LoadedAlone
    <3>7. Undecided(f)' /\ LoadedAlone(f)'
      BY <3>1, <3>2, <3>4, <3>6 DEF Undecided, LoadedAlone
    <3> QED BY <3>5, <3>7 DEF AloneInv
  <2>5. ASSUME NEW f \in Flows, Return(f)
        PROVE  AloneInv'
    <3>1. pc[f] = "skipped" /\ pc'[f] = "idle" /\ alone' = alone /\ entry' = entry /\ reactivate' = reactivate
      BY <2>5 DEF Return, TypeOK, history, session
    <3>2. \A g \in Flows \ {f} : pc'[g] = pc[g]
      BY <2>5 DEF Return, TypeOK
    <3>3. \A g \in Flows \ {f} : Undecided(g)' /\ LoadedAlone(g)'
      BY <3>1, <3>2, OthersStay
    <3>4. Undecided(f)' /\ LoadedAlone(f)'
      BY <3>1 DEF AloneInv, Undecided, LoadedAlone
    <3> QED BY <3>3, <3>4 DEF AloneInv
  <2>6. CASE Tick \/ UNCHANGED vars
    <3>1. UNCHANGED <<url, active, pc, req, dirty, entry, reactivate, alone>>
      BY <2>6 DEF Tick, vars, table, request, session, history
    <3> QED BY <3>1 DEF AloneInv, Undecided, LoadedAlone, Decided, Staying, Active, Rows
  <2> QED BY <2>1, <2>2, <2>3, <2>4, <2>5, <2>6 DEF Next
<1> QED BY <1>1, <1>2, TypeCorrect, PTL DEF Spec

(* A flow that ran alone leaves only rows with the URL it scheduled.       *)
THEOREM ScheduledUrlAlwaysWins == Spec => ScheduledUrlWins
<1>1. TypeOK /\ AloneInv /\ [Next]_vars =>
          [\A f \in Flows : pc[f] = "decide" /\ Schedule(f) /\ alone[f] /\ req[f] # NoUrl
             => /\ Active' # {}
                /\ \A i \in Active' : url'[i] = Validated(req[f])]_vars
  BY AloneSchedulesItsUrl
<1> QED BY <1>1, TypeCorrect, LoadedAloneInvariant, PTL DEF Spec, ScheduledUrlWins
=============================================================================
