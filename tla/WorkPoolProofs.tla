---------------------------- MODULE WorkPoolProofs ----------------------------
(***************************************************************************)
(* The pool of threads, for any finite number of jobs and threads, a timed *)
(* command that leaves any number of descendants, and the requests to the  *)
(* GitHub API, for any numbers of attempts.                                *)
(***************************************************************************)
EXTENDS WorkPool, TimedCommand, Github, FiniteSetTheorems, TLAPS

USE PoolAssumption

Unfinished == {j \in Jobs : poolJob[j] \in {"queued", "taken"}}
Failed     == {j \in Jobs : poolJob[j] = "failed"}
Gone       == {w \in Threads : poolThread[w].at = "gone"}

(* The counter is the number of unfinished jobs.                           *)
CountIsExact == unfinished = Cardinality(Unfinished)

(* A job that was taken is in the thread that took it, and in no other.    *)
TakenIsHeld == \A j \in Jobs : poolJob[j] = "taken" <=>
                   \E w \in Threads : WorksOn(w, j)
HeldOnce == \A v, w \in Threads, j \in Jobs : WorksOn(v, j) /\ WorksOn(w, j) => v = w

(* join has seen every thread leave, and the counter at zero.              *)
JoinedAreGone   == poolMain \in {"joining queue", "returned"} => Gone = Threads
ReturnedOwesNil == poolMain = "returned" => Unfinished = {}

(* While jobs are queued, the threads that left since the last one was     *)
(* added are those whose target raised.                                    *)
LostToFailure == Queued # {} => Cardinality(Gone \ poolEarly) <= Cardinality(Failed)

PoolInv == /\ CountIsExact /\ TakenIsHeld /\ HeldOnce
           /\ JoinedAreGone /\ ReturnedOwesNil /\ LostToFailure

(* The states of a thread, told apart by "at".                             *)
LEMMA PoolThread ==
    /\ \A at \in {"new", "waiting", "gone"} : [at |-> at] \in PoolThreadStates
    /\ \A j \in Jobs : [at |-> "working", job |-> j] \in PoolThreadStates
    /\ \A s \in PoolThreadStates : s.at = "working" => s.job \in Jobs
  BY DEF PoolThreadStates

(* Every variable of the pool keeps its type.                              *)
THEOREM PoolTypeCorrect == PoolSpec => []PoolTypeOK
<1>1. PoolInit => PoolTypeOK
  BY DEF PoolInit, PoolTypeOK, PoolThreadStates
<1>2. PoolTypeOK /\ [PoolNext]_poolVars => PoolTypeOK'
  <2> SUFFICES ASSUME PoolTypeOK, [PoolNext]_poolVars PROVE PoolTypeOK'
    OBVIOUS
  <2> USE PoolThread DEF PoolTypeOK
  <2>1. CASE Start
    BY <2>1 DEF Start
  <2>2. CASE JoinThreads \/ JoinQueue \/ Return
    BY <2>2 DEF JoinThreads, JoinQueue, Return
  <2>3. ASSUME NEW j \in Jobs, AddTask(j) PROVE PoolTypeOK'
    BY <2>3 DEF AddTask
  <2>4. ASSUME NEW w \in Threads, Get(w) PROVE PoolTypeOK'
    <3>1. PICK j \in Jobs : /\ poolThread' = [poolThread EXCEPT ![w] = [at |-> "working", job |-> j]]
                            /\ poolJob' = [poolJob EXCEPT ![j] = "taken"]
      BY <2>4 DEF Get, Queued
    <3>2. [at |-> "working", job |-> j] \in PoolThreadStates
      OBVIOUS
    <3> QED BY <2>4, <3>1, <3>2 DEF Get
  <2>5. ASSUME NEW w \in Threads, GetTimesOut(w) PROVE PoolTypeOK'
    <3>1. [at |-> "gone"] \in PoolThreadStates
      OBVIOUS
    <3> QED BY <2>5, <3>1 DEF GetTimesOut
  <2>6. ASSUME NEW w \in Threads, TargetReturns(w) \/ TargetRaises(w) PROVE PoolTypeOK'
    <3>1. poolThread[w].job \in Jobs
      BY <2>6 DEF TargetReturns, TargetRaises
    <3>2. [at |-> "gone"] \in PoolThreadStates /\ [at |-> "waiting"] \in PoolThreadStates
      OBVIOUS
    <3>3. poolThread' \in [Threads -> PoolThreadStates]
      BY <2>6, <3>2 DEF TargetReturns, TargetRaises
    <3>4. \E end \in {"done", "failed"} : poolJob' = [poolJob EXCEPT ![poolThread[w].job] = end]
      BY <2>6 DEF TargetReturns, TargetRaises
    <3>5. poolJob' \in [Jobs -> {"new", "queued", "taken", "done", "failed"}]
      BY <3>1, <3>4
    <3>6. unfinished' \in Int
      <4>1. unfinished' = unfinished - 1 /\ unfinished \in Int
        BY <2>6 DEF TargetReturns, TargetRaises
      <4> HIDE DEF PoolTypeOK
      <4> QED BY <4>1
    <3> QED BY <2>6, <3>3, <3>5, <3>6 DEF TargetReturns, TargetRaises
  <2>7. CASE UNCHANGED poolVars
    BY <2>7 DEF poolVars
  <2> QED BY <2>1, <2>2, <2>3, <2>4, <2>5, <2>6, <2>7 DEF PoolNext, Work
<1> QED BY <1>1, <1>2, PTL DEF PoolSpec

(* The sets that are counted are finite.                                   *)
LEMMA PoolFinite == /\ IsFiniteSet(Unfinished) /\ IsFiniteSet(Failed) /\ IsFiniteSet(Gone)
                    /\ IsFiniteSet(Gone \ poolEarly) /\ IsFiniteSet(Gone \cap poolEarly)
<1>1. /\ Unfinished \in SUBSET Jobs /\ Failed \in SUBSET Jobs /\ Gone \in SUBSET Threads
      /\ Gone \ poolEarly \in SUBSET Threads /\ Gone \cap poolEarly \in SUBSET Threads
  BY DEF Unfinished, Failed, Gone
<1> QED BY <1>1, FS_Subset

(* One more element is one more at the most.                               *)
LEMMA OneMore ==
    ASSUME NEW D, NEW E, NEW x, IsFiniteSet(D), E \in SUBSET (D \cup {x})
    PROVE  /\ Cardinality(E) \in Nat /\ Cardinality(D) \in Nat
           /\ Cardinality(E) <= Cardinality(D) + 1
<1>1. IsFiniteSet(D \cup {x}) /\ Cardinality(D \cup {x}) = IF x \in D THEN Cardinality(D) ELSE Cardinality(D) + 1
  BY FS_AddElement
<1>2. IsFiniteSet(E) /\ Cardinality(E) <= Cardinality(D \cup {x})
  BY <1>1, FS_Subset
<1>3. Cardinality(D) \in Nat /\ Cardinality(E) \in Nat
  BY <1>2, FS_CardinalityType
<1> QED BY <1>1, <1>2, <1>3

(* Sets that cover a set have at least its elements.                       *)
LEMMA CoverBound ==
    ASSUME NEW S, NEW D, NEW E, IsFiniteSet(D), IsFiniteSet(E), S = D \cup E, NEW n \in Nat,
           Cardinality(E) <= n
    PROVE  Cardinality(S) <= Cardinality(D) + n
<1>1. Cardinality(S) = Cardinality(D) + Cardinality(E) - Cardinality(D \cap E)
  BY FS_Union
<1>2. D \cap E \in SUBSET D
  OBVIOUS
<1>3. IsFiniteSet(D \cap E)
  BY <1>2, FS_Subset
<1>4. Cardinality(D) \in Nat /\ Cardinality(E) \in Nat /\ Cardinality(D \cap E) \in Nat
  BY <1>3, FS_CardinalityType
<1> QED BY <1>1, <1>4

(* The job a thread works on is unfinished until its target ends.          *)
LEMMA PoolJobEnds ==
    ASSUME PoolTypeOK, TakenIsHeld, HeldOnce, CountIsExact, NEW w \in Threads,
           poolThread[w].at = "working",
           NEW end \in {"done", "failed"},
           poolJob' = [poolJob EXCEPT ![poolThread[w].job] = end],
           NEW at \in {"waiting", "gone"},
           poolThread' = [poolThread EXCEPT ![w] = [at |-> at]],
           unfinished' = unfinished - 1
    PROVE  /\ CountIsExact' /\ TakenIsHeld' /\ HeldOnce'
           /\ Unfinished' \subseteq Unfinished /\ Queued' = Queued
           /\ poolThread[w].job \in Jobs \ Failed
<1> USE DEF PoolTypeOK, PoolThreadStates
<1> DEFINE j == poolThread[w].job
<1>1. j \in Jobs /\ WorksOn(w, j)
  BY DEF WorksOn
<1>2. poolJob[j] = "taken"
  BY <1>1 DEF TakenIsHeld
<1>3. Unfinished' = Unfinished \ {j} /\ j \in Unfinished
  BY <1>1, <1>2 DEF Unfinished
<1>4. CountIsExact'
  BY <1>3, PoolFinite, FS_RemoveElement, FS_CardinalityType DEF CountIsExact
<1>5. \A v \in Threads, i \in Jobs : WorksOn(v, i)' <=> v # w /\ WorksOn(v, i)
  BY DEF WorksOn
<1>6. TakenIsHeld' /\ HeldOnce'
  <2>1. \A i \in Jobs : poolJob'[i] = "taken" <=> i # j /\ poolJob[i] = "taken"
    BY <1>1
  <2>2. \A v \in Threads : WorksOn(v, j) => v = w
    BY <1>1 DEF HeldOnce
  <2>3. \A i \in Jobs : WorksOn(w, i) => i = j
    BY DEF WorksOn
  <2>4. ASSUME NEW i \in Jobs PROVE poolJob'[i] = "taken" <=> \E v \in Threads : WorksOn(v, i)'
    <3>1. (\E v \in Threads : WorksOn(v, i)') <=> i # j /\ \E v \in Threads : WorksOn(v, i)
      BY <2>2, <2>3, <1>5
    <3> QED BY <2>1, <3>1 DEF TakenIsHeld
  <2>5. HeldOnce'
    BY <1>5 DEF HeldOnce
  <2> QED BY <2>4, <2>5 DEF TakenIsHeld
<1>7. Queued' = Queued
  BY <1>1, <1>2 DEF Queued
<1>8. j \in Jobs \ Failed
  BY <1>1, <1>2 DEF Failed
<1> QED BY <1>3, <1>4, <1>6, <1>7, <1>8

(* What the caller of a pool relies on: the inductive invariant.           *)
THEOREM PoolInvariant == PoolSpec => []PoolInv
<1>1. PoolInit => PoolInv
  <2> SUFFICES ASSUME PoolInit PROVE PoolInv
    OBVIOUS
  <2>1. Unfinished = {} /\ Gone = {} /\ Queued = {}
    BY DEF PoolInit, Unfinished, Gone, Queued
  <2> QED BY <2>1, FS_EmptySet DEF PoolInit, PoolInv, CountIsExact, TakenIsHeld, HeldOnce,
             WorksOn, JoinedAreGone, ReturnedOwesNil, LostToFailure
<1>2. PoolInv /\ PoolTypeOK /\ [PoolNext]_poolVars => PoolInv'
  <2> SUFFICES ASSUME PoolInv, PoolTypeOK, [PoolNext]_poolVars PROVE PoolInv'
    OBVIOUS
  <2> USE DEF PoolInv, PoolTypeOK, PoolThreadStates
  <2>1. CASE Start
    <3>1. Gone = {} /\ Gone' = {} /\ UNCHANGED <<Unfinished, Queued, Failed>>
      BY <2>1 DEF Start, Gone, Unfinished, Queued, Failed
    <3>2. TakenIsHeld' /\ HeldOnce'
      <4>1. \A v \in Threads, i \in Jobs : ~WorksOn(v, i) /\ ~WorksOn(v, i)'
        BY <2>1 DEF Start, WorksOn
      <4> QED BY <2>1, <4>1 DEF Start, TakenIsHeld, HeldOnce
    <3>3. LostToFailure'
      BY <2>1, <3>1, FS_EmptySet, PoolFinite, FS_CardinalityType DEF Start, LostToFailure
    <3> QED BY <2>1, <3>1, <3>2, <3>3 DEF Start, CountIsExact, JoinedAreGone, ReturnedOwesNil
  <2>2. CASE JoinThreads \/ JoinQueue \/ Return
    <3>1. UNCHANGED <<poolThread, poolJob, unfinished, poolEarly>>
      BY <2>2 DEF JoinThreads, JoinQueue, Return
    <3>2. UNCHANGED <<Gone, Unfinished, Queued, Failed>>
      BY <3>1 DEF Gone, Unfinished, Queued, Failed
    <3>3. CountIsExact' /\ TakenIsHeld' /\ HeldOnce' /\ LostToFailure'
      BY <3>1, <3>2 DEF CountIsExact, TakenIsHeld, HeldOnce, WorksOn, LostToFailure
    <3>4. JoinedAreGone'
      BY <2>2, <3>2 DEF JoinThreads, JoinQueue, Return, JoinedAreGone, Gone
    <3>5. ReturnedOwesNil'
      BY <2>2, <3>2, PoolFinite, FS_EmptySet
         DEF JoinThreads, JoinQueue, Return, ReturnedOwesNil, CountIsExact
    <3> QED BY <3>3, <3>4, <3>5
  <2>3. ASSUME NEW j \in Jobs, AddTask(j) PROVE PoolInv'
    <3>1. Unfinished' = Unfinished \cup {j} /\ j \notin Unfinished
      BY <2>3 DEF AddTask, Unfinished
    <3>2. CountIsExact'
      BY <2>3, <3>1, PoolFinite, FS_AddElement, FS_CardinalityType DEF AddTask, CountIsExact
    <3>3. TakenIsHeld' /\ HeldOnce'
      <4>1. \A v \in Threads, i \in Jobs : WorksOn(v, i)' <=> WorksOn(v, i)
        BY <2>3 DEF AddTask, WorksOn
      <4> QED BY <2>3, <4>1 DEF AddTask, TakenIsHeld, HeldOnce
    <3>4. Gone' \ poolEarly' = {}
      BY <2>3 DEF AddTask, Gone
    <3>5. Failed' \in SUBSET Jobs
      BY DEF Failed
    <3>6. LostToFailure'
      BY <3>4, <3>5, FS_Subset, FS_EmptySet, FS_CardinalityType DEF LostToFailure
    <3> QED BY <2>3, <3>2, <3>3, <3>6 DEF AddTask, JoinedAreGone, ReturnedOwesNil
  <2>4. ASSUME NEW w \in Threads, Get(w) PROVE PoolInv'
    <3>1. PICK j \in Queued : /\ poolThread' = [poolThread EXCEPT ![w] = [at |-> "working", job |-> j]]
                              /\ poolJob' = [poolJob EXCEPT ![j] = "taken"]
      BY <2>4 DEF Get
    <3>2. j \in Jobs /\ poolJob[j] = "queued" /\ poolThread[w].at = "waiting"
      BY <2>4, <3>1 DEF Get, Queued
    <3>3. UNCHANGED <<Unfinished, Gone, Failed>> /\ Queued # {}
      BY <3>1, <3>2 DEF Unfinished, Gone, Failed
    <3>4. \A v \in Threads, i \in Jobs :
             WorksOn(v, i)' <=> IF v = w THEN i = j ELSE WorksOn(v, i)
      BY <3>1, <3>2 DEF WorksOn
    <3>5. HeldOnce'
      <4>1. \A v \in Threads : ~WorksOn(v, j)
        BY <3>2 DEF TakenIsHeld
      <4> QED BY <3>4, <4>1 DEF HeldOnce
    <3>6. TakenIsHeld'
      <4>1. \A i \in Jobs : ~WorksOn(w, i)
        BY <3>2 DEF WorksOn
      <4>2. ASSUME NEW i \in Jobs PROVE poolJob'[i] = "taken" <=> \E v \in Threads : WorksOn(v, i)'
        <5>1. (\E v \in Threads : WorksOn(v, i)') <=> i = j \/ \E v \in Threads : WorksOn(v, i)
          BY <3>4, <4>1
        <5>2. poolJob'[i] = "taken" <=> i = j \/ poolJob[i] = "taken"
          BY <3>1, <3>2
        <5> QED BY <5>1, <5>2 DEF TakenIsHeld
      <4> QED BY <4>2 DEF TakenIsHeld
    <3> QED BY <2>4, <3>3, <3>5, <3>6
            DEF Get, CountIsExact, JoinedAreGone, ReturnedOwesNil, LostToFailure
  <2>5. ASSUME NEW w \in Threads, GetTimesOut(w) PROVE PoolInv'
    <3>1. UNCHANGED <<Unfinished, Queued>> /\ Queued = {} /\ Gone \subseteq Gone' /\ Gone' \subseteq Threads
      BY <2>5 DEF GetTimesOut, Unfinished, Queued, Gone
    <3>2. TakenIsHeld' /\ HeldOnce'
      <4>1. \A v \in Threads, i \in Jobs : WorksOn(v, i)' <=> WorksOn(v, i)
        BY <2>5 DEF GetTimesOut, WorksOn
      <4> QED BY <2>5, <4>1 DEF GetTimesOut, TakenIsHeld, HeldOnce
    <3> QED BY <2>5, <3>1, <3>2 DEF GetTimesOut, CountIsExact, JoinedAreGone, ReturnedOwesNil, LostToFailure
  <2>6. ASSUME NEW w \in Threads, TargetReturns(w) PROVE PoolInv'
    <3>1. /\ CountIsExact' /\ TakenIsHeld' /\ HeldOnce'
          /\ Unfinished' \subseteq Unfinished /\ Queued' = Queued
          /\ poolThread[w].job \in Jobs \ Failed
      BY <2>6, PoolJobEnds DEF TargetReturns
    <3>2. UNCHANGED <<Gone, Failed>>
      BY <2>6, <3>1 DEF TargetReturns, Gone, Failed
    <3> QED BY <2>6, <3>1, <3>2 DEF TargetReturns, JoinedAreGone, ReturnedOwesNil, LostToFailure
  <2>7. ASSUME NEW w \in Threads, TargetRaises(w) PROVE PoolInv'
    <3>1. /\ CountIsExact' /\ TakenIsHeld' /\ HeldOnce'
          /\ Unfinished' \subseteq Unfinished /\ Queued' = Queued
          /\ poolThread[w].job \in Jobs \ Failed
      BY <2>7, PoolJobEnds DEF TargetRaises
    <3>2. Gone' = Gone \cup {w} /\ Gone \subseteq Threads
      BY <2>7 DEF TargetRaises, Gone
    <3>3. Failed' = Failed \cup {poolThread[w].job}
      BY <2>7, <3>1 DEF TargetRaises, Failed
    <3>4. Cardinality(Failed') = Cardinality(Failed) + 1
      BY <3>1, <3>3, PoolFinite, FS_AddElement
    <3>5. Gone' \ poolEarly' \subseteq (Gone \ poolEarly) \cup {w}
      BY <2>7, <3>2 DEF TargetRaises
    <3>6. /\ Cardinality(Gone' \ poolEarly') <= Cardinality(Gone \ poolEarly) + 1
          /\ Cardinality(Gone' \ poolEarly') \in Nat
      BY <3>5, PoolFinite, OneMore
    <3>7. LostToFailure'
      <4>1. Cardinality(Gone \ poolEarly) \in Nat /\ Cardinality(Failed) \in Nat
        BY PoolFinite, FS_CardinalityType
      <4>2. ASSUME Queued' # {} PROVE Cardinality(Gone \ poolEarly) <= Cardinality(Failed)
        BY <3>1, <4>2 DEF LostToFailure
      <4> HIDE DEF PoolInv, PoolTypeOK, PoolThreadStates
      <4>3. ASSUME Queued' # {} PROVE Cardinality(Gone' \ poolEarly') <= Cardinality(Failed')
        BY <3>4, <3>6, <4>1, <4>2, <4>3
      <4> QED BY <4>3 DEF LostToFailure
    <3>8. JoinedAreGone' /\ ReturnedOwesNil'
      BY <2>7, <3>1, <3>2 DEF TargetRaises, JoinedAreGone, ReturnedOwesNil
    <3> QED BY <3>1, <3>7, <3>8
  <2>8. CASE UNCHANGED poolVars
    BY <2>8 DEF poolVars, CountIsExact, TakenIsHeld, HeldOnce, WorksOn, JoinedAreGone, ReturnedOwesNil,
                LostToFailure, Unfinished, Gone, Failed, Queued
  <2> QED BY <2>1, <2>2, <2>3, <2>4, <2>5, <2>6, <2>7, <2>8 DEF PoolNext, Work
<1> QED BY <1>1, <1>2, PoolTypeCorrect, PTL DEF PoolSpec

(* The counter that join waits for is exact.                               *)
THEOREM UnfinishedIsAlwaysExact == PoolSpec => []UnfinishedIsExact
<1>1. PoolInv => UnfinishedIsExact
  BY DEF PoolInv, UnfinishedIsExact, CountIsExact, Unfinished, TakenIsHeld, HeldOnce
<1> QED BY <1>1, PoolInvariant, PTL

(* A join that hangs on a queued job has lost every thread: to the end of  *)
(* filling, or to a target that raised.                                    *)
THEOREM HangAlwaysHasCause == PoolSpec => []HangHasCause
<1>1. PoolInv /\ PoolTypeOK => HangHasCause
  <2> SUFFICES ASSUME PoolInv, PoolTypeOK, poolMain = "joining queue", Queued # {}
               PROVE Cardinality(Threads) <= Cardinality(poolEarly) + Cardinality(Failed)
    BY DEF HangHasCause, Failed
  <2>1. Gone = Threads /\ Cardinality(Gone \ poolEarly) <= Cardinality(Failed)
    BY DEF PoolInv, JoinedAreGone, LostToFailure
  <2>2. poolEarly \in SUBSET Threads /\ IsFiniteSet(poolEarly)
    BY FS_Subset DEF PoolTypeOK
  <2>3. Threads = poolEarly \cup (Gone \ poolEarly) /\ poolEarly \cap (Gone \ poolEarly) = {}
    BY <2>1, <2>2
  <2>4. Cardinality(Failed) \in Nat
    BY PoolFinite, FS_CardinalityType
  <2> QED BY <2>1, <2>2, <2>3, <2>4, PoolFinite, CoverBound
<1> QED BY <1>1, PoolInvariant, PoolTypeCorrect, PTL

(* A caller that has joined the threads waits for jobs that are queued and *)
(* for nothing else: no job is counted that a thread has taken along.      *)
HangIsOfTheQueue == poolMain = "joining queue" /\ Queued = {} => unfinished = 0

(* join of the queue returns at once when nothing is queued, so the pool   *)
(* hangs only as HangHasCause says.                                        *)
THEOREM PoolHangsOnlyOnQueue == PoolSpec => []HangIsOfTheQueue
<1>1. PoolInv /\ PoolTypeOK => HangIsOfTheQueue
  <2> SUFFICES ASSUME PoolInv, PoolTypeOK, poolMain = "joining queue", Queued = {}
               PROVE  unfinished = 0
    BY DEF HangIsOfTheQueue
  <2>1. \A w \in Threads : poolThread[w].at = "gone"
    BY DEF PoolInv, JoinedAreGone, Gone
  <2>2. \A j \in Jobs : poolJob[j] # "taken"
    BY <2>1 DEF PoolInv, TakenIsHeld, WorksOn
  <2>3. Unfinished = {}
    BY <2>2 DEF Unfinished, Queued
  <2> QED
    BY <2>3, FS_EmptySet DEF PoolInv, CountIsExact
<1> QED
  BY <1>1, PoolInvariant, PoolTypeCorrect, PTL

(* The pool implements JobPromise: a step of it runs a job that is owed,   *)
(* takes one on, lets the caller go when none is owed, or shows nothing.   *)
THEOREM PoolAlwaysKeepsPromise == PoolSpec => PoolKeepsPromise
<1> DEFINE J == [j \in Jobs |-> CASE poolJob[j] = "new"                 -> "new"
                                  [] poolJob[j] \in {"queued", "taken"} -> "owed"
                                  [] OTHER                              -> "run"]
           R == poolMain = "returned"
<1>1. PoolInit => Promise!Init
  BY DEF PoolInit, Promise!Init
<1>2. PoolInv /\ PoolTypeOK /\ [PoolNext]_poolVars => [Promise!Next]_<<J, R>>
  <2> SUFFICES ASSUME PoolInv, PoolTypeOK, [PoolNext]_poolVars PROVE [Promise!Next]_<<J, R>>
    OBVIOUS
  <2> USE DEF PoolTypeOK, PoolThreadStates
  <2>1. CASE Start \/ JoinThreads \/ JoinQueue
    BY <2>1 DEF Start, JoinThreads, JoinQueue
  <2>2. CASE Return
    <3>1. Unfinished = {}
      BY <2>2, PoolFinite, FS_EmptySet DEF Return, PoolInv, CountIsExact
    <3>2. \A j \in Jobs : J[j] # "owed"
      BY <3>1 DEF Unfinished
    <3>3. Promise!Leave
      BY <2>2, <3>2 DEF Return, Promise!Leave
    <3> QED BY <3>3 DEF Promise!Next
  <2>3. ASSUME NEW j \in Jobs, AddTask(j) PROVE Promise!Give(j)
    <3>1. J[j] = "new" /\ J' = [J EXCEPT ![j] = "owed"]
      BY <2>3 DEF AddTask
    <3> QED BY <2>3, <3>1 DEF AddTask, Promise!Give, Promise!Move
  <2>4. ASSUME NEW w \in Threads, Get(w) \/ GetTimesOut(w) PROVE UNCHANGED <<J, R>>
    BY <2>4 DEF Get, GetTimesOut, Queued
  <2>5. ASSUME NEW w \in Threads, TargetReturns(w) \/ TargetRaises(w)
        PROVE  \E j \in Jobs : Promise!Run(j)
    <3>0. poolThread[w].job \in Jobs /\ poolJob[poolThread[w].job] = "taken"
      BY <2>5 DEF TargetReturns, TargetRaises, PoolInv, TakenIsHeld, WorksOn
    <3>1. PICK j \in Jobs : j = poolThread[w].job /\ poolJob[j] = "taken"
      BY <3>0, Zenon
    <3>2. J[j] = "owed" /\ J' = [J EXCEPT ![j] = "run"]
      BY <2>5, <3>1 DEF TargetReturns, TargetRaises
    <3>3. Promise!Run(j)
      BY <2>5, <3>1, <3>2 DEF TargetReturns, TargetRaises, Promise!Run, Promise!Move
    <3> QED BY <3>3
  <2>6. CASE UNCHANGED poolVars
    BY <2>6 DEF poolVars
  <2> QED BY <2>1, <2>2, <2>3, <2>4, <2>5, <2>6 DEF PoolNext, Work, Promise!Next
<1> QED BY <1>1, <1>2, PoolInvariant, PoolTypeCorrect, PTL
        DEF PoolSpec, PoolKeepsPromise, Promise!Spec
-----------------------------------------------------------------------------
(* Only descendants of a command that was started are left, and none once  *)
(* its output was read to the end.                                         *)
ProcessOwns == /\ descendants \in Nat
               /\ cmdProcess \in {"none", "running", "exited", "reaped"}
               /\ cmdProcess \in {"none", "reaped"} => descendants = 0

(* run leaves the command to its thread, which reads it to the end.        *)
ThreadReads ==
    cmdApi = "run" =>
        /\ cmdCaller \in {"start", "joining", "killing", "returned", "raised", "worker killed"}
        /\ cmdCaller = "start" => cmdThread = "new"
        /\ cmdThread \in {"new", "starting"} => cmdProcess = "none"
        /\ cmdThread = "communicating" => cmdProcess \in {"running", "exited"}
        /\ cmdThread = "ended" => cmdProcess \in {"none", "reaped"}
        /\ cmdCaller # "worker killed" => cmdKilled = FALSE
        /\ cmdCaller = "worker killed" => cmdThread = "ended"
        /\ cmdThread = "ended" /\ cmdCaller # "worker killed" =>
               cmdOutput \in {"whole", "empty, status -1"}
        /\ cmdCaller = "returned" => cmdThread = "ended"

(* get_command_output has no thread: the caller reads.                     *)
CallerReads ==
    cmdApi = "get_command_output" =>
        /\ cmdThread = "new"
        /\ cmdCaller \in {"start", "communicating", "draining", "returned", "raised"}
        /\ cmdCaller = "start" => cmdProcess = "none"
        /\ cmdCaller \in {"communicating", "draining"} => cmdProcess \in {"running", "exited"}
        /\ cmdCaller \in {"returned", "raised"} => cmdProcess = "reaped"

CallInv == /\ cmdApi \in {"run", "get_command_output"}
           /\ cmdThread \in {"new", "starting", "communicating", "ended"}
           /\ ProcessOwns /\ ThreadReads /\ CallerReads /\ CallIsContained

(* One descendant more or less.                                            *)
LEMMA OneMoreOrLess == \A n \in Nat : n + 1 \in Nat /\ (n > 0 => n - 1 \in Nat /\ n # 0)
  OBVIOUS

(* Whatever a command does and whenever the time is up: what a caller gets *)
(* is the whole output of the command or the mark that there is none, and  *)
(* no process of the command stays behind a call that answered.            *)
THEOREM CallIsAlwaysContained == CommandSpec => []CallIsContained
<1> USE DEF CallInv, CallIsContained, NoPartialOutput, NothingLeftBehind
<1>1. CommandInit => CallInv
  BY DEF CommandInit, ProcessOwns, ThreadReads, CallerReads
<1>2. CallInv /\ [CommandNext]_cmdVars => CallInv'
  <2> SUFFICES ASSUME CallInv, [CommandNext]_cmdVars PROVE CallInv'
    OBVIOUS
  <2> USE DEF ProcessOwns, ThreadReads, CallerReads
  <2>1. CASE ThreadStart \/ JoinReturns \/ JoinTimesOut
    BY <2>1 DEF ThreadStart, JoinReturns, JoinTimesOut
  <2>2. CASE PopenFails \/ Popen
    BY <2>2 DEF PopenFails, Popen
  <2>3. CASE CommandForks
    <3>0. descendants \in Nat /\ descendants' = descendants + 1 /\ cmdProcess = "running"
      BY <2>3 DEF CommandForks
    <3>a. descendants' \in Nat
      BY <3>0, OneMoreOrLess, Zenon
    <3>1. cmdCaller \notin {"returned", "worker killed"} /\ descendants' \in Nat
          /\ cmdProcess \notin {"none", "reaped"}
      BY <3>0, <3>a
    <3>2. UNCHANGED <<cmdApi, cmdCaller, cmdThread, cmdProcess, cmdKilled, cmdOutput>>
      BY <2>3 DEF CommandForks
    <3> QED BY <3>1, <3>2
  <2>9. CASE CommandExits
    BY <2>9 DEF CommandExits
  <2>10. CASE DescendantExits
    <3>0. descendants \in Nat /\ descendants > 0 /\ descendants' = descendants - 1
      BY <2>10 DEF DescendantExits
    <3>a. descendants' \in Nat /\ descendants # 0
      BY <3>0, OneMoreOrLess, Zenon
    <3>1. descendants' \in Nat /\ cmdProcess \notin {"none", "reaped"}
      BY <3>0, <3>a
    <3>2. UNCHANGED <<cmdApi, cmdCaller, cmdThread, cmdProcess, cmdKilled, cmdOutput>>
      BY <2>10 DEF DescendantExits
    <3> QED BY <3>1, <3>2
  <2>4. CASE Communicate
    BY <2>4 DEF Communicate
  <2>5. CASE KillGroup
    <3>1. CASE cmdProcess \in {"none", "reaped"}
      BY <2>5, <3>1 DEF KillGroup
    <3>2. CASE cmdProcess \notin {"none", "reaped"}
      <4>1. /\ cmdCaller' = "worker killed" /\ cmdThread' = "ended" /\ cmdProcess' = "reaped"
            /\ descendants' = 0 /\ UNCHANGED <<cmdApi, cmdOutput>> /\ cmdApi = "run"
        BY <2>5, <3>2 DEF KillGroup
      <4> QED BY <4>1
    <3> QED BY <3>1, <3>2
  <2>6. CASE CheckOutput \/ CheckOutputTimesOut
    BY <2>6 DEF CheckOutput, CheckOutputTimesOut
  <2>7. CASE CheckOutputEnds
    BY <2>7 DEF CheckOutputEnds
  <2>8. CASE UNCHANGED cmdVars
    BY <2>8 DEF cmdVars
  <2> QED BY <2>1, <2>2, <2>3, <2>4, <2>5, <2>6, <2>7, <2>8, <2>9, <2>10 DEF CommandNext
<1> QED BY <1>1, <1>2, PTL DEF CommandSpec
-----------------------------------------------------------------------------
(* What a stage may ask for, and what was asked for before it.             *)
PeriodCost == (4 * Rounds) * QueryAttempts
TotalCost  == IF ghTask = "GitIssuesPRsTask" THEN 2 * IssueTries ELSE 3 * Attempts + 2 * PeriodCost

Tries(stage) == CASE stage \in Periods              -> QueryAttempts
                  [] stage \in {"issue", "comments"} -> IssueTries
                  [] OTHER                           -> Attempts

CostBefore(stage) == CASE stage \in {"repo", "issue"} -> 0
                       [] stage = "comments"          -> IssueTries
                       [] stage = "contributors"      -> Attempts
                       [] stage = "commits"           -> 2 * Attempts
                       [] stage = "month"             -> 3 * Attempts
                       [] OTHER                       -> 3 * Attempts + PeriodCost

QueriesCost == IF ghStage \in Periods THEN (4 * ghRound + ghQuery - 1) * QueryAttempts ELSE 0

StagesOf(task) == IF task = "GitIssuesPRsTask" THEN {"issue", "comments"}
                  ELSE {"repo", "contributors", "commits", "month", "year"}

GithubTypeOK ==
    /\ ghTask \in {"GithubTask", "NewGithubTask", "GitIssuesPRsTask"}
    /\ ghTry \in Nat /\ ghQuery \in Queries /\ ghRound \in Nat /\ ghRequests \in Nat
    /\ ghFound \in [Stages -> {"unset", "value", "missing", "gave up"}]
    /\ ghCounted \in [Queries -> Nat]
    /\ ghOutcome \in {"running", "success", "failed", "unknown"}

(* A running task is at a stage of its own and within its attempts, and    *)
(* has asked no more than the stages and attempts behind it allow.         *)
AskedSoFar ==
    ghOutcome = "running" =>
        /\ ghStage \in StagesOf(ghTask)
        /\ ghTry < Tries(ghStage) /\ ghRound < Rounds
        /\ ghRequests <= CostBefore(ghStage) + QueriesCost + ghTry

(* The stages that may not end without a value.                            *)
ReadOrUnset ==
    /\ \A s \in {"repo", "issue", "comments"} : ghFound[s] \in {"unset", "value"}
    /\ \A s \in Stages \ Periods : ghFound[s] # "gave up"

GithubInv == /\ GithubTypeOK /\ AskedSoFar /\ ReadOrUnset /\ CountsOfOneRound
             /\ ghRequests <= TotalCost /\ StoredIssueHasComments

(* The types one by one.                                                   *)
LEMMA GithubTypes ==
    ASSUME GithubInv
    PROVE  /\ ghTry \in Nat /\ ghQuery \in Queries /\ ghRound \in Nat /\ ghRequests \in Nat
           /\ ghTask \in {"GithubTask", "NewGithubTask", "GitIssuesPRsTask"}
           /\ ghFound \in [Stages -> {"unset", "value", "missing", "gave up"}]
           /\ ghCounted \in [Queries -> Nat]
           /\ ghOutcome \in {"running", "success", "failed", "unknown"}
BY DEF GithubInv, GithubTypeOK

(* Counting one request more.                                              *)
LEMMA NextNatural == \A n \in Nat : n + 1 \in Nat /\ n <= n /\ n <= n + 1
  OBVIOUS

(* The queries of a period in a row.                                       *)
LEMMA NextQuery == 1 \in Queries /\ \A q \in Queries : q # 4 => q + 1 \in Queries
  BY DEF Queries

(* Products with a constant grow with the other factor.                    *)
LEMMA TimesMonotone == \A a, b, c \in Nat : a <= b => a * c <= b * c
<1> SUFFICES ASSUME NEW a \in Nat, NEW b \in Nat, NEW c \in Nat, a <= b PROVE a * c <= b * c
  OBVIOUS
<1>1. (b - a) * c >= 0
  OBVIOUS
<1>2. (b - a) * c = b * c - a * c
  OBVIOUS
<1> QED BY <1>1, <1>2

(* The queries of a period, in the order in which the rounds ask them.     *)
LEMMA QueriesInOrder ==
    ASSUME NEW r \in Nat, NEW q \in Queries, NEW Q \in Nat, NEW R \in Nat, r < R
    PROVE  /\ (4 * r + q - 1) * Q \in Nat
           /\ (4 * r + (q + 1) - 1) * Q = (4 * r + q - 1) * Q + Q
           /\ (4 * r + q - 1) * Q + Q <= (4 * (r + 1) + 1 - 1) * Q
           /\ (4 * r + q - 1) * Q + Q <= (4 * R) * Q
<1> DEFINE n == 4 * r + q - 1
<1>1. n \in Nat /\ n + 1 <= 4 * R /\ n + 1 <= 4 * (r + 1) + 1 - 1 /\ 4 * r + (q + 1) - 1 = n + 1
      /\ 4 * (r + 1) + 1 - 1 \in Nat /\ 4 * R \in Nat /\ n + 1 \in Nat
  BY DEF Queries
<1> HIDE DEF n
<1>2. n * Q \in Nat /\ (n + 1) * Q = n * Q + Q
  BY <1>1
<1>3. (n + 1) * Q <= (4 * R) * Q /\ (n + 1) * Q <= (4 * (r + 1) + 1 - 1) * Q
  BY <1>1, TimesMonotone
<1>4. (4 * r + (q + 1) - 1) * Q = (n + 1) * Q
  BY <1>1
<1> QED BY <1>2, <1>3, <1>4 DEF n

(* The costs are numbers, and the last stage ends within the total.        *)
LEMMA CostsAreNumbers ==
    /\ PeriodCost \in Nat /\ TotalCost \in Nat
    /\ \A s \in Stages : CostBefore(s) \in Nat /\ Tries(s) \in Nat \ {0}
<1>1. PeriodCost \in Nat
  <2>1. Rounds \in Nat /\ QueryAttempts \in Nat
    BY GithubAssumption
  <2>2. 4 * Rounds \in Nat
    BY <2>1
  <2> DEFINE n == 4 * Rounds
  <2> HIDE DEF n
  <2>3. n * QueryAttempts \in Nat
    BY <2>1, <2>2 DEF n
  <2> QED BY <2>3 DEF PeriodCost, n
<1>2. TotalCost \in Nat
  BY <1>1, GithubAssumption DEF TotalCost
<1>3. \A s \in Stages : CostBefore(s) \in Nat /\ Tries(s) \in Nat \ {0}
  BY <1>1, GithubAssumption DEF CostBefore, Tries, Stages, Periods
<1> QED BY <1>1, <1>2, <1>3

StageCost(stage) == IF stage \in Periods THEN PeriodCost ELSE Tries(stage)

(* The costs of the stages of a task add up to its total.                  *)
LEMMA StagesAddUp ==
    ASSUME NEW stage \in StagesOf(ghTask)
    PROVE  /\ stage \in Stages
           /\ CostBefore(stage) + StageCost(stage)
                  = IF After(stage) = "end" THEN TotalCost ELSE CostBefore(After(stage))
           /\ CostBefore(stage) + StageCost(stage) <= TotalCost
           /\ After(stage) \in StagesOf(ghTask) \cup {"end"}
<1> USE DEF StagesOf, Stages, Periods, After, CostBefore, StageCost, Tries, TotalCost
<1>1. PeriodCost \in Nat
  BY CostsAreNumbers
<1>2. CASE ghTask = "GitIssuesPRsTask"
  BY <1>2, GithubAssumption
<1>3. CASE ghTask # "GitIssuesPRsTask"
  BY <1>1, <1>3, GithubAssumption
<1> QED BY <1>2, <1>3

(* There is room for one more request at the present stage.                *)
LEMMA RoomForOne ==
    ASSUME GithubInv, ghOutcome = "running"
    PROVE  /\ ghStage \in StagesOf(ghTask) /\ ghStage \in Stages
           /\ QueriesCost \in Nat /\ CostBefore(ghStage) \in Nat /\ StageCost(ghStage) \in Nat
           /\ ghRequests + 1 <= CostBefore(ghStage) + StageCost(ghStage)
           /\ ghRequests + 1 <= TotalCost
<1>1. ghStage \in StagesOf(ghTask) /\ ghTry < Tries(ghStage) /\ ghRound < Rounds
      /\ ghRequests <= CostBefore(ghStage) + QueriesCost + ghTry
  BY DEF GithubInv, AskedSoFar
<1>2. /\ ghStage \in Stages /\ CostBefore(ghStage) + StageCost(ghStage) <= TotalCost
      /\ CostBefore(ghStage) \in Nat /\ Tries(ghStage) \in Nat /\ PeriodCost \in Nat /\ TotalCost \in Nat
  BY <1>1, StagesAddUp, CostsAreNumbers
<1>3. ghTry \in Nat /\ ghRequests \in Nat /\ ghRound \in Nat /\ ghQuery \in Queries
  BY DEF GithubInv, GithubTypeOK
<1>4. CASE ghStage \in Periods
  <2>1. QueryAttempts \in Nat /\ Rounds \in Nat /\ Tries(ghStage) = QueryAttempts
    BY <1>4, GithubAssumption DEF Tries, Periods
  <2>2. QueriesCost \in Nat /\ QueriesCost + QueryAttempts <= PeriodCost
    BY <1>1, <1>3, <1>4, <2>1, QueriesInOrder DEF QueriesCost, PeriodCost
  <2>3. StageCost(ghStage) = PeriodCost
    BY <1>4 DEF StageCost
  <2> QED BY <1>1, <1>2, <1>3, <2>1, <2>2, <2>3
<1>5. CASE ghStage \notin Periods
  <2>1. QueriesCost = 0 /\ StageCost(ghStage) = Tries(ghStage)
    BY <1>5 DEF QueriesCost, StageCost
  <2> QED BY <1>1, <1>2, <1>3, <2>1
<1> QED BY <1>4, <1>5

(* A request notes its round in ghCounted and nothing else.                *)
LEMMA SendsTypes ==
    ASSUME GithubInv, Sends
    PROVE  ghRequests' = ghRequests + 1 /\ ghRequests' \in Nat
           /\ ghCounted' \in [Queries -> Nat] /\ ghTask' = ghTask
<1>1. ghRequests' = ghRequests + 1 /\ ghTask' = ghTask
  BY DEF Sends
<1>2. ghRequests' \in Nat
  BY <1>1, GithubTypes, NextNatural, Zenon
<1>3. ghCounted' \in [Queries -> Nat]
  BY GithubTypes DEF Sends
<1> QED BY <1>1, <1>2, <1>3

(* A request after which the task fails.                                   *)
LEMMA TaskFailsStep ==
    ASSUME GithubInv, ghOutcome = "running", Sends, TaskFails
    PROVE  GithubInv'
<1>1. ghOutcome' = "failed" /\ UNCHANGED <<ghStage, ghTry, ghQuery, ghRound, ghFound, ghTask>>
  BY SendsTypes DEF TaskFails
<1>2. GithubTypeOK'
  BY <1>1, SendsTypes DEF GithubInv, GithubTypeOK
<1>3. AskedSoFar' /\ ReadOrUnset' /\ CountsOfOneRound' /\ StoredIssueHasComments'
  BY <1>1 DEF GithubInv, AskedSoFar, ReadOrUnset, CountsOfOneRound, StoredIssueHasComments
<1>4. ghRequests' <= TotalCost'
  BY <1>1, SendsTypes, RoomForOne DEF TotalCost
<1> QED BY <1>2, <1>3, <1>4 DEF GithubInv

(* A stage ends with a value, or with nothing where that is allowed.       *)
StageEnds(what) ==
    /\ ghOutcome = "running" /\ StageFound(what)
    /\ what \in {"value", "missing", "gave up"}
    /\ what # "value" => ghStage \notin {"repo", "issue", "comments"}
    /\ what = "gave up" => ghStage \in Periods
    /\ Sends \/ UNCHANGED <<ghTask, ghCounted, ghRequests>>

(* The task goes on to its next stage, or ends.                            *)
LEMMA StageFoundStep ==
    ASSUME GithubInv, NEW what, StageEnds(what)
    PROVE  GithubInv'
<1>0. /\ ghOutcome = "running" /\ what \in {"value", "missing", "gave up"}
      /\ what = "value" \/ ghStage \notin {"repo", "issue", "comments"}
      /\ what = "gave up" => ghStage \in Periods
  BY DEF StageEnds
<1>1. /\ ghTask' = ghTask /\ ghRequests' \in Nat /\ ghCounted' \in [Queries -> Nat]
      /\ ghRequests' <= ghRequests + 1 /\ ghRequests \in Nat
  <2>1. CASE Sends
    <3>1. ghRequests' = ghRequests + 1 /\ ghTask' = ghTask /\ ghCounted' \in [Queries -> Nat]
      BY <2>1, SendsTypes
    <3> QED BY <3>1, GithubTypes, NextNatural, Zenon
  <2>2. CASE ~Sends
    <3>1. UNCHANGED <<ghTask, ghCounted, ghRequests>>
      BY <2>2 DEF StageEnds
    <3> QED BY <3>1, GithubTypes, NextNatural, Zenon
  <2> QED BY <2>1, <2>2
<1>2. /\ ghFound' = [ghFound EXCEPT ![ghStage] = what]
      /\ ghStage' = After(ghStage)
      /\ ghOutcome' = IF After(ghStage) = "end" THEN "success" ELSE "running"
      /\ ghTry' = 0 /\ ghQuery' = 1 /\ ghRound' = 0
  BY DEF StageEnds, StageFound
<1>3. /\ ghStage \in StagesOf(ghTask) /\ ghStage \in Stages
      /\ CostBefore(ghStage) \in Nat /\ StageCost(ghStage) \in Nat
      /\ ghRequests' <= CostBefore(ghStage) + StageCost(ghStage)
      /\ ghRequests' <= TotalCost
  <2>1. /\ ghStage \in StagesOf(ghTask) /\ ghStage \in Stages
        /\ CostBefore(ghStage) \in Nat /\ StageCost(ghStage) \in Nat /\ TotalCost \in Nat
        /\ ghRequests + 1 <= CostBefore(ghStage) + StageCost(ghStage)
        /\ ghRequests + 1 <= TotalCost
    BY <1>0, RoomForOne, CostsAreNumbers, Zenon
  <2> DEFINE x == ghRequests  y == ghRequests'  c == CostBefore(ghStage)  d == StageCost(ghStage)
             t == TotalCost
  <2>2. x \in Nat /\ y \in Nat /\ c \in Nat /\ d \in Nat /\ t \in Nat /\ x + 1 <= c + d
        /\ x + 1 <= t /\ y <= x + 1
    BY <1>1, <2>1
  <2> HIDE DEF x, y, c, d, t
  <2>3. y <= c + d /\ y <= t
    BY <2>2
  <2> QED BY <2>1, <2>3 DEF x, y, c, d, t
<1>4. GithubTypeOK'
  <2>1. ghFound' \in [Stages -> {"unset", "value", "missing", "gave up"}]
    BY <1>0, <1>2, GithubTypes
  <2>2. /\ 1 \in Queries /\ 0 \in Nat
        /\ ghOutcome' \in {"running", "success", "failed", "unknown"}
    BY <1>2, NextQuery
  <2>3. ghTask' \in {"GithubTask", "NewGithubTask", "GitIssuesPRsTask"}
    BY <1>1, GithubTypes
  <2> QED BY <1>1, <1>2, <2>1, <2>2, <2>3 DEF GithubTypeOK
<1>5. ReadOrUnset'
  BY <1>0, <1>2, <1>3 DEF GithubInv, GithubTypeOK, ReadOrUnset, Stages, Periods
<1>6. AskedSoFar'
  <2> SUFFICES ASSUME After(ghStage) # "end" PROVE AskedSoFar'
    BY <1>2 DEF AskedSoFar
  <2>1. /\ After(ghStage) \in StagesOf(ghTask)
        /\ ghRequests' <= CostBefore(After(ghStage))
    BY <1>3, StagesAddUp
  <2>2. 0 < Tries(After(ghStage)) /\ 0 < Rounds /\ CostBefore(After(ghStage)) \in Nat
    BY <2>1, StagesAddUp, CostsAreNumbers, GithubAssumption
  <2>3. QueriesCost' = 0
    <3>1. (4 * 0 + 1 - 1) * QueryAttempts = 0
      BY GithubAssumption
    <3> QED BY <1>2, <3>1 DEF QueriesCost
  <2>4. /\ CostBefore(ghStage') = CostBefore(After(ghStage)) /\ Tries(ghStage') = Tries(After(ghStage))
        /\ StagesOf(ghTask') = StagesOf(ghTask)
    BY <1>1, <1>2
  <2> QED BY <1>1, <1>2, <2>1, <2>2, <2>3, <2>4 DEF AskedSoFar
<1>7. CountsOfOneRound'
  BY <1>2 DEF CountsOfOneRound, Queries
<1>8. ghRequests' <= TotalCost'
  BY <1>1, <1>3 DEF TotalCost
<1>9. StoredIssueHasComments'
  <2> SUFFICES ASSUME ghTask = "GitIssuesPRsTask", After(ghStage) = "end"
               PROVE  ghFound'["comments"] = "value"
    BY <1>1, <1>2 DEF StoredIssueHasComments
  <2>1. ghStage = "comments"
    BY <1>3 DEF StagesOf, After
  <2>2. what = "value"
    BY <1>0, <2>1
  <2> QED BY <1>2, <2>1, <2>2 DEF GithubInv, GithubTypeOK, Stages
<1> QED BY <1>4, <1>5, <1>6, <1>7, <1>8, <1>9 DEF GithubInv

(* The same request is sent again.                                         *)
LEMMA AgainStep ==
    ASSUME GithubInv, ghOutcome = "running", Sends, ghTry + 1 < Tries(ghStage),
           ghTry' = ghTry + 1, UNCHANGED <<ghStage, ghQuery, ghRound, ghFound, ghOutcome>>
    PROVE  GithubInv'
<1>1. ghTry \in Nat /\ ghTry' \in Nat /\ ghRequests \in Nat
  BY GithubTypes, NextNatural
<1>2. GithubTypeOK'
  BY <1>1, SendsTypes DEF GithubInv, GithubTypeOK
<1>3. /\ QueriesCost' = QueriesCost /\ QueriesCost \in Nat /\ CostBefore(ghStage) \in Nat
      /\ CostBefore(ghStage') = CostBefore(ghStage) /\ Tries(ghStage') = Tries(ghStage)
  BY RoomForOne DEF QueriesCost
<1>4. AskedSoFar'
  BY <1>1, <1>3, SendsTypes DEF GithubInv, AskedSoFar
<1>5. ReadOrUnset' /\ StoredIssueHasComments'
  BY SendsTypes DEF GithubInv, ReadOrUnset, StoredIssueHasComments
<1>6. CountsOfOneRound'
  <2> SUFFICES ASSUME ghStage \in Periods, NEW q \in Queries, q < ghQuery
               PROVE  ghCounted'[q] = ghRound
    BY DEF CountsOfOneRound
  <2>1. ghCounted' = [ghCounted EXCEPT ![ghQuery] = ghRound]
    BY DEF Sends
  <2>2. ghCounted[q] = ghRound /\ q # ghQuery
    <3>1. ghCounted[q] = ghRound
      BY DEF GithubInv, CountsOfOneRound
    <3>2. \A n \in Queries : ~(n < n)
      BY DEF Queries
    <3> QED BY <3>1, <3>2, GithubTypes
  <2> QED BY <2>1, <2>2 DEF GithubInv, GithubTypeOK
<1>7. ghRequests' <= TotalCost'
  BY SendsTypes, RoomForOne DEF TotalCost
<1> QED BY <1>2, <1>4, <1>5, <1>6, <1>7 DEF GithubInv

(* The inductive invariant of the GitHub tasks, for any numbers of attempts.*)
THEOREM GithubInvariant == GithubSpec => []GithubInv
<1>1. GithubInit => GithubInv
  <2> SUFFICES ASSUME GithubInit PROVE GithubInv
    OBVIOUS
  <2> USE DEF GithubInit
  <2>1. GithubTypeOK
    BY NextQuery DEF GithubTypeOK
  <2>5. ReadOrUnset /\ StoredIssueHasComments
    BY DEF ReadOrUnset, StoredIssueHasComments, Stages, Periods
  <2>6. CountsOfOneRound
    BY DEF CountsOfOneRound, Queries
  <2>2. ghStage \in StagesOf(ghTask) /\ ghStage \in Stages /\ ghStage \notin Periods /\ CostBefore(ghStage) = 0
    BY DEF StagesOf, Stages, Periods, CostBefore
  <2>3. 0 < Tries(ghStage) /\ 0 < Rounds /\ 0 <= TotalCost
    BY <2>2, CostsAreNumbers, GithubAssumption
  <2>4. AskedSoFar
    BY <2>2, <2>3 DEF AskedSoFar, QueriesCost
  <2>7. ghRequests <= TotalCost
    BY <2>3
  <2> QED BY <2>1, <2>4, <2>5, <2>6, <2>7 DEF GithubInv
<1>2. GithubInv /\ [GithubNext]_ghVars => GithubInv'
  <2> SUFFICES ASSUME GithubInv, [GithubNext]_ghVars PROVE GithubInv'
    OBVIOUS
  <2>1. CASE RequestError
    <3>1. Sends /\ ghOutcome = "running" /\ ghStage \in {"repo", "contributors", "commits"}
      BY <2>1 DEF RequestError, Asking
    <3>2. Tries(ghStage) = Attempts
      BY <3>1 DEF Tries, Periods
    <3>3. CASE ghTry + 1 < Attempts
      BY <2>1, <3>1, <3>2, <3>3, AgainStep DEF RequestError
    <3>4. CASE ~(ghTry + 1 < Attempts)
      BY <2>1, <3>1, <3>4, TaskFailsStep DEF RequestError
    <3> QED BY <3>3, <3>4
  <2>2. ASSUME NEW reply \in {"ok", "empty", "none"}, RequestReply(reply) PROVE GithubInv'
    <3>1. Sends /\ ghOutcome = "running" /\ ghStage \in {"repo", "contributors", "commits"}
      BY <2>2 DEF RequestReply, Asking
    <3>2. CASE reply = "ok"
      BY <2>2, <3>1, <3>2, StageFoundStep DEF StageEnds, RequestReply
    <3>3. CASE reply # "ok" /\ ghStage = "repo"
      BY <2>2, <3>1, <3>3, TaskFailsStep DEF RequestReply
    <3>4. CASE reply # "ok" /\ ghStage # "repo"
      BY <2>2, <3>1, <3>4, StageFoundStep DEF StageEnds, RequestReply
    <3> QED BY <3>2, <3>3, <3>4
  <2>3. CASE NoContributors
    BY <2>3, StageFoundStep DEF StageEnds, NoContributors, Asking
  <2>4. CASE NotHosted
    BY <2>4 DEF NotHosted, GithubInv, GithubTypeOK, AskedSoFar, ReadOrUnset, CountsOfOneRound,
                TotalCost, StoredIssueHasComments
  <2>5. CASE QueryReply
    <3>1. Sends /\ ghOutcome = "running" /\ ghStage \in Periods
      BY <2>5 DEF QueryReply, Asking
    <3>2. CASE ghQuery = 4
      BY <2>5, <3>1, <3>2, StageFoundStep DEF StageEnds, QueryReply
    <3>3. CASE ghQuery # 4
      <4>1. ghQuery' = ghQuery + 1 /\ ghTry' = 0 /\ UNCHANGED <<ghStage, ghRound, ghFound, ghOutcome>>
        BY <2>5, <3>3 DEF QueryReply
      <4>2. /\ ghQuery \in Queries /\ ghQuery' \in Queries /\ ghRound \in Nat /\ ghTry \in Nat
            /\ ghRequests \in Nat
        BY <3>3, <4>1, GithubTypes, NextQuery
      <4>3. GithubTypeOK'
        BY <4>1, <4>2, SendsTypes, <3>1 DEF GithubInv, GithubTypeOK
      <4>4. ghTry < QueryAttempts /\ ghRound < Rounds /\ QueryAttempts \in Nat /\ Rounds \in Nat
            /\ ghRequests <= CostBefore(ghStage) + QueriesCost + ghTry
        BY <3>1, GithubAssumption DEF GithubInv, AskedSoFar, Tries, Periods
      <4>5. /\ QueriesCost' = QueriesCost + QueryAttempts
            /\ QueriesCost \in Nat /\ CostBefore(ghStage) \in Nat
        BY <3>1, <4>1, <4>2, <4>4, QueriesInOrder, RoomForOne DEF QueriesCost
      <4>6. CostBefore(ghStage') = CostBefore(ghStage) /\ Tries(ghStage') = QueryAttempts
            /\ StagesOf(ghTask') = StagesOf(ghTask)
        BY <3>1, <4>1, SendsTypes DEF Tries, Periods
      <4>7. AskedSoFar'
        <5>1. ghRequests' <= CostBefore(ghStage') + QueriesCost' + ghTry'
          BY <3>1, <4>1, <4>2, <4>4, <4>5, <4>6, SendsTypes
        <5> QED BY <4>1, <4>2, <4>4, <4>6, <5>1, <3>1, SendsTypes DEF GithubInv, AskedSoFar
      <4>8. ReadOrUnset' /\ StoredIssueHasComments'
        BY <4>1, <3>1, SendsTypes DEF GithubInv, ReadOrUnset, StoredIssueHasComments
      <4>9. CountsOfOneRound'
        <5> SUFFICES ASSUME NEW q \in Queries, q < ghQuery + 1 PROVE ghCounted'[q] = ghRound
          BY <4>1 DEF CountsOfOneRound
        <5>1. ghCounted' = [ghCounted EXCEPT ![ghQuery] = ghRound]
          BY <3>1 DEF Sends
        <5>2. q = ghQuery \/ (q < ghQuery /\ ghCounted[q] = ghRound)
          BY <3>1, <4>2 DEF GithubInv, CountsOfOneRound, Queries
        <5> QED BY <5>1, <5>2, <4>2 DEF GithubInv, GithubTypeOK
      <4>10. ghRequests' <= TotalCost'
        BY <3>1, SendsTypes, RoomForOne DEF TotalCost
      <4> QED BY <4>3, <4>7, <4>8, <4>9, <4>10 DEF GithubInv
    <3> QED BY <3>2, <3>3
  <2>6. CASE QueryError
    <3>1. Sends /\ ghOutcome = "running" /\ ghStage \in Periods
      BY <2>6 DEF QueryError, Asking
    <3>2. Tries(ghStage) = QueryAttempts
      BY <3>1 DEF Tries, Periods
    <3>3. CASE ghTry + 1 < QueryAttempts
      BY <2>6, <3>1, <3>2, <3>3, AgainStep DEF QueryError
    <3>4. CASE ~(ghTry + 1 < QueryAttempts) /\ ghRound + 1 < Rounds
      <4>1. /\ ghRound' = ghRound + 1 /\ ghTry' = 0 /\ ghQuery' = 1
            /\ UNCHANGED <<ghStage, ghFound, ghOutcome>>
        BY <2>6, <3>4 DEF QueryError
      <4>2. ghQuery \in Queries /\ ghRound \in Nat /\ ghTry \in Nat /\ ghRequests \in Nat /\ ghRound' \in Nat
        BY <4>1, GithubTypes, NextNatural
      <4>3. GithubTypeOK'
        BY <4>1, <4>2, SendsTypes, NextQuery, GithubTypes, <3>1 DEF GithubTypeOK
      <4>4. /\ ghTry < QueryAttempts /\ 0 < QueryAttempts /\ ghRound < Rounds
            /\ QueryAttempts \in Nat /\ Rounds \in Nat
            /\ ghRequests <= CostBefore(ghStage) + QueriesCost + ghTry
        BY <3>1, GithubAssumption DEF GithubInv, AskedSoFar, Tries, Periods
      <4>5. /\ QueriesCost + QueryAttempts <= QueriesCost'
            /\ QueriesCost \in Nat /\ QueriesCost' \in Nat /\ CostBefore(ghStage) \in Nat
        <5>1. QueriesCost = (4 * ghRound + ghQuery - 1) * QueryAttempts
          BY <3>1 DEF QueriesCost
        <5>2. QueriesCost' = (4 * (ghRound + 1) + 1 - 1) * QueryAttempts
          BY <3>1, <4>1 DEF QueriesCost
        <5>3. QueriesCost \in Nat /\ QueriesCost + QueryAttempts <= QueriesCost'
          BY <4>2, <4>4, <5>1, <5>2, QueriesInOrder
        <5>4. QueriesCost' \in Nat
          <6>1. 1 \in Queries /\ ghRound + 1 < Rounds /\ ghRound + 1 \in Nat
            BY <3>4, <4>2 DEF Queries
          <6> QED BY <6>1, <4>4, <5>2, QueriesInOrder
        <5> QED BY <5>3, <5>4, <3>1, RoomForOne
      <4>6. CostBefore(ghStage') = CostBefore(ghStage) /\ Tries(ghStage') = QueryAttempts
            /\ StagesOf(ghTask') = StagesOf(ghTask)
        BY <3>1, <4>1, SendsTypes DEF Tries, Periods
      <4>7. AskedSoFar'
        <5>1. ghRequests' <= CostBefore(ghStage') + QueriesCost' + ghTry'
          BY <3>1, <4>1, <4>2, <4>4, <4>5, <4>6, SendsTypes
        <5> QED BY <3>4, <4>1, <4>2, <4>4, <4>6, <5>1, <3>1, SendsTypes DEF GithubInv, AskedSoFar
      <4>8. ReadOrUnset' /\ StoredIssueHasComments'
        BY <4>1, <3>1, SendsTypes DEF GithubInv, ReadOrUnset, StoredIssueHasComments
      <4>9. CountsOfOneRound'
        BY <4>1 DEF CountsOfOneRound, Queries
      <4>10. ghRequests' <= TotalCost'
        BY <3>1, SendsTypes, RoomForOne DEF TotalCost
      <4> QED BY <4>3, <4>7, <4>8, <4>9, <4>10 DEF GithubInv
    <3>5. CASE ~(ghTry + 1 < QueryAttempts) /\ ~(ghRound + 1 < Rounds)
      <4>1. StageFound("gave up")
        BY <2>6, <3>5 DEF QueryError
      <4> QED BY <3>1, <4>1, StageFoundStep DEF StageEnds, Periods
    <3> QED BY <3>3, <3>4, <3>5
  <2>7. ASSUME NEW reply \in {"ok", "empty", "none", "error"}, IssueReply(reply) PROVE GithubInv'
    <3>1. Sends /\ ghOutcome = "running" /\ ghStage \in {"issue", "comments"}
      BY <2>7 DEF IssueReply, Asking
    <3>2. Tries(ghStage) = IssueTries
      BY <3>1 DEF Tries, Periods
    <3>3. CASE reply = "ok"
      BY <2>7, <3>1, <3>3, StageFoundStep DEF StageEnds, IssueReply
    <3>4. CASE reply = "empty" /\ ghTry + 1 < IssueTries
      BY <2>7, <3>1, <3>2, <3>4, AgainStep DEF IssueReply
    <3>5. CASE reply # "ok" /\ ~(reply = "empty" /\ ghTry + 1 < IssueTries)
      BY <2>7, <3>1, <3>5, TaskFailsStep DEF IssueReply
    <3> QED BY <3>3, <3>4, <3>5
  <2>8. CASE UNCHANGED ghVars
    BY <2>8 DEF ghVars, GithubInv, GithubTypeOK, AskedSoFar, QueriesCost, ReadOrUnset, CountsOfOneRound,
                TotalCost, StoredIssueHasComments
  <2> QED BY <2>1, <2>2, <2>3, <2>4, <2>5, <2>6, <2>7, <2>8 DEF GithubNext
<1> QED BY <1>1, <1>2, PTL DEF GithubSpec

(* Whatever the GitHub API answers and however often it fails, for any     *)
(* numbers of attempts: what is stored was read, the counts of a period    *)
(* come from one round, and the requests are bounded.                      *)
THEOREM GithubResultIsAlwaysRead == GithubSpec => []GithubResultIsRead
<1>1. GithubInv => GithubResultIsRead
  <2> SUFFICES ASSUME GithubInv PROVE GithubResultIsRead
    OBVIOUS
  <2>1. FailureIsNotMissing /\ CountsOfOneRound /\ StoredIssueHasComments
    BY DEF GithubInv, ReadOrUnset, FailureIsNotMissing
  <2>2. RequestsBounded
    <3>1. 2 * Rounds * 4 * QueryAttempts = 2 * PeriodCost
      <4>1. Rounds \in Nat /\ QueryAttempts \in Nat
        BY GithubAssumption
      <4>2. \A a, b \in Nat : 2 * a * 4 * b = 2 * ((4 * a) * b)
        OBVIOUS
      <4> QED BY <4>1, <4>2 DEF PeriodCost
    <3> QED BY <3>1 DEF GithubInv, TotalCost, RequestsBounded
  <2> QED BY <2>1, <2>2 DEF GithubResultIsRead
<1> QED BY <1>1, GithubInvariant, PTL
=============================================================================
