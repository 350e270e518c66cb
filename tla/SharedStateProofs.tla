-------------------------- MODULE SharedStateProofs --------------------------
(***************************************************************************)
(* State that tasks share, for any packages, runs, messages and calls: the *)
(* cache directory of a worker (CacheDir), its clones and its HTTP session *)
(* (GitOperation), the books in graph and database (Bookkeeper), the       *)
(* objects with the intents of users (UserIntent), the results in rows and *)
(* objects (ResultQueries).                                                *)
(***************************************************************************)
EXTENDS CacheDir, GitOperation, Bookkeeper, UserIntent, ResultQueries, FiniteSetTheorems, SequenceTheorems, TLAPS

Busy == [of : Packages, kind : Kinds, want : {"tarball", "jar", "pom"},
         pc : {"file", "tree", "extract", "working", "raised"}]

TreesAreArchives ==
    cdTask \in Busy /\ cdTask.pc \in {"tree", "extract"} => cdTask.want \in Archives

CacheTypeOK ==
    /\ cdMem \subseteq Packages
    /\ cdDied \subseteq Packages
    /\ cdFiles \in [Packages -> SUBSET {"tarball", "jar", "pom"}]
    /\ cdTree \in [Packages -> [Archives -> {"absent", "partial", "full"}]]
    /\ cdTask = Idle \/ cdTask \in Busy
    /\ cdGiven \in {"none", "partial", "full"}
    /\ cdFailed \in BOOLEAN
    /\ TreesAreArchives

(* The cache knows the package of the running task and no other.           *)
MemoryIsOfTask == cdMem = IF cdTask = Idle THEN {} ELSE {cdTask.of}

(* What is there of another package was left by a worker that died.        *)
OnlyOfTask ==
    \A p \in Packages \ cdDied :
        p \in cdMem \/ (cdFiles[p] = {} /\ \A a \in Archives : cdTree[p][a] = "absent")

(* An incomplete tree of the running task is the one that is being made,   *)
(* or the one that its command has left.                                   *)
PartialIsInUse ==
    \A p \in Packages \ cdDied, a \in Archives :
        cdTree[p][a] = "partial" =>
            /\ cdTask # Idle
            /\ \/ cdTask.pc = "extract" /\ cdTask.want = a
               \/ cdTask.pc = "working" /\ cdFailed

CacheInv == MemoryIsOfTask /\ OnlyOfTask /\ PartialIsInUse /\ IncompleteHasCause

(* Every variable of the cache keeps its type.                             *)
THEOREM CacheTypeCorrect == CacheSpec => []CacheTypeOK
<1>0. NoTrees \in [Archives -> {"absent", "partial", "full"}]
  BY DEF NoTrees
<1>1. CacheInit => CacheTypeOK
  <2> SUFFICES ASSUME CacheInit PROVE CacheTypeOK
    OBVIOUS
  <2>1. cdTree \in [Packages -> [Archives -> {"absent", "partial", "full"}]]
    BY <1>0 DEF CacheInit
  <2>2. TreesAreArchives
    BY DEF CacheInit, TreesAreArchives, Busy, Idle
  <2> QED BY <2>1, <2>2 DEF CacheInit, CacheTypeOK
<1>2. CacheTypeOK /\ [CacheNext]_cacheVars => CacheTypeOK'
  <2> SUFFICES ASSUME CacheTypeOK, [CacheNext]_cacheVars PROVE CacheTypeOK'
    OBVIOUS
  <2> USE DEF CacheTypeOK, TreesAreArchives, Busy, Running, Goto
  <2>1. ASSUME NEW p \in Packages, NEW kind \in Kinds, BeginTask(p, kind) PROVE CacheTypeOK'
    <3>1. Wanted(p, kind) \in {"tarball", "jar", "pom"}
      BY DEF Wanted
    <3>2. cdTask' \in Busy /\ TreesAreArchives'
      BY <2>1, <3>1 DEF BeginTask, Archives
    <3> QED BY <2>1, <3>2 DEF BeginTask
  <2>2. CASE GetFile
    BY <2>2 DEF GetFile, GetObject, Idle
  <2>3. CASE GetFails
    <3>1. cdTask \in Busy
      BY <2>3 DEF GetFails, Idle
    <3>2. cdTask' \in Busy /\ TreesAreArchives'
      BY <2>3, <3>1 DEF GetFails, Raise, Archives
    <3> QED BY <2>3, <3>2 DEF GetFails
  <2>4. CASE TreeCached
    <3>1. cdTask \in Busy /\ cdTask.want \in Archives
      BY <2>4 DEF TreeCached, Idle
    <3>2. cdTask' \in Busy /\ TreesAreArchives'
      BY <2>4, <3>1 DEF TreeCached
    <3>3. cdTree[cdTask.of] \in [Archives -> {"absent", "partial", "full"}]
      BY <3>1
    <3>4. cdGiven' \in {"none", "partial", "full"}
      BY <2>4, <3>1, <3>3 DEF TreeCached, TreeHere
    <3> QED BY <2>4, <3>2, <3>4 DEF TreeCached
  <2>5. CASE BeginExtract
    <3>1. cdTask \in Busy /\ cdTask.want \in Archives
      BY <2>5 DEF BeginExtract, Idle
    <3>2. cdTask' \in Busy /\ TreesAreArchives'
      BY <2>5, <3>1 DEF BeginExtract
    <3>3. cdTree' \in [Packages -> [Archives -> {"absent", "partial", "full"}]]
      BY <2>5, <3>1 DEF BeginExtract, TreeBecomes
    <3> QED BY <2>5, <3>1, <3>2, <3>3 DEF BeginExtract, GetObject
  <2>6. CASE Extracted
    <3>1. cdTask \in Busy /\ cdTask.want \in Archives
      BY <2>6 DEF Extracted, Idle
    <3>2. cdTask' \in Busy /\ TreesAreArchives'
      BY <2>6, <3>1 DEF Extracted
    <3>3. cdTree' \in [Packages -> [Archives -> {"absent", "partial", "full"}]]
      BY <2>6, <3>1 DEF Extracted, TreeBecomes
    <3> QED BY <2>6, <3>2, <3>3 DEF Extracted
  <2>7. CASE ExtractFails
    <3>1. cdTask \in Busy
      BY <2>7 DEF ExtractFails, Idle
    <3>2. cdTask' \in Busy /\ TreesAreArchives'
      BY <2>7, <3>1 DEF ExtractFails
    <3> QED BY <2>7, <3>2 DEF ExtractFails
  <2>8. CASE ExtractRaises
    <3>1. cdTask \in Busy /\ cdTask.want \in Archives
      BY <2>8 DEF ExtractRaises, Idle
    <3>2. cdTask' \in Busy /\ TreesAreArchives'
      BY <2>8, <3>1 DEF ExtractRaises, Raise, Archives
    <3>3. cdTree' \in [Packages -> [Archives -> {"absent", "partial", "full"}]]
      BY <2>8, <3>1 DEF ExtractRaises, TreeBecomes
    <3> QED BY <2>8, <3>2, <3>3 DEF ExtractRaises
  <2>9. CASE EndTask
    <3>1. cdTree' \in [Packages -> [Archives -> {"absent", "partial", "full"}]]
      BY <1>0, <2>9 DEF EndTask
    <3> QED BY <2>9, <3>1 DEF EndTask, Idle
  <2>10. ASSUME NEW kept \in BOOLEAN, WorkerDies(kept) PROVE CacheTypeOK'
    <3>1. cdTask \in Busy
      BY <2>10 DEF WorkerDies, Idle
    <3>2. cdTree' \in [Packages -> [Archives -> {"absent", "partial", "full"}]]
      BY <1>0, <2>10 DEF WorkerDies
    <3> QED BY <2>10, <3>1, <3>2 DEF WorkerDies, Idle
  <2>11. CASE UNCHANGED cacheVars
    BY <2>11 DEF cacheVars
  <2> QED BY <2>1, <2>2, <2>3, <2>4, <2>5, <2>6, <2>7, <2>8, <2>9, <2>10, <2>11 DEF CacheNext
<1> QED BY <1>1, <1>2, PTL DEF CacheSpec

(* The incomplete trees are those of the running task, of a worker that    *)
(* died, or of none: the invariant that the properties follow from.        *)
THEOREM CacheInvariant == CacheSpec => []CacheInv
<1>1. CacheInit => CacheInv
  BY DEF CacheInit, CacheInv, MemoryIsOfTask, OnlyOfTask, PartialIsInUse,
         IncompleteHasCause, NoTrees, Idle
<1>2. CacheInv /\ CacheTypeOK /\ [CacheNext]_cacheVars => CacheInv'
  <2> SUFFICES ASSUME CacheInv, CacheTypeOK, [CacheNext]_cacheVars PROVE CacheInv'
    OBVIOUS
  <2> USE DEF CacheInv, MemoryIsOfTask, OnlyOfTask, PartialIsInUse,
              IncompleteHasCause, CacheTypeOK, TreesAreArchives, Busy, Running, Goto
  <2>1. ASSUME NEW p \in Packages, NEW kind \in Kinds, BeginTask(p, kind) PROVE CacheInv'
    BY <2>1 DEF BeginTask, Wanted, Kinds, Archives, Idle
  <2>2. CASE GetFile
    BY <2>2 DEF GetFile, GetObject, Idle
  <2>3. CASE GetFails
    <3>1. cdTask \in Busy /\ cdTask.pc \in {"file", "tree"}
      BY <2>3 DEF GetFails, Idle
    <3>2. cdTask' \in Busy /\ cdTask'.of = cdTask.of /\ cdTask # Idle /\ cdTask' # Idle
      BY <2>3, <3>1 DEF GetFails, Raise, Idle
    <3>3. \A p \in Packages \ cdDied, a \in Archives : cdTree[p][a] # "partial"
      BY <3>1
    <3>4. PartialIsInUse'
      BY <2>3, <3>3 DEF GetFails
    <3>5. MemoryIsOfTask' /\ OnlyOfTask' /\ IncompleteHasCause'
      BY <2>3, <3>2 DEF GetFails
    <3> QED BY <3>4, <3>5
  <2>4. CASE TreeCached
    BY <2>4 DEF TreeCached, TreeHere, Idle
  <2>5. CASE BeginExtract
    BY <2>5 DEF BeginExtract, GetObject, TreeBecomes, TreeHere, Idle
  <2>6. CASE Extracted
    BY <2>6 DEF Extracted, TreeBecomes, Idle
  <2>7. CASE ExtractFails
    BY <2>7 DEF ExtractFails, Idle
  <2>8. CASE ExtractRaises
    <3>1. cdTask \in Busy /\ cdTask.pc = "extract" /\ cdTask.want \in Archives
      BY <2>8 DEF ExtractRaises, Idle
    <3>2. cdTask' \in Busy /\ cdTask'.of = cdTask.of /\ cdTask # Idle /\ cdTask' # Idle
      BY <2>8, <3>1 DEF ExtractRaises, Raise, Idle, Archives
    <3>3. \A p \in Packages, a \in Archives :
             cdTree'[p][a] = IF p = cdTask.of /\ a = cdTask.want THEN "absent" ELSE cdTree[p][a]
      BY <2>8, <3>1 DEF ExtractRaises, TreeBecomes
    <3>4. \A p \in Packages \ cdDied, a \in Archives :
             cdTree[p][a] = "partial" => a = cdTask.want /\ p = cdTask.of
      BY <3>1, <3>2
    <3>5. PartialIsInUse'
      BY <2>8, <3>3, <3>4 DEF ExtractRaises
    <3>6. MemoryIsOfTask' /\ IncompleteHasCause'
      BY <2>8, <3>2 DEF ExtractRaises
    <3>7. OnlyOfTask'
      BY <2>8, <3>3 DEF ExtractRaises
    <3> QED BY <3>5, <3>6, <3>7
  <2>9. CASE EndTask
    BY <2>9 DEF EndTask, NoTrees, Idle
  <2>10. ASSUME NEW kept \in BOOLEAN, WorkerDies(kept) PROVE CacheInv'
    BY <2>10 DEF WorkerDies, NoTrees, Idle
  <2>11. CASE UNCHANGED cacheVars
    BY <2>11 DEF cacheVars
  <2> QED BY <2>1, <2>2, <2>3, <2>4, <2>5, <2>6, <2>7, <2>8, <2>9, <2>10, <2>11 DEF CacheNext
<1> QED BY <1>1, <1>2, CacheTypeCorrect, PTL DEF CacheSpec

(* An incomplete tree is only given to a task whose own command failed, or *)
(* after a worker died in a task of the package.                           *)
THEOREM IncompleteAlwaysHasCause == CacheSpec => []IncompleteHasCause
<1>1. CacheInv => IncompleteHasCause
  BY DEF CacheInv
<1> QED BY <1>1, CacheInvariant, PTL

(* Between tasks the directory is empty but for what dead workers left.    *)
THEOREM NothingEverOutlivesItsTask == CacheSpec => []NothingOutlivesItsTask
<1>1. CacheInv /\ CacheTypeOK => NothingOutlivesItsTask
  BY DEF CacheInv, CacheTypeOK, MemoryIsOfTask, OnlyOfTask, NothingOutlivesItsTask, Running, Busy, Idle
<1> QED BY <1>1, CacheInvariant, CacheTypeCorrect, PTL

(* An extraction that raised has removed its directory.                    *)
THEOREM RaisedIsAlwaysRetried == CacheSpec => []RaisedIsRetried
<1>1. CacheInv => RaisedIsRetried
  BY DEF CacheInv, PartialIsInUse, RaisedIsRetried, Running
<1> QED BY <1>1, CacheInvariant, PTL

(* The three together, for any packages and any number of tasks.           *)
THEOREM CacheIsAlwaysSound == CacheSpec => []CacheIsSound
<1>1. IncompleteHasCause /\ NothingOutlivesItsTask /\ RaisedIsRetried => CacheIsSound
  BY DEF CacheIsSound
<1> QED BY <1>1, IncompleteAlwaysHasCause, NothingEverOutlivesItsTask, RaisedIsAlwaysRetried, PTL
-----------------------------------------------------------------------------

USE GitAssumption

(* The directory of a run is empty until it has cloned, and then holds the *)
(* clone and nothing but it until the commands have run.                   *)
DirectoryIsOwn ==
    /\ goRun \in Runs
    /\ DOMAIN goClones = Dirs
    /\ goPc = "clone" => goClones[goRun.dir] = Empty
    /\ goPc = "generate" => goClones[goRun.dir] = [url |-> goRun.url, outputs |-> {}]

(* A scan that waits for its request is that of the running task, which    *)
(* waits for it, and the header is its own.                                *)
WaitingIsOwn ==
    /\ goPc = "wait" => goHeader = goRun.url
    /\ \A c \in goWaiting : c.to = "gemini" => goPc = "wait" /\ c = Call("gemini")

OthersLeft ==
    \A d \in Dirs : goClones[d] # Empty =>
        d \in goLeft \/ (goPc # "idle" /\ d = goRun.dir)

GitInv == /\ DirectoryIsOwn /\ WaitingIsOwn /\ OthersLeft
          /\ FilesAreOfOwnRun /\ ScanNamesItsRepo

(* The inductive invariant of the scans.                                   *)
THEOREM GitInvariant == GitSpec => []GitInv
<1>1. GitInit => GitInv
  BY DEF GitInit, GitInv, DirectoryIsOwn, WaitingIsOwn, OthersLeft, FilesAreOfOwnRun, ScanNamesItsRepo
<1>2. GitInv /\ [GitNext]_goVars => GitInv'
  <2> SUFFICES ASSUME GitInv, [GitNext]_goVars PROVE GitInv'
    OBVIOUS
  <2> USE DEF GitInv, GitStep
  <2>0. goRun.dir \in Dirs
    BY DEF DirectoryIsOwn, Dirs
  <2>1. ASSUME NEW r \in Runs, BeginRun(r) PROVE GitInv'
    <3>1. r.dir \in Dirs
      BY DEF Dirs
    <3>2. DirectoryIsOwn'
      BY <2>1, <3>1 DEF BeginRun, DirectoryIsOwn
    <3>3. WaitingIsOwn' /\ FilesAreOfOwnRun' /\ ScanNamesItsRepo'
      BY <2>1 DEF BeginRun, WaitingIsOwn, FilesAreOfOwnRun, ScanNamesItsRepo
    <3>4. OthersLeft'
      BY <2>1, <3>1 DEF BeginRun, OthersLeft, DirectoryIsOwn
    <3> QED BY <3>2, <3>3, <3>4
  <2>2. CASE Clone
    <3>1. DirectoryIsOwn' /\ OthersLeft'
      BY <2>0, <2>2 DEF Clone, DirectoryIsOwn, OthersLeft
    <3> QED BY <2>2, <3>1 DEF Clone, WaitingIsOwn, FilesAreOfOwnRun, ScanNamesItsRepo
  <2>3. CASE Generate
    <3>1. goClones' = [goClones EXCEPT ![goRun.dir] = [url |-> goRun.url, outputs |-> {goNo}]]
      <4>1. goClones[goRun.dir] = [url |-> goRun.url, outputs |-> {}]
        BY <2>3 DEF Generate, DirectoryIsOwn
      <4>2. (IF goRun.eco = "maven" THEN goClones[goRun.dir].outputs \cup {goNo} ELSE {goNo}) = {goNo}
        BY <4>1
      <4>3. goClones' = [goClones EXCEPT ![goRun.dir].outputs = {goNo}]
        BY <2>3, <4>2 DEF Generate
      <4>4. [goClones[goRun.dir] EXCEPT !.outputs = {goNo}] = [url |-> goRun.url, outputs |-> {goNo}]
        BY <4>1
      <4> QED BY <4>3, <4>4
    <3>2. goFiles' = [url |-> goRun.url, outputs |-> {goNo}]
      BY <2>0, <2>3, <3>1 DEF Generate, DirectoryIsOwn
    <3>3. DirectoryIsOwn' /\ OthersLeft'
      BY <2>0, <2>3, <3>1 DEF Generate, DirectoryIsOwn, OthersLeft
    <3> QED BY <2>3, <3>2, <3>3 DEF Generate, WaitingIsOwn, FilesAreOfOwnRun, ScanNamesItsRepo
  <2>4. CASE ReturnEarly \/ ScanRaises
    BY <2>4 DEF ReturnEarly, ScanRaises, DirectoryIsOwn, WaitingIsOwn, OthersLeft, FilesAreOfOwnRun, ScanNamesItsRepo
  <2>5. CASE SetHeader
    BY <2>5 DEF SetHeader, Call, DirectoryIsOwn, WaitingIsOwn, OthersLeft, FilesAreOfOwnRun, ScanNamesItsRepo
  <2>6. CASE Answered
    BY <2>6 DEF Answered, DirectoryIsOwn, WaitingIsOwn, OthersLeft, FilesAreOfOwnRun, ScanNamesItsRepo
  <2>7. ASSUME NEW c \in goWaiting, SendCall(c) PROVE GitInv'
    <3>1. c.to = "gemini" => goHeader = c.of
      BY DEF WaitingIsOwn, Call
    <3>2. ScanNamesItsRepo'
      BY <2>7, <3>1 DEF SendCall, ScanNamesItsRepo
    <3>3. WaitingIsOwn'
      BY <2>7 DEF SendCall, WaitingIsOwn, Call
    <3> QED BY <2>7, <3>2, <3>3 DEF SendCall, DirectoryIsOwn, OthersLeft, FilesAreOfOwnRun
  <2>8. CASE CallBackbone
    <3>1. DirectoryIsOwn' /\ OthersLeft'
      BY <2>0, <2>8 DEF CallBackbone, DirectoryIsOwn, OthersLeft
    <3>2. WaitingIsOwn'
      BY <2>8 DEF CallBackbone, WaitingIsOwn, Call
    <3> QED BY <2>8, <3>1, <3>2 DEF CallBackbone, FilesAreOfOwnRun, ScanNamesItsRepo
  <2>9. CASE GitWorkerDies
    BY <2>9 DEF GitWorkerDies, DirectoryIsOwn, WaitingIsOwn, OthersLeft, FilesAreOfOwnRun, ScanNamesItsRepo
  <2>10. CASE UNCHANGED goVars
    BY <2>10 DEF goVars, DirectoryIsOwn, WaitingIsOwn, OthersLeft, FilesAreOfOwnRun, ScanNamesItsRepo, Call
  <2> QED BY <2>1, <2>2, <2>3, <2>4, <2>5, <2>6, <2>7, <2>8, <2>9, <2>10 DEF GitNext
<1> QED BY <1>1, <1>2, PTL DEF GitSpec

(* A run reports the dependencies of its own clone, which its own commands *)
(* have listed, whatever is left in the directory of its name.             *)
THEOREM FilesAreAlwaysOfOwnRun == GitSpec => []FilesAreOfOwnRun
<1>1. GitInv => FilesAreOfOwnRun
  BY DEF GitInv
<1> QED BY <1>1, GitInvariant, PTL

(* The request for a scan is sent under the URL of the repository it is    *)
(* about, although all requests share one set of headers.                  *)
THEOREM ScanAlwaysNamesItsRepo == GitSpec => []ScanNamesItsRepo
<1>1. GitInv => ScanNamesItsRepo
  BY DEF GitInv
<1> QED BY <1>1, GitInvariant, PTL

(* Only a run that ended early leaves its clone.                           *)
THEOREM CloneLeftAlwaysHasCause == GitSpec => []CloneLeftHasCause
<1>1. GitInv => CloneLeftHasCause
  BY DEF GitInv, OthersLeft, CloneLeftHasCause
<1> QED BY <1>1, GitInvariant, PTL

(* The three together, for any runs and any number of them.                *)
THEOREM RunsAreAlwaysApart == GitSpec => []RunsAreApart
<1>1. FilesAreOfOwnRun /\ ScanNamesItsRepo /\ CloneLeftHasCause => RunsAreApart
  BY DEF RunsAreApart
<1> QED BY <1>1, FilesAreAlwaysOfOwnRun, ScanAlwaysNamesItsRepo, CloneLeftAlwaysHasCause, PTL
-----------------------------------------------------------------------------
UsersOf(c) == {u \in Users : <<u, c>> \in bkUses}

BookTypeOK ==
    /\ bkTaken \in [Requests -> Nat]
    /\ bkAt \in [Requests -> [1..MaxDeliveries -> Nat]]
    /\ bkRows \in [Requests -> Nat]
    /\ bkRaised \in [Requests -> Nat]
    /\ bkUses \subseteq Users \X Components
    /\ bkCount \in [Components -> Nat]

BookInv == BookTypeOK /\ UsageIsExact

(* One more user, or the same ones.                                        *)
LEMMA CountWithUser ==
    ASSUME NEW S \in SUBSET Users, NEW u \in Users
    PROVE  /\ Cardinality(S) \in Nat
           /\ Cardinality(S \cup {u}) = IF u \in S THEN Cardinality(S) ELSE Cardinality(S) + 1
<1>1. IsFiniteSet(S)
  BY BookAssumption, FS_Subset
<1> QED BY <1>1, FS_CardinalityType, FS_AddElement

(* A query leaves the counters right: the effect of one that ran.          *)
LEMMA QueryKeepsCounts ==
    ASSUME NEW user \in Users, NEW deps, BookTypeOK, UsageCountsUsers, RunQuery(user, deps)
    PROVE  /\ UsageCountsUsers' /\ bkUses \subseteq bkUses'
           /\ bkUses' \subseteq Users \X Components /\ bkCount' \in [Components -> Nat]
           /\ {user} \X (deps \cap Components) \subseteq bkUses'
<1> USE DEF RunQuery
<1>1. ASSUME NEW c \in Components PROVE bkCount'[c] = Cardinality(UsersOf(c)')
  <2>1. UsersOf(c) \in SUBSET Users /\ bkCount[c] = Cardinality(UsersOf(c))
    BY DEF UsersOf, UsageCountsUsers
  <2>2. CASE c \in deps
    <3>1. UsersOf(c)' = UsersOf(c) \cup {user}
      BY <2>2 DEF UsersOf
    <3>2. bkCount'[c] = IF user \in UsersOf(c) THEN bkCount[c] ELSE bkCount[c] + 1
      BY <2>2 DEF UsersOf, BookTypeOK
    <3> QED BY <2>1, <3>1, <3>2, CountWithUser
  <2>3. CASE c \notin deps
    <3>1. UsersOf(c)' = UsersOf(c)
      BY <2>3 DEF UsersOf
    <3>2. bkCount'[c] = bkCount[c]
      BY <2>3
    <3> QED BY <2>1, <3>1, <3>2
  <2> QED BY <2>2, <2>3
<1>2. UsageCountsUsers'
  BY <1>1 DEF UsageCountsUsers, UsersOf
<1> QED BY <1>2 DEF BookTypeOK

(* The loop of a delivery turns once: its types, and what it has sent.     *)
LEMMA ManifestIsTurned ==
    ASSUME NEW r \in Requests, NEW n \in 1..MaxDeliveries, BookTypeOK, NextManifest(r, n)
    PROVE  /\ bkTaken' \in [Requests -> Nat] /\ bkAt' \in [Requests -> [1..MaxDeliveries -> Nat]]
           /\ bkAt'[r][n] = bkAt[r][n] + 1
           /\ \A q \in Requests : \A k \in 1..MaxDeliveries :
                 <<q, k>> # <<r, n>> => bkAt'[q][k] = bkAt[q][k]
           /\ \A q \in Requests : q.api = "component_analyses_post" => bkTaken'[q] = bkTaken[q]
           /\ bkRows' = bkRows /\ bkRaised' = bkRaised /\ r.user \in Users
<1> USE DEF NextManifest, BookTypeOK
<1>1. bkAt'[r][n] = bkAt[r][n] + 1 /\ bkAt[r][n] \in Nat
  OBVIOUS
<1>2. \A q \in Requests : \A k \in 1..MaxDeliveries : <<q, k>> # <<r, n>> => bkAt'[q][k] = bkAt[q][k]
  OBVIOUS
<1>3. bkAt' \in [Requests -> [1..MaxDeliveries -> Nat]]
  BY <1>1
<1>4. bkTaken' \in [Requests -> Nat]
  OBVIOUS
<1>5. \A q \in Requests : q.api = "component_analyses_post" => bkTaken'[q] = bkTaken[q]
  OBVIOUS
<1> QED BY <1>1, <1>2, <1>3, <1>4, <1>5

(* A turn of the loop, whether its query ran, was logged as failed or both, *)
(* loses no use without a trace.                                           *)
LEMMA TurnLosesNothing ==
    ASSUME BookInv, NEW r \in Requests, NEW n \in 1..MaxDeliveries, NextManifest(r, n),
           bkUses \subseteq bkUses', bkUnsaved \subseteq bkUnsaved',
           \/ <<r, bkAt[r][n] + 1>> \in bkUnsaved'
           \/ {r.user} \X (DepsAt(r, n) \cap Components) \subseteq bkUses'
    PROVE  UsesLostOnlyByFailure' /\ RequestsAreRecorded'
<1>1. RequestsAreRecorded'
  BY ManifestIsTurned DEF BookInv, UsageIsExact, RequestsAreRecorded
<1>2. ASSUME NEW q \in Requests, NEW k \in 1..MaxDeliveries, NEW m \in 1..bkAt'[q][k]
      PROVE  \/ <<q, m>> \in bkUnsaved'
             \/ {q.user} \X (q.manifests[m] \cap Components) \subseteq bkUses'
  <2>1. CASE m \in 1..bkAt[q][k]
    <3>1. \/ <<q, m>> \in bkUnsaved
          \/ {q.user} \X (q.manifests[m] \cap Components) \subseteq bkUses
      BY <2>1 DEF BookInv, UsageIsExact, UsesLostOnlyByFailure
    <3> QED BY <3>1
  <2>2. CASE m \notin 1..bkAt[q][k]
    <3>1. q = r /\ k = n /\ bkAt'[r][n] = bkAt[r][n] + 1
      BY <1>2, <2>2, ManifestIsTurned DEF BookInv
    <3>2. bkAt[r][n] \in Nat
      BY DEF BookInv, BookTypeOK
    <3>3. m = bkAt[r][n] + 1
      BY <1>2, <2>2, <3>1, <3>2
    <3> QED BY <3>1, <3>3 DEF DepsAt
  <2> QED BY <2>1, <2>2
<1>3. UsesLostOnlyByFailure'
  BY <1>2 DEF UsesLostOnlyByFailure
<1> QED BY <1>1, <1>3

(* The inductive invariant of the books: the properties themselves, with   *)
(* the types.                                                              *)
THEOREM BookInvariant == BookSpec => []BookInv
<1>1. BookInit => BookInv
  <2> SUFFICES ASSUME BookInit PROVE BookInv
    OBVIOUS
  <2>1. \A c \in Components : UsersOf(c) = {}
    BY DEF BookInit, UsersOf
  <2>2. UsageCountsUsers
    BY <2>1, FS_EmptySet DEF BookInit, UsageCountsUsers, UsersOf
  <2>3. UsesLostOnlyByFailure
    BY DEF BookInit, UsesLostOnlyByFailure
  <2> QED BY <2>2, <2>3 DEF BookInit, BookTypeOK, RequestsAreRecorded, BookInv, UsageIsExact
<1>2. BookInv /\ [BookNext]_bookVars => BookInv'
  <2> SUFFICES ASSUME BookInv, [BookNext]_bookVars PROVE BookInv'
    OBVIOUS
  <2>0. BookTypeOK /\ UsageCountsUsers /\ RequestsAreRecorded /\ UsesLostOnlyByFailure
    BY DEF BookInv, UsageIsExact
  <2>1. ASSUME NEW r \in Requests, NEW n \in 1..MaxDeliveries, StoreUserNode(r, n) PROVE BookInv'
    <3>1. NextManifest(r, n) /\ RunQuery(r.user, DepsAt(r, n)) /\ bkUnsaved' = bkUnsaved
      BY <2>1 DEF StoreUserNode
    <3>2. r.user \in Users /\ BookTypeOK
      BY <2>0, <3>1 DEF NextManifest
    <3>3. /\ UsageCountsUsers' /\ bkUses \subseteq bkUses'
          /\ bkUses' \subseteq Users \X Components /\ bkCount' \in [Components -> Nat]
          /\ {r.user} \X (DepsAt(r, n) \cap Components) \subseteq bkUses'
      BY <2>0, <3>1, <3>2, QueryKeepsCounts
    <3>4. BookTypeOK'
      BY <2>0, <3>1, <3>3, ManifestIsTurned DEF BookTypeOK
    <3>5. UsesLostOnlyByFailure' /\ RequestsAreRecorded'
      BY <3>1, <3>3, TurnLosesNothing
    <3> QED BY <3>3, <3>4, <3>5 DEF BookInv, UsageIsExact
  <2>2. ASSUME NEW r \in Requests, NEW n \in 1..MaxDeliveries, StoreUserNodeFails(r, n) PROVE BookInv'
    <3>1. /\ NextManifest(r, n) /\ bkUnsaved' = bkUnsaved \cup {<<r, bkAt[r][n] + 1>>}
          /\ RunQuery(r.user, DepsAt(r, n)) \/ UNCHANGED <<bkUses, bkCount>>
      BY <2>2 DEF StoreUserNodeFails
    <3>2. r.user \in Users /\ BookTypeOK
      BY <2>0, <3>1 DEF NextManifest
    <3>3. /\ UsageCountsUsers' /\ bkUses \subseteq bkUses'
          /\ bkUses' \subseteq Users \X Components /\ bkCount' \in [Components -> Nat]
      <4>1. CASE RunQuery(r.user, DepsAt(r, n))
        <5> DEFINE deps == DepsAt(r, n)
        <5>1. RunQuery(r.user, deps)
          BY <4>1
        <5> HIDE DEF deps
        <5> QED BY <2>0, <3>2, <5>1, QueryKeepsCounts
      <4>2. CASE UNCHANGED <<bkUses, bkCount>>
        BY <2>0, <4>2 DEF UsageCountsUsers, BookTypeOK
      <4> QED BY <3>1, <4>1, <4>2
    <3>4. BookTypeOK'
      BY <2>0, <3>1, <3>3, ManifestIsTurned DEF BookTypeOK
    <3>5. UsesLostOnlyByFailure' /\ RequestsAreRecorded'
      BY <3>1, <3>3, TurnLosesNothing
    <3> QED BY <3>3, <3>4, <3>5 DEF BookInv, UsageIsExact
  <2>3. ASSUME NEW r \in Requests, StoreApiRequest(r) \/ StoreApiRequestFails(r) PROVE BookInv'
    <3>1. /\ bkTaken' = [bkTaken EXCEPT ![r] = @ + 1]
          /\ bkAt' = bkAt /\ bkUses' = bkUses /\ bkCount' = bkCount /\ bkUnsaved' = bkUnsaved
      BY <2>3 DEF StoreApiRequest, StoreApiRequestFails, TakeRequest
    <3>2. /\ bkRows' = bkRows \/ bkRows' = [bkRows EXCEPT ![r] = @ + 1]
          /\ bkRaised' = bkRaised \/ bkRaised' = [bkRaised EXCEPT ![r] = @ + 1]
          /\ r.whole /\ bkRows' = bkRows => bkRaised' = [bkRaised EXCEPT ![r] = @ + 1]
      <4>1. CASE StoreApiRequest(r)
        <5>1. r.whole => bkRows' # bkRows
          BY <2>0, <4>1 DEF StoreApiRequest, AddRow, BookTypeOK
        <5> QED BY <4>1, <5>1 DEF StoreApiRequest, AddRow
      <4>2. CASE StoreApiRequestFails(r)
        BY <4>2 DEF StoreApiRequestFails, AddRow
      <4> QED BY <2>3, <4>1, <4>2
    <3>3. BookTypeOK'
      <4>1. bkTaken' \in [Requests -> Nat]
        BY <2>0, <3>1 DEF BookTypeOK
      <4>2. bkRows' \in [Requests -> Nat]
        BY <2>0, <3>2 DEF BookTypeOK
      <4>3. bkRaised' \in [Requests -> Nat]
        BY <2>0, <3>2 DEF BookTypeOK
      <4> QED BY <2>0, <3>1, <4>1, <4>2, <4>3 DEF BookTypeOK
    <3>4. UsageCountsUsers' /\ UsesLostOnlyByFailure'
      BY <2>0, <3>1 DEF UsageCountsUsers, UsesLostOnlyByFailure
    <3>5. RequestsAreRecorded'
      BY <2>0, <3>1, <3>2 DEF BookTypeOK, RequestsAreRecorded
    <3> QED BY <3>3, <3>4, <3>5 DEF BookInv, UsageIsExact
  <2>4. CASE UNCHANGED bookVars
    BY <2>0, <2>4 DEF bookVars, BookTypeOK, UsageCountsUsers, RequestsAreRecorded, UsesLostOnlyByFailure,
                      BookInv, UsageIsExact
  <2> QED BY <2>1, <2>2, <2>3, <2>4 DEF BookNext
<1> QED BY <1>1, <1>2, PTL DEF BookSpec

(* For any users, components and messages, delivered any number of times   *)
(* and overlapping: the counters are the numbers of users, a complete      *)
(* request without a row has raised once for each that is missing, and a   *)
(* use is missing only after its own query failed.                         *)
THEOREM UsageIsAlwaysExact == BookSpec => []UsageIsExact
<1>1. BookInv => UsageIsExact
  BY DEF BookInv
<1> QED BY <1>1, BookInvariant, PTL
-----------------------------------------------------------------------------
(* The writes in the order in which intents lie in an object.              *)
LEMMA BackwardsAppend ==
    ASSUME NEW S, NEW w \in Seq(S), NEW c \in S
    PROVE  /\ Backwards(w) \in Seq(S) /\ Len(Backwards(w)) = Len(w)
           /\ Backwards(Append(w, c)) = <<c>> \o Backwards(w)
<1>1. Backwards(w) \in Seq(S) /\ Len(Backwards(w)) = Len(w)
  <2>1. \A i \in 1..Len(w) : w[Len(w) + 1 - i] \in S
    OBVIOUS
  <2>2. Backwards(w) = [i \in 1..Len(w) |-> w[Len(w) + 1 - i]]
    BY DEF Backwards
  <2>3. Len(w) \in Nat
    OBVIOUS
  <2>4. Backwards(w) \in [1..Len(w) -> S]
    BY <2>1, <2>2
  <2> QED BY <2>2, <2>3, <2>4
<1>2. Backwards(Append(w, c)) = <<c>> \o Backwards(w)
  <2> DEFINE v == Append(w, c)  b == <<c>> \o Backwards(w)
  <2>1. v \in Seq(S) /\ Len(v) = Len(w) + 1
    OBVIOUS
  <2>2. Backwards(v) = [i \in 1..(Len(w) + 1) |-> v[Len(w) + 2 - i]]
    BY <2>1 DEF Backwards
  <2>3. b \in Seq(S) /\ Len(b) = Len(w) + 1
    BY <1>1
  <2>4. ASSUME NEW i \in 1..(Len(w) + 1) PROVE v[Len(w) + 2 - i] = b[i]
    <3>1. CASE i = 1
      BY <1>1, <3>1
    <3>2. CASE i # 1
      <4>1. i - 1 \in 1..Len(w) /\ Len(w) + 2 - i \in 1..Len(w) /\ Len(w) + 1 - (i - 1) = Len(w) + 2 - i
        BY <3>2
      <4>2. b[i] = Backwards(w)[i - 1]
        BY <1>1, <4>1
      <4>3. Backwards(w)[i - 1] = w[Len(w) + 1 - (i - 1)]
        BY <4>1 DEF Backwards
      <4>4. v[Len(w) + 2 - i] = w[Len(w) + 2 - i]
        BY <4>1
      <4> QED BY <4>1, <4>2, <4>3, <4>4
    <3> QED BY <3>1, <3>2
  <2>5. b = [i \in 1..(Len(w) + 1) |-> b[i]]
    BY <2>3
  <2>6. Backwards(v) = b
    BY <2>2, <2>4, <2>5
  <2> QED BY <2>6
<1> QED BY <1>1, <1>2

IntentTypeOK ==
    /\ uiPc \in [Calls -> {"new", "read", "store", "done", "failed"}]
    /\ uiList \in [Calls -> Seq(Calls)]
    /\ uiBase \in [Calls -> Nat]
    /\ uiWrites \in [IntentKeys -> Seq(Calls)]
    /\ uiObject \in [IntentKeys -> Seq(Seq(Calls))]

(* An object is there when there was a write, and stays.                   *)
ObjectFollowsWrites ==
    /\ \A k \in IntentKeys : IF uiWrites[k] = << >> THEN uiObject[k] = << >> ELSE Len(uiObject[k]) = 1
    /\ \A c \in Calls : uiPc[c] = "read" => uiObject[Component[c]] # << >>

(* A call writes its own intent first, then those of earlier writes.       *)
ListIsOwnFirst ==
    \A c \in Calls :
        /\ c \notin Bare /\ uiPc[c] \in {"new", "read"} => uiList[c] = <<c>>
        /\ c \notin Bare /\ uiPc[c] = "store" => uiList[c] # << >> /\ uiList[c][1] = c
        /\ uiPc[c] \in {"new", "read", "store"} =>
               \A i \in DOMAIN uiList[c] :
                   \/ uiList[c][i] = c
                   \/ \E j \in DOMAIN uiWrites[Component[c]] : uiWrites[Component[c]][j] = uiList[c][i]

(* A call that has seen all writes will add itself to all of them.         *)
SeenIsAll ==
    \A c \in Calls :
        LET k == Component[c]
        IN  /\ uiBase[c] <= Len(uiWrites[k])
            /\ uiPc[c] = "store" /\ c \notin Bare /\ k \notin uiBlind /\ uiBase[c] = Len(uiWrites[k]) =>
                   uiList[c] = <<c>> \o Backwards(uiWrites[k])

IntentInv == /\ IntentTypeOK /\ ObjectFollowsWrites /\ ListIsOwnFirst /\ SeenIsAll
             /\ IntentsAreKept /\ LastIntentIsThere

(* The inductive invariant of the calls.                                   *)
THEOREM IntentInvariant == IntentSpec => []IntentInv
<1> USE DEF IntentInv
<1>0. \A c \in Calls : Component[c] \in IntentKeys
  BY DEF IntentKeys
<1>1. IntentInit => IntentInv
  BY <1>0 DEF IntentInit, IntentTypeOK, ObjectFollowsWrites, ListIsOwnFirst, SeenIsAll, IntentsAreKept,
              LastIntentIsThere
<1>2. IntentInv /\ [IntentNext]_intentVars => IntentInv'
  <2> SUFFICES ASSUME IntentInv, [IntentNext]_intentVars PROVE IntentInv'
    OBVIOUS
  <2> USE <1>0 DEF Step
  <2>1. ASSUME NEW c \in Calls, ObjectExists(c) PROVE IntentInv'
    <3> USE <2>1 DEF ObjectExists
    <3>1. IntentTypeOK'
      BY DEF IntentTypeOK
    <3>a. /\ uiPc[c] = "new" /\ UNCHANGED <<uiList, uiObject, uiWrites, uiBlind>>
          /\ uiPc' = [uiPc EXCEPT ![c] = IF uiObject[Component[c]] = << >> THEN "store" ELSE "read"]
      OBVIOUS
    <3>b. /\ \A d \in Calls \ {c} : uiPc'[d] = uiPc[d]
          /\ uiPc'[c] = IF uiObject[Component[c]] = << >> THEN "store" ELSE "read"
      BY <3>a DEF IntentTypeOK
    <3>2. ObjectFollowsWrites'
      BY <3>a, <3>b DEF ObjectFollowsWrites
    <3>c. ListIsOwnFirst'
      <4>1. c \notin Bare => uiList[c] # << >> /\ uiList[c][1] = c
        BY <3>a DEF ListIsOwnFirst
      <4> QED BY <3>a, <3>b, <4>1 DEF ListIsOwnFirst
    <3>3. IntentsAreKept' /\ LastIntentIsThere'
      BY DEF IntentsAreKept, LastIntentIsThere
    <3>4. uiPc'[c] = "store" /\ c \notin Bare => uiList'[c] = <<c>> \o Backwards(uiWrites'[Component[c]])
      <4>1. SUFFICES ASSUME uiPc'[c] = "store", c \notin Bare
                     PROVE  uiList'[c] = <<c>> \o Backwards(uiWrites'[Component[c]])
        OBVIOUS
      <4>2. uiWrites[Component[c]] = << >>
        <5>1. uiObject[Component[c]] = << >>
          BY <3>b, <4>1
        <5>2. Component[c] \in IntentKeys /\ Len(uiObject[Component[c]]) = 0
          BY <5>1
        <5> QED BY <5>2 DEF ObjectFollowsWrites
      <4>3. Backwards(<< >>) = << >>
        BY DEF Backwards
      <4>4. uiList[c] = <<c>>
        BY <4>1 DEF ListIsOwnFirst
      <4> QED BY <4>2, <4>3, <4>4
    <3>5. SeenIsAll'
      <4>1. /\ uiBase'[c] = Len(uiWrites[Component[c]]) /\ Len(uiWrites[Component[c]]) \in Nat
            /\ \A d \in Calls \ {c} : uiBase'[d] = uiBase[d]
        BY DEF IntentTypeOK
      <4>2. ASSUME NEW d \in Calls
            PROVE  /\ uiBase'[d] <= Len(uiWrites'[Component[d]])
                   /\ /\ uiPc'[d] = "store" /\ d \notin Bare /\ Component[d] \notin uiBlind'
                      /\ uiBase'[d] = Len(uiWrites'[Component[d]])
                      => uiList'[d] = <<d>> \o Backwards(uiWrites'[Component[d]])
        <5>1. CASE d = c
          BY <3>a, <3>4, <4>1, <5>1
        <5>2. CASE d # c
          BY <3>a, <3>b, <4>1, <5>2 DEF SeenIsAll
        <5> QED BY <5>1, <5>2
      <4> QED BY <4>2 DEF SeenIsAll
    <3> QED BY <3>1, <3>2, <3>c, <3>3, <3>5
  <2>2. ASSUME NEW c \in Calls, RetrieveDict(c) PROVE IntentInv'
    <3> USE <2>2 DEF RetrieveDict
    <3> DEFINE k == Component[c]
    <3>1. uiWrites[k] # << >> /\ Len(uiObject[k]) = 1 /\ uiObject[k][1] \in Seq(Calls)
      BY DEF IntentTypeOK, ObjectFollowsWrites
    <3>a. /\ \A d \in Calls \ {c} : uiPc'[d] = uiPc[d] /\ uiBase'[d] = uiBase[d] /\ uiList'[d] = uiList[d]
          /\ uiPc'[c] = "store" /\ uiBase'[c] = Len(uiWrites[k]) /\ Len(uiWrites[k]) \in Nat
          /\ UNCHANGED <<uiObject, uiWrites, uiBlind>>
      BY DEF IntentTypeOK
    <3>2. c \notin Bare => uiList[c] = <<c>> /\ uiList'[c] = <<c>> \o uiObject[k][1]
      BY DEF IntentTypeOK, ListIsOwnFirst
    <3>3. IntentTypeOK'
      BY <3>1, <3>2 DEF IntentTypeOK
    <3>4. ObjectFollowsWrites'
      BY <3>a DEF ObjectFollowsWrites
    <3>5. IntentsAreKept' /\ LastIntentIsThere'
      BY DEF IntentsAreKept, LastIntentIsThere
    <3>6. c \notin Bare /\ k \notin uiBlind => uiList'[c] = <<c>> \o Backwards(uiWrites[k])
      <4>1. k \notin uiBlind => uiObject[k] = <<Backwards(uiWrites[k])>>
        BY <3>1 DEF IntentsAreKept
      <4> QED BY <3>2, <4>1
    <3>7. SeenIsAll'
      <4>1. ASSUME NEW d \in Calls
            PROVE  /\ uiBase'[d] <= Len(uiWrites'[Component[d]])
                   /\ /\ uiPc'[d] = "store" /\ d \notin Bare /\ Component[d] \notin uiBlind'
                      /\ uiBase'[d] = Len(uiWrites'[Component[d]])
                      => uiList'[d] = <<d>> \o Backwards(uiWrites'[Component[d]])
        <5>1. CASE d = c
          BY <3>a, <3>6, <5>1
        <5>2. CASE d # c
          BY <3>a, <5>2 DEF SeenIsAll
        <5> QED BY <5>1, <5>2
      <4> QED BY <4>1 DEF SeenIsAll
    <3>8. \A i \in DOMAIN uiList'[c] :
              uiList'[c][i] = c \/ \E j \in DOMAIN uiWrites[k] : uiWrites[k][j] = uiList'[c][i]
      <4>1. CASE c \in Bare
        BY <4>1 DEF IntentTypeOK, ListIsOwnFirst
      <4>2. CASE c \notin Bare
        <5> DEFINE l == uiObject[k][1]
        <5>1. \A i \in DOMAIN l : \E j \in DOMAIN uiWrites[k] : uiWrites[k][j] = l[i]
          BY <3>1 DEF LastIntentIsThere
        <5>2. ASSUME NEW i \in DOMAIN (<<c>> \o l)
              PROVE (<<c>> \o l)[i] = c \/ (i - 1 \in DOMAIN l /\ (<<c>> \o l)[i] = l[i - 1])
          BY <3>1
        <5> QED BY <3>2, <4>2, <5>1, <5>2
      <4> QED BY <4>1, <4>2
    <3>9. c \notin Bare => uiList'[c] # << >> /\ uiList'[c][1] = c
      BY <3>1, <3>2
    <3>10. ListIsOwnFirst'
      <4> SUFFICES ASSUME NEW d \in Calls
                   PROVE  /\ d \notin Bare /\ uiPc'[d] \in {"new", "read"} => uiList'[d] = <<d>>
                          /\ d \notin Bare /\ uiPc'[d] = "store" => uiList'[d] # << >> /\ uiList'[d][1] = d
                          /\ uiPc'[d] \in {"new", "read", "store"} =>
                                 \A i \in DOMAIN uiList'[d] :
                                     \/ uiList'[d][i] = d
                                     \/ \E j \in DOMAIN uiWrites'[Component[d]] : uiWrites'[Component[d]][j] = uiList'[d][i]
        BY DEF ListIsOwnFirst
      <4>1. CASE d = c
        BY <3>a, <3>8, <3>9, <4>1
      <4>2. CASE d # c
        BY <3>a, <4>2 DEF ListIsOwnFirst
      <4> QED BY <4>1, <4>2
    <3> QED BY <3>3, <3>4, <3>5, <3>7, <3>10
  <2>3. ASSUME NEW c \in Calls, StoreDict(c) PROVE IntentInv'
    <3> USE <2>3 DEF StoreDict
    <3> DEFINE k == Component[c]  w == uiWrites[k]  l == uiList[c]
    <3>1. /\ uiObject' = [uiObject EXCEPT ![k] = <<l>>]
          /\ uiWrites' = [uiWrites EXCEPT ![k] = Append(w, c)]
          /\ uiBlind' = IF c \in Bare \/ uiBase[c] # Len(w) THEN uiBlind \cup {k} ELSE uiBlind
          /\ UNCHANGED <<uiList, uiBase>>
          /\ uiPc[c] = "store" /\ uiPc' = [uiPc EXCEPT ![c] = "done"]
      OBVIOUS
    <3>2. k \in IntentKeys /\ w \in Seq(Calls) /\ l \in Seq(Calls) /\ Append(w, c) \in Seq(Calls)
      BY DEF IntentTypeOK
    <3>3. /\ Len(Append(w, c)) = Len(w) + 1 /\ Append(w, c)[Len(w) + 1] = c
          /\ \A j \in DOMAIN w : j \in DOMAIN Append(w, c) /\ Append(w, c)[j] = w[j]
          /\ Append(w, c) # << >> /\ Len(w) \in Nat /\ Len(w) + 1 \in DOMAIN Append(w, c)
      BY <3>2
    <3> HIDE <2>3 DEF StoreDict, k, w, l
    <3>4. IntentTypeOK'
      BY <3>1, <3>2 DEF IntentTypeOK
    <3>5. ObjectFollowsWrites'
      <4>1. Len(<<l>>) = 1 /\ <<l>> # << >>
        OBVIOUS
      <4> QED BY <3>1, <3>2, <3>3, <4>1 DEF IntentTypeOK, ObjectFollowsWrites
    <3>6. ListIsOwnFirst'
      <4> SUFFICES ASSUME NEW d \in Calls
                   PROVE  /\ d \notin Bare /\ uiPc'[d] \in {"new", "read"} => uiList'[d] = <<d>>
                          /\ d \notin Bare /\ uiPc'[d] = "store" => uiList'[d] # << >> /\ uiList'[d][1] = d
                          /\ uiPc'[d] \in {"new", "read", "store"} =>
                                 \A i \in DOMAIN uiList'[d] :
                                     \/ uiList'[d][i] = d
                                     \/ \E j \in DOMAIN uiWrites'[Component[d]] : uiWrites'[Component[d]][j] = uiList'[d][i]
        BY DEF ListIsOwnFirst
      <4>1. uiPc'[c] = "done" /\ (d # c => uiPc'[d] = uiPc[d])
        BY <3>1 DEF IntentTypeOK
      <4>2. \A j \in DOMAIN uiWrites[Component[d]] :
                j \in DOMAIN uiWrites'[Component[d]] /\ uiWrites'[Component[d]][j] = uiWrites[Component[d]][j]
        <5>1. CASE Component[d] = k
          BY <3>1, <3>2, <3>3, <5>1 DEF IntentTypeOK, w
        <5>2. CASE Component[d] # k
          BY <3>1, <5>2 DEF IntentTypeOK
        <5> QED BY <5>1, <5>2
      <4>3. uiList' = uiList
        BY <3>1
      <4> QED BY <4>1, <4>2, <4>3 DEF ListIsOwnFirst
    <3>7. SeenIsAll'
      <4> SUFFICES ASSUME NEW d \in Calls
                   PROVE  /\ uiBase'[d] <= Len(uiWrites'[Component[d]])
                          /\ /\ uiPc'[d] = "store" /\ d \notin Bare /\ Component[d] \notin uiBlind'
                             /\ uiBase'[d] = Len(uiWrites'[Component[d]])
                             => uiList'[d] = <<d>> \o Backwards(uiWrites'[Component[d]])
        BY DEF SeenIsAll
      <4>1. CASE Component[d] = k
        <5>1. uiBase[d] \in Nat /\ uiBase[d] <= Len(w)
          BY <4>1 DEF SeenIsAll, IntentTypeOK, w
        <5>2. Len(uiWrites'[Component[d]]) = Len(w) + 1
          BY <3>1, <3>2, <3>3, <4>1 DEF IntentTypeOK
        <5> QED BY <3>1, <3>3, <5>1, <5>2
      <4>2. CASE Component[d] # k
        <5>1. uiWrites'[Component[d]] = uiWrites[Component[d]]
          BY <3>1, <4>2 DEF IntentTypeOK
        <5>2. uiPc'[d] = "store" => uiPc[d] = "store"
          BY <3>1 DEF IntentTypeOK
        <5> QED BY <3>1, <5>1, <5>2 DEF SeenIsAll
      <4> QED BY <4>1, <4>2
    <3>8. IntentsAreKept'
      <4>1. ASSUME k \notin uiBlind' PROVE l = Backwards(Append(w, c))
        <5>1. c \notin Bare /\ uiBase[c] = Len(w) /\ k \notin uiBlind
          BY <3>1, <4>1
        <5>2. l = <<c>> \o Backwards(w)
          BY <3>1, <5>1 DEF SeenIsAll, k, w, l
        <5> QED BY <3>2, <5>2, BackwardsAppend
      <4> QED BY <3>1, <3>2, <3>3, <4>1 DEF IntentTypeOK, IntentsAreKept
    <3>9. LastIntentIsThere'
      <4>1. c \notin Bare => Head(<<l>>[1]) = c
        BY <3>1, <3>2 DEF ListIsOwnFirst, l
      <4>2. \A i \in DOMAIN l : \E j \in DOMAIN Append(w, c) : Append(w, c)[j] = l[i]
        BY <3>1, <3>3 DEF ListIsOwnFirst, k, w, l
      <4>3. <<l>>[1] = l
        OBVIOUS
      <4>4. ASSUME NEW q \in IntentKeys
            PROVE  LET v == uiWrites'[q] IN
                   /\ v # << >> /\ v[Len(v)] \notin Bare => Head(uiObject'[q][1]) = v[Len(v)]
                   /\ uiObject'[q] # << >> => \A i \in DOMAIN uiObject'[q][1] : \E j \in DOMAIN v : v[j] = uiObject'[q][1][i]
        <5>1. CASE q = k
          <6>1. uiWrites'[q] = Append(w, c) /\ uiObject'[q] = <<l>>
            BY <3>1, <3>2, <5>1 DEF IntentTypeOK
          <6> QED BY <3>3, <4>1, <4>2, <4>3, <6>1
        <5>2. CASE q # k
          <6>1. uiWrites'[q] = uiWrites[q] /\ uiObject'[q] = uiObject[q]
            BY <3>1, <5>2 DEF IntentTypeOK
          <6> QED BY <6>1 DEF LastIntentIsThere
        <5> QED BY <5>1, <5>2
      <4> QED BY <4>4 DEF LastIntentIsThere
    <3> QED BY <3>4, <3>5, <3>6, <3>7, <3>8, <3>9
  <2>4. ASSUME NEW c \in Calls, RequestFails(c) PROVE IntentInv'
    <3>1. /\ \A d \in Calls : uiPc'[d] = IF d = c THEN "failed" ELSE uiPc[d]
          /\ UNCHANGED <<uiList, uiObject, uiBase, uiWrites, uiBlind>>
      BY <2>4 DEF RequestFails, IntentTypeOK
    <3>2. IntentTypeOK'
      BY <2>4 DEF RequestFails, IntentTypeOK
    <3>3. ObjectFollowsWrites' /\ ListIsOwnFirst'
      BY <3>1 DEF ObjectFollowsWrites, ListIsOwnFirst
    <3>4. SeenIsAll'
      BY <3>1 DEF SeenIsAll
    <3>5. IntentsAreKept' /\ LastIntentIsThere'
      BY <3>1 DEF IntentsAreKept, LastIntentIsThere
    <3> QED BY <3>2, <3>3, <3>4, <3>5
  <2>5. CASE UNCHANGED intentVars
    <3>1. IntentTypeOK'
      BY <2>5 DEF intentVars, IntentTypeOK
    <3>2. ObjectFollowsWrites'
      BY <2>5 DEF intentVars, ObjectFollowsWrites
    <3>3. ListIsOwnFirst'
      BY <2>5 DEF intentVars, ListIsOwnFirst
    <3>4. SeenIsAll'
      BY <2>5 DEF intentVars, SeenIsAll
    <3>5. IntentsAreKept'
      BY <2>5 DEF intentVars, IntentsAreKept
    <3>6. LastIntentIsThere'
      BY <2>5 DEF intentVars, LastIntentIsThere
    <3> QED BY <3>1, <3>2, <3>3, <3>4, <3>5, <3>6
  <2> QED BY <2>1, <2>2, <2>3, <2>4, <2>5 DEF IntentNext
<1> QED BY <1>1, <1>2, PTL DEF IntentSpec

(* For any calls and components: an object keeps the intents of all calls  *)
(* that wrote it, newest first, as long as none of them wrote blindly, and *)
(* always starts with those of the last call that had any.                 *)
THEOREM IntentsAlwaysSurvive == IntentSpec => []IntentsSurvive
<1>1. IntentInv => IntentsSurvive
  BY DEF IntentInv, IntentsSurvive
<1> QED BY <1>1, IntentInvariant, PTL
-----------------------------------------------------------------------------
QueryTypeOK ==
    /\ qLevel \in {"version", "package"} /\ qClock \in Nat /\ qStarted \in SUBSET Docs
    /\ qVersion \in [Docs -> Versions \cup {NoVersionId}]
    /\ qFinished \in [Docs -> Nat] /\ qUploaded \in [Docs -> Nat]
    /\ qRow \in [Docs -> {"none", "real", "error", "ref", "error ref"}]
    /\ qReused \in [Docs -> SUBSET Docs]

(* An analysis has nothing before it is created.                           *)
NothingBeforeStart ==
    \A d \in Docs : d \notin qStarted => qRow[d] = "none" /\ qUploaded[d] = 0 /\ qFinished[d] = 0

(* Uploads have times of their own, up to now; a row is a reference as     *)
(* soon as, and only if, it was uploaded.                                  *)
UploadIsReference ==
    \A d \in Docs : qUploaded[d] <= qClock /\ (qUploaded[d] > 0 <=> qRow[d] \in {"ref", "error ref"})
UploadsDiffer ==
    \A d, e \in Docs : qUploaded[d] > 0 /\ qUploaded[d] = qUploaded[e] => d = e

Uploaded(place) == {d \in Docs : qUploaded[d] > 0 /\ Place(d) = place}

(* What was uploaded last to an object is of one analysis.                 *)
LastUpload ==
    \A place \in Places : Uploaded(place) # {} =>
        \E d \in Uploaded(place) : \A e \in Uploaded(place) : qUploaded[e] <= qUploaded[d]

QueryInv == /\ QueryTypeOK /\ NothingBeforeStart /\ UploadIsReference /\ UploadsDiffer
            /\ LastUpload /\ ReusedIsOfVersion

(* A tick of the clock is later than all before.                           *)
LEMMA ClockTicks ==
    \A n \in Nat : /\ n + 1 \in Nat /\ n + 1 > 0 /\ n + 1 <= n + 1
                   /\ \A m \in Nat : m <= n => m <= n + 1 /\ m # n + 1
  OBVIOUS

(* The inductive invariant of the tables.                                  *)
THEOREM QueryInvariant == QuerySpec => []QueryInv
<1> USE DEF QueryInv, Good, Bad, Place, Places
<1>1. QueryInit => QueryInv
  <2> SUFFICES ASSUME QueryInit PROVE QueryInv
    OBVIOUS
  <2> USE DEF QueryInit
  <2>1. QueryTypeOK
    BY DEF QueryTypeOK
  <2>2. NothingBeforeStart /\ UploadIsReference /\ UploadsDiffer
    BY DEF NothingBeforeStart, UploadIsReference, UploadsDiffer
  <2>3. LastUpload /\ ReusedIsOfVersion
    BY DEF LastUpload, Uploaded, ReusedIsOfVersion
  <2> QED BY <2>1, <2>2, <2>3
<1>2. QueryInv /\ [QueryNext]_queryVars => QueryInv'
  <2> SUFFICES ASSUME QueryInv, [QueryNext]_queryVars PROVE QueryInv'
    OBVIOUS
  <2>1. ASSUME NEW d \in Docs, NEW v \in Versions \cup {NoVersionId}, NEW s \in BOOLEAN,
               BeginAnalysis(d, v, s)
        PROVE  QueryInv'
    <3> DEFINE latest == IF s THEN get_latest_task_entry(v, FALSE) ELSE {}
    <3>1. /\ d \notin qStarted /\ qStarted' = qStarted \cup {d}
          /\ qVersion' = [qVersion EXCEPT ![d] = v]
          /\ qReused' = [qReused EXCEPT ![d] = latest]
          /\ UNCHANGED <<qLevel, qFinished, qRow, qUploaded, qClock>>
      BY <2>1 DEF BeginAnalysis
    <3>2. \A e \in latest : e \in Docs /\ qRow[e] \in Good /\ qVersion[e] = v
      BY DEF get_latest_task_entry, First, RowsOf
    <3> HIDE DEF latest
    <3>3. qRow[d] = "none" /\ qUploaded[d] = 0
      BY <3>1 DEF NothingBeforeStart
    <3>4. QueryTypeOK'
      BY <3>1, <3>2 DEF QueryTypeOK
    <3>5. NothingBeforeStart'
      BY <3>1 DEF NothingBeforeStart
    <3>6. UploadIsReference'
      BY <3>1 DEF UploadIsReference
    <3>7. UploadsDiffer'
      BY <3>1 DEF UploadsDiffer
    <3>8. \A e \in Docs : (qVersion'[e] = IF e = d THEN v ELSE qVersion[e])
                          /\ (qReused'[e] = IF e = d THEN latest ELSE qReused[e])
      BY <3>1 DEF QueryTypeOK
    <3>9. LastUpload'
      <4>1. \A place \in Places : Uploaded(place)' = Uploaded(place)
        BY <3>1, <3>3, <3>8 DEF Uploaded
      <4> QED BY <3>1, <4>1 DEF LastUpload
    <3>10. ReusedIsOfVersion'
      <4> SUFFICES ASSUME NEW f \in Docs, NEW e \in qReused'[f]
                   PROVE  qRow'[e] \in Good /\ qVersion'[e] = qVersion'[f]
        BY DEF ReusedIsOfVersion
      <4>1. e \in Docs /\ qRow[e] \in Good /\ qVersion[e] = IF f = d THEN v ELSE qVersion[f]
        BY <3>2, <3>8 DEF ReusedIsOfVersion, QueryTypeOK
      <4>2. e # d
        BY <3>3, <4>1
      <4> QED BY <3>1, <3>8, <4>1, <4>2
    <3> QED BY <3>4, <3>5, <3>6, <3>7, <3>9, <3>10
  <2>2. ASSUME NEW d \in Docs, NEW kind \in {"real", "error"}, StoreRow(d, kind) PROVE QueryInv'
    <3> USE <2>2 DEF StoreRow
    <3>1. /\ \A e \in Docs : qRow'[e] = IF e = d THEN kind ELSE qRow[e]
          /\ d \in qStarted /\ qRow[d] = "none" /\ qReused[d] = {}
          /\ UNCHANGED <<qLevel, qVersion, qStarted, qFinished, qUploaded, qReused, qClock>>
      BY DEF QueryTypeOK
    <3>2. QueryTypeOK'
      BY DEF QueryTypeOK
    <3>3. NothingBeforeStart' /\ UploadIsReference'
      BY <3>1 DEF NothingBeforeStart, UploadIsReference
    <3>4. UploadsDiffer' /\ LastUpload'
      BY <3>1 DEF UploadsDiffer, LastUpload, Uploaded
    <3>5. ReusedIsOfVersion'
      <4> SUFFICES ASSUME NEW f \in Docs, NEW e \in qReused[f]
                   PROVE  qRow'[e] \in Good /\ qVersion'[e] = qVersion'[f]
        BY <3>1 DEF ReusedIsOfVersion
      <4>1. e \in Docs /\ qRow[e] \in Good /\ qVersion[e] = qVersion[f]
        BY DEF ReusedIsOfVersion, QueryTypeOK
      <4>2. e # d
        BY <3>1, <4>1
      <4> QED BY <3>1, <4>1, <4>2
    <3> QED BY <3>2, <3>3, <3>4, <3>5
  <2>3. ASSUME NEW d \in Docs, FinishAnalysis(d) PROVE QueryInv'
    <3>0. qClock \in Nat /\ qClock + 1 \in Nat /\ \A e \in Docs : qUploaded[e] \in Nat /\ qUploaded[e] <= qClock + 1
      <4>1. qClock \in Nat /\ \A e \in Docs : qUploaded[e] \in Nat /\ qUploaded[e] <= qClock
        BY DEF QueryTypeOK, UploadIsReference
      <4> QED BY <4>1, ClockTicks
    <3> USE <2>3 DEF FinishAnalysis, Tick
    <3>1. /\ d \in qStarted /\ qClock' = qClock + 1
          /\ qFinished' = [qFinished EXCEPT ![d] = qClock + 1]
          /\ \A e \in Docs \ {d} : qFinished'[e] = qFinished[e]
          /\ UNCHANGED <<qLevel, qVersion, qStarted, qRow, qUploaded, qReused>>
      BY DEF QueryTypeOK
    <3> HIDE <2>3 DEF FinishAnalysis
    <3>2. QueryTypeOK'
      BY <3>0, <3>1 DEF QueryTypeOK
    <3>3. NothingBeforeStart'
      BY <3>1 DEF NothingBeforeStart
    <3>4. UploadIsReference'
      BY <3>0, <3>1 DEF UploadIsReference
    <3>5. UploadsDiffer' /\ LastUpload'
      BY <3>1 DEF UploadsDiffer, LastUpload, Uploaded
    <3>6. ReusedIsOfVersion'
      BY <3>1 DEF ReusedIsOfVersion
    <3> QED BY <3>2, <3>3, <3>4, <3>5, <3>6
  <2>4. ASSUME NEW d \in Docs, CollectRow(d) PROVE QueryInv'
    <3>1. /\ qClock' = qClock + 1 /\ qRow[d] \in {"real", "error"} /\ qFinished[d] # 0
          /\ \A e \in Docs : qUploaded'[e] = IF e = d THEN qClock + 1 ELSE qUploaded[e]
          /\ \A e \in Docs : qRow'[e] = IF e # d THEN qRow[e] ELSE IF qRow[d] = "real" THEN "ref" ELSE "error ref"
          /\ UNCHANGED <<qLevel, qVersion, qStarted, qFinished, qReused>>
      BY <2>4 DEF CollectRow, Tick, QueryTypeOK
    <3>a. /\ qUploaded' = [qUploaded EXCEPT ![d] = qClock + 1]
          /\ qRow' = [qRow EXCEPT ![d] = IF qRow[d] = "real" THEN "ref" ELSE "error ref"]
      BY <2>4 DEF CollectRow
    <3>b. qClock + 1 \in Nat /\ qClock + 1 > 0 /\ qClock + 1 <= qClock + 1
      BY ClockTicks DEF QueryTypeOK
    <3>c. \A e \in Docs : qUploaded[e] \in Nat /\ qUploaded[e] <= qClock + 1 /\ qUploaded[e] # qClock + 1
      <4>1. qClock \in Nat /\ \A e \in Docs : qUploaded[e] \in Nat /\ qUploaded[e] <= qClock
        BY DEF QueryTypeOK, UploadIsReference
      <4> QED BY <4>1, ClockTicks
    <3> DEFINE now == qClock + 1
    <3> HIDE DEF now
    <3>d. /\ now \in Nat /\ now > 0 /\ now <= now /\ qClock' = now /\ qUploaded' = [qUploaded EXCEPT ![d] = now]
          /\ \A e \in Docs : /\ qUploaded[e] \in Nat /\ qUploaded[e] <= now /\ qUploaded[e] # now
                              /\ qUploaded'[e] = IF e = d THEN now ELSE qUploaded[e]
      BY <3>1, <3>a, <3>b, <3>c DEF now
    <3>2. QueryTypeOK'
      BY <3>1, <3>a, <3>d DEF QueryTypeOK
    <3>3. NothingBeforeStart'
      BY <3>1 DEF NothingBeforeStart
    <3>e. UNCHANGED qVersion /\ \A e \in Docs \ {d} : qRow'[e] = qRow[e]
      BY <3>1
    <3>f. qRow'[d] \in {"ref", "error ref"}
      BY <3>1
    <3>4. UploadIsReference'
      BY <3>d, <3>e, <3>f DEF UploadIsReference
    <3>5. UploadsDiffer'
      BY <3>d DEF UploadsDiffer
    <3>6. LastUpload'
      <4> SUFFICES ASSUME NEW place \in Places, Uploaded(place)' # {}
                   PROVE  \E x \in Uploaded(place)' : \A e \in Uploaded(place)' : qUploaded'[e] <= qUploaded'[x]
        BY DEF LastUpload
      <4>1. CASE qVersion[d] = place
        <5>1. d \in Uploaded(place)'
          BY <3>d, <3>e, <4>1 DEF Uploaded
        <5>2. \A e \in Docs : qUploaded'[e] <= qUploaded'[d]
          BY <3>d
        <5> QED BY <5>1, <5>2 DEF Uploaded
      <4>2. CASE qVersion[d] # place
        <5>1. Uploaded(place)' = Uploaded(place) /\ d \notin Uploaded(place)
          BY <3>1, <4>2 DEF Uploaded
        <5>2. \A e \in Uploaded(place) : qUploaded'[e] = qUploaded[e]
          BY <3>1, <5>1 DEF Uploaded
        <5> QED BY <5>1, <5>2 DEF LastUpload
      <4> QED BY <4>1, <4>2
    <3>7. ReusedIsOfVersion'
      BY <3>1 DEF ReusedIsOfVersion, QueryTypeOK
    <3> QED BY <3>2, <3>3, <3>4, <3>5, <3>6, <3>7
  <2>5. CASE UNCHANGED queryVars
    <3>1. QueryTypeOK' /\ NothingBeforeStart'
      BY <2>5 DEF queryVars, QueryTypeOK, NothingBeforeStart
    <3>2. UploadIsReference' /\ UploadsDiffer'
      BY <2>5 DEF queryVars, UploadIsReference, UploadsDiffer
    <3>3. LastUpload' /\ ReusedIsOfVersion'
      BY <2>5 DEF queryVars, LastUpload, Uploaded, ReusedIsOfVersion
    <3> QED BY <3>1, <3>2, <3>3
  <2> QED BY <2>1, <2>2, <2>3, <2>4, <2>5 DEF QueryNext
<1> QED BY <1>1, <1>2, PTL DEF QuerySpec

(* The object of a place holds the last upload.                            *)
LEMMA ObjectIsLast ==
    ASSUME QueryInv, NEW d \in Docs, qUploaded[d] > 0
    PROVE  /\ Object(Place(d)) \in Docs /\ Place(Object(Place(d))) = Place(d)
           /\ qUploaded[Object(Place(d))] \in Nat /\ qUploaded[d] \in Nat
           /\ qUploaded[Object(Place(d))] >= qUploaded[d]
<1> USE DEF QueryInv
<1>1. Place(d) \in Places /\ d \in Uploaded(Place(d))
  BY DEF QueryTypeOK, Place, Places, Uploaded
<1>2. PICK x \in Uploaded(Place(d)) : \A e \in Uploaded(Place(d)) : qUploaded[e] <= qUploaded[x]
  BY <1>1 DEF LastUpload
<1>3. Object(Place(d)) = CHOOSE y \in Uploaded(Place(d)) : \A e \in Uploaded(Place(d)) : qUploaded[e] <= qUploaded[y]
  BY DEF Object, Uploaded
<1>4. /\ Object(Place(d)) \in Uploaded(Place(d))
      /\ \A e \in Uploaded(Place(d)) : qUploaded[e] <= qUploaded[Object(Place(d))]
  BY <1>2, <1>3
<1> QED BY <1>1, <1>4 DEF Uploaded, QueryTypeOK

(* For any analyses of any versions: readers get the newest result unless  *)
(* an analysis is unfinished, a failure only if it was uploaded over a     *)
(* result, an entry of the own version, and the name of an object that is  *)
(* there.                                                                  *)
THEOREM QueriesAlwaysExplained == QuerySpec => []QueriesExplained
<1>1. QueryInv => QueriesExplained
  <2> SUFFICES ASSUME QueryInv PROVE QueriesExplained
    OBVIOUS
  <2> USE DEF QueryInv
  <2>0. \A d \in Docs : qFinished[d] \in Nat /\ qUploaded[d] \in Nat
    BY DEF QueryTypeOK
  <2>1. ImportedWasUploaded
    <3> SUFFICES ASSUME NEW d \in Docs, get_finished_task_names(d), qRow[d] # "real"
                 PROVE  qUploaded[d] > 0 /\ qUploaded[Object(Place(d))] >= qUploaded[d]
      BY DEF ImportedWasUploaded
    <3>1. qUploaded[d] > 0
      BY DEF get_finished_task_names, Good, UploadIsReference
    <3> QED BY <3>1, ObjectIsLast
  <2>2. LatestIsNewest /\ UnfinishedHidesFinished
    BY <2>0 DEF LatestIsNewest, UnfinishedHidesFinished, LatestRows, First, FirstRow, Descending, RowsOf
  <2>3. FailureOnlyIfUploadedLater
    <3> SUFFICES ASSUME NEW p \in Places, NEW d \in LatestRows(p), qRow[Content(d)] \in Bad
                 PROVE  qUploaded[Content(d)] > qUploaded[d] /\ qUploaded[d] > 0
      BY DEF FailureOnlyIfUploadedLater
    <3>1. d \in Docs /\ qRow[d] \in Good
      BY DEF LatestRows, First, RowsOf
    <3>2. qRow[d] = "ref" /\ Content(d) = Object(Place(d)) /\ qUploaded[d] > 0
      BY <3>1 DEF Content, Good, Bad, UploadIsReference
    <3>3. Content(d) # d
      BY <3>2 DEF Bad
    <3>4. /\ Content(d) \in Docs /\ qUploaded[Content(d)] >= qUploaded[d]
          /\ qUploaded[Content(d)] \in Nat /\ qUploaded[d] \in Nat
      BY <3>1, <3>2, ObjectIsLast
    <3>5. qUploaded[Content(d)] # qUploaded[d]
      BY <3>1, <3>2, <3>3, <3>4 DEF UploadsDiffer
    <3> QED BY <3>2, <3>4, <3>5
  <2> QED BY <2>1, <2>2, <2>3 DEF QueriesExplained
<1> QED BY <1>1, QueryInvariant, PTL
=============================================================================
