------------------------------- MODULE Solver -------------------------------
(***************************************************************************)
(* f8a_worker/solver.py: Solver.solve, the release fetchers and the choice *)
(* of the solver; workers/dependency_snapshot.py and the dependency part   *)
(* of workers/graphaggregator.py, the tasks that solve.                    *)
(*                                                                         *)
(* The registry is outside: each fetch returns a list of releases in any   *)
(* order, none, or raises.  The aggregator solves all its dependencies in  *)
(* one call; the snapshot solves one per call, in the order of a list made *)
(* from a set, and stops at the first it cannot resolve.                   *)
(*                                                                         *)
(* A dependency on a GitHub repository or a URL is a link: "version" after *)
(* a name, "bare" without one; an npm or nuget "version" link has in range *)
(* what the parser makes of it, none or a word.  A pypi link names no egg. *)
(***************************************************************************)
EXTENDS Versions

CONSTANTS Manifests,  (* [eco, raws]: dependencies [name, range, link]      *)
          Listings,   (* sequences of releases a registry may list          *)
          Lower(_)    (* str.lower                                          *)

VARIABLES sTask,     (* "none", "snapshot" or "aggregator"                  *)
          sManifest, (* the manifest at work                                *)
          sTodo,     (* the positions of the dependencies not yet reached   *)
          sSolved,   (* the solutions found, a sequence                     *)
          sOutcome   (* "running", or how the task ended                    *)

solverVars == <<sTask, sManifest, sTodo, sSolved, sOutcome>>

NoManifest == [eco |-> "", raws |-> << >>]
NoVersion  == << >>

(* A link in the place of a version; it is never compared.                 *)
LinkVersion == <<-1>>

(* A version has at least one part, in a registry and in a pom.            *)
ASSUME SolverAssumption ==
    /\ Listings \subseteq Seq(Seq(Int) \ {NoVersion})
    /\ \A man \in Manifests :
          /\ man.eco \in {"npm", "pypi", "nuget", "go", "maven"}
          /\ Len(man.raws) \in Nat /\ DOMAIN man.raws = 1..Len(man.raws)
          /\ \A i \in DOMAIN man.raws : man.raws[i].link \in {"", "version", "bare"}
          /\ man.eco = "maven" => \A i \in DOMAIN man.raws :
                man.raws[i].link = "" => man.raws[i].range[1].ver # NoVersion

(* What a registry replies: a list, that there is none, what cannot be     *)
(* read, or nothing.  A name no registry could be asked for counts as the  *)
(* third.                                                                  *)
Replies    == [status : {"ok"}, listed : Listings]
              \cup [status : {"not found", "bad reply", "no reply"}, listed : {<< >>}]

(* get_ecosystem_solver: nuget alone takes the lowest version.             *)
HighestWins(eco) == eco # "nuget"

DependencyParser(eco, raws) == CASE eco = "npm"   -> ParseNpm(raws)
                                 [] eco = "pypi"  -> ParsePypi(raws)
                                 [] eco = "nuget" -> ParseNuget(raws)

(* fetch_releases: the releases, or that it raises; a ValueError (a body   *)
(* that is no JSON, a go name without a repository, a head of other than   *)
(* two words, maven coordinates of other than two parts) is told apart.    *)
(* pypi, npm and maven take a missing package for one without releases;    *)
(* the page of nuget cannot be scraped then, and go has no head.           *)
Raised      == << << >> >>
RaisedValue == << << >>, << >> >>

FetchReleases(eco, reply) ==
    CASE reply.status = "no reply"  -> Raised
      [] reply.status = "bad reply" -> RaisedValue
      [] reply.status = "not found" -> IF eco \in {"pypi", "npm", "maven"} THEN << >> ELSE Raised
      [] reply.status = "ok"        -> IF eco # "go" THEN reply.listed
                                       ELSE IF reply.listed = << >> THEN Raised ELSE <<reply.listed[1]>>

(* The pypi fetcher answers under the lower-case name.                     *)
FetchedName(eco, name) == IF eco = "pypi" THEN Lower(name) ELSE name

Solution(name, spec, releases, version) ==
    [name |-> name, spec |-> spec, releases |-> releases, version |-> version]

(* One turn of the loop of Solver.solve.                                   *)
SolveDependency(eco, dep, releases) ==
    LET matching == Sorted(Picked(releases, {i \in DOMAIN releases : check(releases[i], dep.spec)}))
        version  == IF matching = << >> THEN NoVersion
                    ELSE IF HighestWins(eco) THEN matching[Len(matching)] ELSE matching[1]
    IN  Solution(FetchedName(eco, dep.name), dep.spec, releases, version)

SolverInit == /\ sTask = "none" /\ sManifest = NoManifest /\ sTodo = {}
              /\ sSolved = << >> /\ sOutcome = "running"

(* A dependency without a blank does not unpack into name and range, and   *)
(* pip reads no link.                                                      *)
Unpackable(man) == \E i \in DOMAIN man.raws :
                       \/ man.raws[i].link = "bare"
                       \/ man.eco = "pypi" /\ man.raws[i].link # ""

(* GraphAggregatorTask: the whole manifest goes to one solve call, and     *)
(* whatever that raises is fatal.                                          *)
AggregatorStart(man) ==
    LET deps == DependencyParser(man.eco, man.raws)
    IN  /\ sTask = "none" /\ man.eco \in {"npm", "pypi", "nuget"}
        /\ sTask' = "aggregator" /\ sManifest' = man
        /\ IF Unpackable(man) \/ \E i \in DOMAIN deps : deps[i] \in ParseErrors
           THEN sTodo' = {} /\ sOutcome' = "failed"
           ELSE sTodo' = DOMAIN deps /\ UNCHANGED sOutcome
        /\ UNCHANGED sSolved

(* solved is a dictionary by name.                                         *)
AlreadySolved(name) == \E i \in DOMAIN sSolved : sSolved[i].name = name

AggregatorSolve(reply) ==
    /\ sTask = "aggregator" /\ sOutcome = "running" /\ sTodo # {}
    /\ sTodo' = sTodo \ {FirstOf(sTodo)}
    /\ LET deps == DependencyParser(sManifest.eco, sManifest.raws)
           releases == FetchReleases(sManifest.eco, reply)
           s    == SolveDependency(sManifest.eco, deps[FirstOf(sTodo)], releases)
       IN  IF releases \in {Raised, RaisedValue} \/ AlreadySolved(s.name)
           THEN sOutcome' = "failed" /\ UNCHANGED sSolved
           ELSE sSolved' = Append(sSolved, s) /\ UNCHANGED sOutcome
    /\ UNCHANGED <<sTask, sManifest>>

AggregatorDone == /\ sTask = "aggregator" /\ sOutcome = "running" /\ sTodo = {}
                  /\ sOutcome' = "success"
                  /\ UNCHANGED <<sTask, sManifest, sTodo, sSolved>>
-----------------------------------------------------------------------------
(* What DependencySnapshotTask._resolve_dependency makes of one            *)
(* dependency: a solution, "error" (NotABugTaskError, which it makes of    *)
(* every ValueError) or "failed" (any other exception).  An npm range the  *)
(* tool cannot read leaves an empty result, on which popitem raises.       *)
Problem(kind) == Solution(kind, << >>, Raised, NoVersion)
Problems      == {Problem("error"), Problem("failed")}

ResolveParsed(eco, deps, releases) ==
    IF deps = <<BadRange>> THEN Problem("error")
    ELSE IF deps \in {<< >>, <<Unbound>>} \/ releases = Raised THEN Problem("failed")
    ELSE IF releases = RaisedValue THEN Problem("error")
    ELSE LET s == SolveDependency(eco, deps[1], releases)
         IN  IF s.version = NoVersion THEN Problem("error") ELSE s

(* Go keeps a given version and takes the head of the repository           *)
(* otherwise; maven asks mvn about ranges only, whose choice is its own.   *)
ResolveGiven(given, raw, spec, releases) ==
    IF given # NoVersion THEN Solution(raw.name, << >>, << >>, given)
    ELSE IF releases \in {Raised, << >>} THEN Problem("failed")
    ELSE IF releases = RaisedValue THEN Problem("error")
    ELSE Solution(raw.name, spec, releases, releases[1])

(* A link is answered at once in every ecosystem: with the link for a      *)
(* version, or under the link for a name and without a version.            *)
ResolveDependency(eco, raw, releases) ==
    CASE raw.link = "version" -> Solution(raw.name, << >>, << >>, LinkVersion)
      [] raw.link = "bare"    -> Solution(raw.name, << >>, << >>, NoVersion)
      [] raw.link = "" /\ eco = "go"    -> ResolveGiven(raw.range, raw, << >>, releases)
      [] raw.link = "" /\ eco = "maven" ->
           ResolveGiven(IF raw.range[1].op = "" THEN raw.range[1].ver ELSE NoVersion,
                        raw, <<raw.range>>, releases)
      [] raw.link = "" /\ eco \notin {"go", "maven"} ->
           ResolveParsed(eco, DependencyParser(eco, <<raw>>), releases)

SnapshotStart(man) == /\ sTask = "none"
                      /\ sTask' = "snapshot" /\ sManifest' = man
                      /\ sTodo' = DOMAIN man.raws
                      /\ UNCHANGED <<sSolved, sOutcome>>

SnapshotResolve(i, reply) ==
    /\ sTask = "snapshot" /\ sOutcome = "running" /\ i \in sTodo
    /\ sTodo' = sTodo \ {i}
    /\ LET s == ResolveDependency(sManifest.eco, sManifest.raws[i],
                                   FetchReleases(sManifest.eco, reply))
       IN  IF s \in Problems THEN sOutcome' = s.name /\ UNCHANGED sSolved
           ELSE sSolved' = Append(sSolved, s) /\ UNCHANGED sOutcome
    /\ UNCHANGED <<sTask, sManifest>>

SnapshotDone == /\ sTask = "snapshot" /\ sOutcome = "running" /\ sTodo = {}
                /\ sOutcome' = "success"
                /\ UNCHANGED <<sTask, sManifest, sTodo, sSolved>>

SolverNext == \/ \E man \in Manifests : AggregatorStart(man) \/ SnapshotStart(man)
              \/ \E reply \in Replies :
                     \/ AggregatorSolve(reply)
                     \/ \E i \in sTodo : SnapshotResolve(i, reply)
              \/ AggregatorDone
              \/ SnapshotDone

SolverSpec == SolverInit /\ [][SolverNext]_solverVars
-----------------------------------------------------------------------------
(* Solver.solve answers with a release the registry listed, that satisfies *)
(* the specification, and that no other matching release beats; an         *)
(* unmatched dependency has none.                                          *)
SolvedIsBest ==
    \A i \in DOMAIN sSolved :
        LET s == sSolved[i]
            matching == {s.releases[j] : j \in {k \in DOMAIN s.releases : check(s.releases[k], s.spec)}}
            Beats(v, w) == compare_version(v, w) = IF HighestWins(sManifest.eco) THEN 1 ELSE -1
        IN  s.spec # << >> /\ sManifest.eco # "maven" =>
               IF s.version = NoVersion THEN matching = {}
               ELSE s.version \in matching /\ \A v \in matching : ~Beats(v, s.version)

(* The fetchers list the releases in the order of a set: another order     *)
(* gives a version that compares equal.                                    *)
SolvedWhateverTheOrder ==
    \A i \in DOMAIN sSolved : \A rel \in Listings :
        LET s == sSolved[i]
            Listed(q) == {q[j] : j \in DOMAIN q}
        IN  s.spec # << >> /\ sManifest.eco # "maven" /\ Listed(rel) = Listed(s.releases) =>
               compare_version(s.version,
                               SolveDependency(sManifest.eco, Dep(s.name, s.spec), rel).version) = 0

(* The aggregator answers for every dependency of the manifest, once and   *)
(* under its own name, or fails: a nuget range that repeats the dependency *)
(* before it never takes the place of its own.                             *)
AggregatorAnswersAll ==
    sTask = "aggregator" /\ sOutcome = "success" =>
        /\ \A i, j \in DOMAIN sSolved : sSolved[i].name = sSolved[j].name => i = j
        /\ {sSolved[i].name : i \in DOMAIN sSolved}
              = {FetchedName(sManifest.eco, sManifest.raws[i].name) :
                    i \in {j \in DOMAIN sManifest.raws :
                              sManifest.eco = "npm" => sManifest.raws[j].range # << >>}}

(* A snapshot that reports success resolved every dependency; one that     *)
(* reports an error misses at least the one that caused it.  Nothing but a *)
(* link that stands alone is passed on without a version.                  *)
SnapshotComplete ==
    sTask = "snapshot" =>
        /\ sOutcome = "success" => Len(sSolved) = Len(sManifest.raws)
        /\ sOutcome = "error"   => Len(sSolved) < Len(sManifest.raws)
        /\ \A i \in DOMAIN sSolved : sSolved[i].version = NoVersion =>
              \E j \in DOMAIN sManifest.raws : /\ sManifest.raws[j].link = "bare"
                                               /\ sManifest.raws[j].name = sSolved[i].name

(* The answers of a solver and what the two tasks that ask it make of them. *)
SolvedRight ==
    /\ SolvedIsBest
    /\ SolvedWhateverTheOrder
    /\ AggregatorAnswersAll
    /\ SnapshotComplete
=============================================================================
