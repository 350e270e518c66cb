------------------------------ MODULE RepoScan ------------------------------
(***************************************************************************)
(* osioAnalysisFlow and dependencyIngestFlow for one repository: its       *)
(* dependencies are read (workers/dependency_parser.py), those the graph   *)
(* does not know are ingested (unknown_dep_fetcher.py and foreach.py), and *)
(* all are reported (report_generation.py).                                *)
(*                                                                         *)
(* A dependency is the string of the code as the sequence of the parts     *)
(* between its colons: ecosystem, name (two parts for maven) and version   *)
(* (two parts if npm gives a URL).                                         *)
(***************************************************************************)
EXTENDS Names

CONSTANT Repos   (* [files, listed, entries]: the files of the root        *)
                 (* directory, whether the lock file has a list, and what  *)
                 (* mvn, mercator or the TOML parser reads from the        *)
                 (* manifest that is chosen                                *)

VARIABLES scanRepo, scanPc,
          scanFound,    (* result of GithubDependencyTreeTask: [is, deps]  *)
          scanGraph,    (* versions the graph has                          *)
          scanUnasked,  (* dependencies whose query was answered badly     *)
          scanLost,     (* UnknownDependencyFetcher or its iteration raised*)
          scanStarted,  (* versions that bayesianApiFlow is started for    *)
          scanFailed,   (* those of them that could not be ingested        *)
          scanReport

scanVars == <<scanRepo, scanPc, scanFound, scanGraph, scanUnasked, scanLost,
              scanStarted, scanFailed, scanReport>>

Found(is, deps) == [is |-> is, deps |-> deps]
-----------------------------------------------------------------------------
(* rsplit(':', 1)[0]: the scope goes - or the version, for the module that *)
(* a tree starts from, which has no scope.                                 *)
WithoutScope(a) == SubSeq(a, 1, Len(a) - 1)

TreeNames(lines) == UNION {{MavenEpv(WithoutScope(l[i])) : i \in DOMAIN l} : l \in lines}

(* A line of the tree with one name gives a module, an edge two packages.  *)
parse_maven_dependency_tree(lines) ==
    TreeNames({l \in lines : Len(l) = 2}) \ TreeNames({l \in lines : Len(l) = 1})

NpmEpv(e) == <<"npm", e.name>> \o e.version

(* Two levels of a lock file; the dev flag of the upper one counts.        *)
Locked(entries) ==
    UNION {{NpmEpv(e)} \cup {NpmEpv(b) : b \in e.below} : e \in {x \in entries : ~x.dev}}

(* name, version = dependency.split(): raises unless there are two words.  *)
Pinned(eco, entries) ==
    IF \A w \in entries : Len(w) = 2 THEN Found("deps", {<<eco, w[1], w[2]>> : w \in entries})
    ELSE Found("failed", {})

(* A sub-package of dots only is the package itself.                       *)
GoPackages(entries) ==
    UNION {{<<"go", e.name \o (IF s = "." THEN "" ELSE "/" \o s), e.version>> :
               s \in IF e.subs = {} THEN {"."} ELSE e.subs} : e \in entries}

Priority == <<"pom.xml", "npm-shrinkwrap.json", "package.json",
              "requirements.txt", "glide.lock", "Gopkg.lock">>

(* package-lock.json is renamed first, over an npm-shrinkwrap.json.        *)
Manifest(r) ==
    LET name(f)  == IF f = "package-lock.json" THEN "npm-shrinkwrap.json" ELSE f
        places   == {i \in DOMAIN Priority : \E f \in r.files : name(f) = Priority[i]}
    IN  IF places = {} THEN "none" ELSE Priority[FirstOf(places)]

(* A tree of mvn starts from modules: what else needs a package is needed  *)
(* itself.  The version of an npm entry is split at its colons.            *)
ASSUME RepoAssumption ==
    \A r \in Repos :
        /\ Manifest(r) = "pom.xml" =>
              /\ r.entries \subseteq Seq(Seq(STRING))
              /\ \A l \in r.entries : Len(l) = 2 => \E k \in r.entries : k = <<l[1]>> \/ (Len(k) = 2 /\ k[2] = l[1])
        /\ Manifest(r) = "npm-shrinkwrap.json" =>
              \A e \in r.entries : e.version \in Seq(STRING) /\ \A b \in e.below : b.version \in Seq(STRING)

(* extract_dependencies and execute: without a manifest the result is      *)
(* None, and so is the list of a Go lock file without one: the TypeError   *)
(* of both means that there is no lock file.  (An npm lock file always has *)
(* a list when the normalizer is done with it.)                            *)
extract_dependencies(r) ==
    LET Listed(deps) == IF r.listed THEN Found("deps", deps) ELSE Found("absent", {})
    IN  CASE Manifest(r) = "pom.xml"             -> Found("deps", parse_maven_dependency_tree(r.entries))
          [] Manifest(r) = "npm-shrinkwrap.json" -> Found("deps", Locked(r.entries))
          [] Manifest(r) = "package.json"        -> Pinned("npm", r.entries)
          [] Manifest(r) = "requirements.txt"    -> Pinned("pypi", r.entries)
          [] Manifest(r) \in {"glide.lock", "Gopkg.lock"} -> Listed(GoPackages(r.entries))
          [] OTHER                               -> Found("absent", {})
-----------------------------------------------------------------------------
(* n_colons: three parts before the version are a maven name, else the     *)
(* second is the name; any other number of colons gives no name.           *)
Key(d) == CASE Len(d) = 4 -> <<d[1], d[2] \o ":" \o d[3], d[4]>>
            [] Len(d) = 3 -> d
            [] OTHER      -> <<d[1], "", d[Len(d)]>>

(* iter_unknown_dependencies splits the joined string again.               *)
Arguments(d) == IF d[1] = "maven" THEN Key(d) ELSE <<d[1], d[2], d[3]>>

(* Variant: the first bad answer ends the loop.                            *)
UnknownUntilError(deps, unasked) ==
    IF unasked = {} THEN {d \in deps : Key(d) \notin scanGraph} ELSE {}

(* A dependency with an answer other than 200 is in neither list.          *)
Unknown(deps, unasked) == {d \in deps \ unasked : Key(d) \notin scanGraph}
-----------------------------------------------------------------------------
ScanInit ==
    /\ scanRepo \in Repos
    /\ scanGraph \in SUBSET {Key(d) : d \in extract_dependencies(scanRepo).deps}
    /\ scanPc = "extract" /\ scanFound = Found("none", {})
    /\ scanUnasked = {} /\ scanLost = FALSE /\ scanStarted = {} /\ scanFailed = {} /\ scanReport = {}

(* GithubDependencyTreeTask; cloning, mvn and mercator may fail.           *)
Extract ==
    /\ scanPc = "extract"
    /\ scanFound' \in {extract_dependencies(scanRepo), Found("failed", {})}
    /\ scanPc' = IF scanFound'.is = "failed" THEN "failed" ELSE "fetch"
    /\ UNCHANGED <<scanRepo, scanGraph, scanUnasked, scanLost, scanStarted, scanFailed, scanReport>>

(* UnknownDependencyFetcherTask and the iteration over its result.  A list *)
(* without dependencies fails its assertion, a query may raise: then the   *)
(* flow fails and the report is its fallback.  An exception in the         *)
(* iteration leaves nothing to start.                                      *)
FetchAndStart ==
    /\ scanPc = "fetch"
    /\ scanPc' = "report"
    /\ \/ /\ scanFound.is = "absent" \/ scanFound.deps # {}
          /\ \E bad \in SUBSET scanFound.deps :
                /\ scanUnasked' = bad
                /\ scanStarted' = {Arguments(d) : d \in Unknown(scanFound.deps, bad)}
                /\ \E fail \in SUBSET scanStarted' :
                      /\ scanFailed' = fail
                      /\ scanGraph' = scanGraph \cup (scanStarted' \ fail)
          /\ UNCHANGED scanLost
       \/ /\ scanLost' = TRUE
          /\ UNCHANGED <<scanUnasked, scanStarted, scanFailed, scanGraph>>
    /\ UNCHANGED <<scanRepo, scanFound, scanReport>>

(* ReportGenerationTask: a dependency that cannot be queried is skipped.   *)
Report ==
    /\ scanPc = "report"
    /\ \/ /\ scanFound.is = "absent" \/ scanFound.deps # {}
          /\ \E bad \in SUBSET scanFound.deps :
                scanReport' = {Key(d) : d \in {x \in scanFound.deps \ bad : Key(x) \in scanGraph}}
          /\ scanPc' = "done"
       \/ /\ scanFound.is = "deps" /\ scanFound.deps = {}
          /\ scanPc' = "failed"
          /\ UNCHANGED scanReport
    /\ UNCHANGED <<scanRepo, scanFound, scanGraph, scanUnasked, scanLost, scanStarted, scanFailed>>

ScanNext == Extract \/ FetchAndStart \/ Report

ScanSpec == ScanInit /\ [][ScanNext]_scanVars
-----------------------------------------------------------------------------
(* "Remove pom names from actual package names": a module of the project   *)
(* that no other module needs is not one of its dependencies, although its *)
(* name is on the left of every line.  (A module that another one needs is *)
(* listed there with its scope, and is taken for a package.)               *)
NoModuleIsADependency ==
    scanFound.is = "deps" /\ Manifest(scanRepo) = "pom.xml" =>
        LET modules == {l[1] : l \in {x \in scanRepo.entries : Len(x) = 1}}
            needed  == {l[2] : l \in {x \in scanRepo.entries : Len(x) = 2}}
        IN  \A d \in scanFound.deps : \E a \in needed : d = MavenEpv(WithoutScope(a)) /\ a \notin modules

(* In a lock file nothing below a development dependency is needed in      *)
(* production, and all that is below a production one is, whatever npm     *)
(* noted on the entry itself.                                              *)
ProductionOnly ==
    scanFound.is = "deps" /\ Manifest(scanRepo) = "npm-shrinkwrap.json" =>
        \A e \in scanRepo.entries :
            LET under == {NpmEpv(e)} \cup {NpmEpv(b) : b \in e.below}
                others == UNION {{NpmEpv(o)} \cup {NpmEpv(b) : b \in o.below} :
                                   o \in {x \in scanRepo.entries : ~x.dev}}
            IN  IF e.dev THEN under \cap scanFound.deps \subseteq others
                ELSE under \subseteq scanFound.deps

(* A dependency whose version has no colon is known in the graph at the    *)
(* end, or there is a reason in the log: its query failed, the task or the *)
(* iteration raised, or its own flow was started and failed.               *)
UnknownIsIngested ==
    scanPc = "done" =>
        \A d \in scanFound.deps : Len(d) = (IF d[1] = "maven" THEN 4 ELSE 3) =>
            \/ Key(d) \in scanGraph
            \/ d \in scanUnasked \/ scanLost
            \/ Key(d) \in scanStarted \cap scanFailed

(* What a repository needs is found, nothing else is, and it is ingested.  *)
ScanIsComplete ==
    /\ NoModuleIsADependency
    /\ ProductionOnly
    /\ UnknownIsIngested
=============================================================================
