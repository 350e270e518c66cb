------------------------------ MODULE LibraryMC ------------------------------
(***************************************************************************)
(* The parts of the worker library that do not interact, side by side: a   *)
(* behaviour belongs to one of them, and the variables of the others stay. *)
(***************************************************************************)
EXTENDS Solver, WorkPool, TimedCommand, Github, ResultQueries, Bookkeeper, RepoScan, RepoNotice, Metadata,
        CacheDir, UserIntent, StackManifests, GitOperation, PackageFlow, GolangFlow, TLC

VARIABLE which

Parts == {"versions", "solver", "pool", "command", "github", "queries", "bookkeeper", "names", "scan",
          "notice", "metadata", "cache", "intents", "stacks", "git", "package", "golang"}

vars == <<which, sample, solverVars, poolVars, cmdVars, ghVars, queryVars, bookVars,
          named, scanVars, ntVars, mercatorInput, cacheVars, intentVars, stackVars, goVars, pfVars, gfVars>>

(* Solver: versions 1, 1.0, 1.rc, 1.beta and 2.                            *)
MCLower(n) == IF n = "A" THEN "a" ELSE n
MCListings == {<< >>, <<<<2>>>>, <<<<1>>, <<1, 0>>>>, <<<<1, 0>>, <<1>>>>,
                   <<<<1, -2>>, <<1, -3>>>>, <<<<1, -3>>, <<1, -2>>>>, <<<<2>>, <<1>>>>, <<<<1>>, <<2>>>>}
Raw(n, r) == [name |-> n, range |-> r, link |-> ""]
Link(n, r, k) == [name |-> n, range |-> r, link |-> k]
V1 == <<1>>
V2 == <<2>>
NpmRaws == {Raw("a", << >>), Raw("a", <<Star>>), Raw("b", <<<<Con("", <<1, 0>>)>>, <<Con(">", V1)>>>>),
            Raw("b", <<<<Con(">=", V1), Con("<", V2)>>>>), Link("l", << >>, "version"), Link("m", << >>, "bare")}
PypiRaws == {Raw("a", << >>), Raw("A", <<Con("~=", <<1, 0>>)>>), Raw("b", <<Con(">", <<1, -2>>), Con("!=", V2)>>),
             Raw("b", <<Con("==*", V1), Con("<=", V2)>>), Raw("a", <<Con("===", V1)>>),
             Raw("b", <<Con("==*", <<1, -2>>)>>), Link("m", << >>, "bare")}
Range(o, l, c, h, e) == [open |-> o, lo |-> l, comma |-> c, hi |-> h, close |-> e]
NugetRaws == {Raw("a", Range("", V1, FALSE, << >>, "")), Raw("b", Range("[", V1, TRUE, V2, ")")),
              Raw("a", Range("[", V1, TRUE, << >>, ")")), Raw("b", Range("(", V1, FALSE, << >>, ")")),
              Raw("a", Range("[", V1, TRUE, << >>, "]")), Link("l", Range("", <<-4>>, FALSE, << >>, ""), "version")}
GoRaws == {Raw("a", << >>), Raw("b", V1), Link("m", << >>, "bare")}
MavenRaws == {Raw("a", <<Con("", V1)>>), Raw("b", <<Con(">=", V1)>>), Link("m", <<Con("", V1)>>, "bare")}
UpTo2(S) == {<<x>> : x \in S} \cup {<<x, y>> : x \in S, y \in S}
MCManifests == [eco : {"npm"}, raws : UpTo2(NpmRaws)] \cup [eco : {"pypi"}, raws : UpTo2(PypiRaws)]
               \cup [eco : {"nuget"}, raws : UpTo2(NugetRaws)] \cup [eco : {"go"}, raws : UpTo2(GoRaws)]
               \cup [eco : {"maven"}, raws : UpTo2(MavenRaws)]
MCSamples == {<<0>>, V1, <<1, 0>>, <<1, -2>>, <<1, -3>>, <<1, 0, 1>>, <<0, 2>>, <<1, 1>>, V2}

(* Bookkeeper: two users with a component in common.                       *)
Request(i, a, u, s, w) == [id |-> i, api |-> a, user |-> u, manifests |-> s, whole |-> w]
MCRequests == {Request(1, "stack_analyses", "u1", <<{"c1", "None"}, {"c1", "c2"}>>, TRUE),
               Request(2, "stack_analyses", "u2", <<{"c1"}>>, TRUE),
               Request(3, "stack_analyses", "None", <<{"c2"}>>, TRUE),
               Request(4, "component_analyses_post", "u1", << >>, TRUE),
               Request(5, "component_analyses_post", "u1", << >>, FALSE)}

(* Names: the parts of coordinates and names, the forms of URLs.           *)
MCCoordinates == UNION {[1..n -> {"", "x", "jar"}] : n \in 1..5}
MCPackageNames == {[backend |-> "pypi", chars |-> s] : s \in UNION {[1..n -> {"a", "A", "-", "."}] : n \in 1..4}}
                  \cup {[backend |-> "go", chars |-> s] : s \in UNION {[1..n -> {"a", "%", "2F", "25"}] : n \in 1..3}}
MCUrls == [scheme : {"", "http", "https", "git", "git+https", "ssh", "git+ssh"}, user : {"", "git", "bob"},
           host : {"github.com", "www.github.com", "gitlab.com"}, sep : {"/", ":"},
           path : {<<"foo">>, <<"foo", "bar">>, <<"foo", "bar", "baz">>}]

(* RepoScan: a project of two modules, lock files, pinned dependencies.    *)
Repo(f, l, e) == [files |-> f, listed |-> l, entries |-> e]
Root == <<"g", "root", "jar", "1">>
Core == <<"g", "core", "jar", "1">>
Lib  == <<"o", "lib", "jar", "2", "compile">>
Locks(n, v, d, b) == [name |-> n, version |-> v, dev |-> d, below |-> b]
Leaf(n, v, d) == [name |-> n, version |-> v, dev |-> d]
GoEntry(n, s) == [name |-> n, version |-> "1", subs |-> s]
MCRepos == {Repo({"pom.xml", "package.json"}, TRUE, {<<Root>>, <<Core>>, <<Root, Lib>>, <<Root, Append(Core, "compile")>>, <<Core, Lib>>}),
            Repo({"package-lock.json", "package.json"}, TRUE,
                 {Locks("a", <<"1">>, FALSE, {Leaf("b", <<"git", "x">>, TRUE)}), Locks("c", <<"1">>, TRUE, {Leaf("d", <<"1">>, FALSE)})}),
            Repo({"Gopkg.lock"}, FALSE, {}), Repo({"npm-shrinkwrap.json"}, TRUE, {}),
            Repo({"package.json"}, TRUE, {<<"a", "1">>, <<"b", "2">>}), Repo({"requirements.txt", "glide.lock"}, TRUE, {<<"a>=1">>}),
            Repo({"glide.lock", "Gopkg.lock"}, TRUE, {GoEntry("n", {}), GoEntry("m", {".", "s"})}), Repo({}, TRUE, {})}

(* RepoNotice: a version with two CVEs, one without, one not in the graph; *)
(* one that is lost, one taken for another and one that becomes unknown.   *)
Text(name)  == <<"maven", ":">> \o name \o <<":", "1">>
InGraphAs(name) == [eco |-> "maven", name |-> name, ver |-> "1"]
NameA == <<"g", ":", "a">>
NameB == <<"g", ":", "b">>
NameCore == <<"org.apache.", "maven", ":", "core">>
NamePlugin == <<"g", ":", "foo-", "maven">>
MCCves == InGraphAs(NameA) :> {"c1", "c2"} @@ InGraphAs(NameB) :> {} @@ InGraphAs(NameCore) :> {"c1"}
          @@ InGraphAs(<<"g", ":", "foo-", "1">>) :> {"c3"}
DepX == Text(<<"g", ":", "1", "x">>)
Resolved(d, a) == [direct |-> d, all |-> d \cup a]
MCResolutions == {Resolved({Text(NameA)}, {Text(NameB), DepX}), Resolved({Text(NameB)}, {}), Resolved({DepX}, {Text(NameB)}),
                  Resolved({Text(NameA)}, {Text(NameCore), Text(NamePlugin)})}

(* Metadata: each key with each kind of value, and trees of up to three.   *)
Keys == [n \in DOMAIN KeyMap |->
            UNION {{KeyMap[n][o][i] : i \in DOMAIN KeyMap[n][o]} : o \in DOMAIN KeyMap[n]}
            \cup CASE n = "maven" -> {"scm_url", "dependencies"}
                   [] n = "nuget" -> {"LicenseUrl", "DependencyGroups", "Tags", "Authors", "Version", "Repository"}
                   [] n = "pypi"  -> {"license", "author", "keywords", "download-url", "extensions"}
                   [] n = "requirements" -> {"dependencies"}
                   [] n = "glide" -> {"owners", "license", "import", "testImport"} [] n = "godeps" -> {"Deps"}
                   [] n = "gofedlib" -> {"deps-main", "deps-packages"} [] OTHER -> {}]
OfWheel == "extensions" :> "dict" @@ "python.details" :> "dict"
OfLock  == "_dependency_tree_lock_file" :> "dict"
ValueKinds == {"None", "str", "list", "dicts", "[]", "dict", "{}", "other"}
MCRawManifests ==
    UNION {{[normalizer |-> n, raw |-> k :> v] : k \in Keys[n], v \in ValueKinds} : n \in DOMAIN Keys}
    \cup {[normalizer |-> "npm", raw |-> p[1] :> v @@ p[2] :> w] :
              p \in {<<"dependencies", "devDependencies">>, <<"license", "licenses">>}, v \in ValueKinds, w \in ValueKinds}
    \cup {[normalizer |-> "pypi", raw |-> "author" :> v @@ "author-email" :> w] : v \in ValueKinds, w \in ValueKinds}
    \cup {[normalizer |-> "pypi", raw |-> k :> v @@ OfWheel] : v \in ValueKinds,
              k \in Keys["pypi"] \cup {"contacts", "project_urls", "run_requires", "meta_requires", "python.details"}}
    \cup {[normalizer |-> "glide", raw |-> k :> v @@ OfLock] : k \in Keys["glide"], v \in ValueKinds}
Item(e, d, g) == [eco |-> e, depth |-> d, egg |-> g]
PyItems == {Item("wheel", 2, FALSE), Item("wheel", 3, FALSE), Item("sdist", 1, FALSE), Item("sdist", 1, TRUE),
            Item("sdist", 6, TRUE), Item("sdist", 2, TRUE), Item("requirements", 1, FALSE)}
OtherItems == {Item("npm", 1, FALSE), Item("npm", 2, FALSE), Item("go", 1, FALSE), Item("go", 2, FALSE)}
MCTrees == [eco : {"pypi"}, items : UNION {[1..n -> PyItems] : n \in 0..3}]
           \cup [eco : {"npm", "go", "nuget"}, items : UNION {[1..n -> OtherItems] : n \in 0..3}]

(* CacheDir: a maven package, one of another ecosystem, an odd one.        *)
Stored(m, s, o) == [maven |-> m, stored |-> s, odd |-> o]
MCPackages == {Stored(TRUE, {"tarball", "jar", "pom"}, FALSE), Stored(TRUE, {"tarball"}, FALSE), Stored(FALSE, {"tarball"}, TRUE)}

(* UserIntent: three calls for one component, one of them without a list.  *)
MCComponent == [c \in {"i1", "i2", "i3", "i4"} |-> IF c = "i4" THEN "k2" ELSE "k1"]

(* StackManifests: locks with a package at two places, the Go manifests.   *)
Package(n, b) == [name |-> n, lists |-> b]
StackFile(f, d, k, l) == [filename |-> f, found |-> TRUE, deps |-> d, key |-> k, lock |-> l]
MCLocks == {<<1>> :> Package("a", TRUE),
            <<1>> :> Package("a", TRUE) @@ <<1, 1>> :> Package("b", TRUE) @@ <<1, 2>> :> Package("c", TRUE)
                @@ <<2>> :> Package("b", TRUE),
            <<1>> :> Package("a", TRUE) @@ <<1, 1>> :> Package("b", TRUE) @@ <<1, 1, 1>> :> Package("c", TRUE)
                @@ <<2>> :> Package("b", TRUE) @@ <<2, 1>> :> Package("a", TRUE)}
MCStackManifests ==
    {StackFile("npm-shrinkwrap.json", <<<< >>>>, "yes", l) : l \in MCLocks}
    \cup {StackFile("glide.lock", <<<< >>>>, "yes", <<1>> :> Package("a", FALSE)), StackFile("package.json", <<<<"a">>>>, "null", << >>),
          StackFile("npm-shrinkwrap.json", <<<< >>>>, "null", << >>),
          StackFile("pom.xml", <<<<"a", "b">>>>, "no", << >>), StackFile("Godeps.json", <<<<"a">>>>, "no", << >>),
          StackFile("Godeps.json", <<<< >>>>, "no", << >>), StackFile("requirements.txt", << >>, "no", << >>),
          StackFile("requirements.txt", <<<< >>>>, "no", << >>), StackFile("setup.py", <<<<"a">>>>, "no", << >>),
          [StackFile("pom.xml", << >>, "no", << >>) EXCEPT !.found = FALSE]}
MCStacks == UNION {[1..n -> MCStackManifests] : n \in 0..2}

(* GitOperation: two repositories of one name, with and without a scan.    *)
GitRun(u, d, e, s) == [url |-> u, dir |-> d, eco |-> e, scan |-> s]
MCRuns == {GitRun("a/x", "x", "maven", TRUE), GitRun("b/x", "x", "npm", TRUE), GitRun("c/y", "y", "npm", FALSE)}


(* PackageFlow: a flow as others schedule it, forced ones of the API.      *)
PackageArgs(f, s, a) == [force |-> f, sync |-> s, api |-> a]
Plain == PackageArgs(FALSE, FALSE, FALSE)
MCPackageRequests == {Plain, PackageArgs(FALSE, TRUE, TRUE), PackageArgs(TRUE, FALSE, TRUE), PackageArgs(TRUE, TRUE, FALSE)}

Init == /\ which \in Parts
        /\ IF which = "versions" THEN SampleInit ELSE sample = << >>
        /\ SolverInit /\ PoolInit
        /\ CommandInit /\ (which # "command" => cmdApi = "run")
        /\ GithubInit /\ (which # "github" => ghTask = "GithubTask")
        /\ QueryInit /\ (which # "queries" => qLevel = "version")
        /\ BookInit
        /\ IF which = "names" THEN NameInit ELSE named = Named("none", << >>)
        /\ ScanInit /\ (which # "scan" => scanRepo = Repo({}, TRUE, {}))
        /\ NoticeInit /\ (which # "notice" => ntRepo = "r1")
        /\ IF which = "metadata" THEN MetadataInit ELSE mercatorInput = Input("none", << >>)
        /\ CacheInit
        /\ IntentInit
        /\ StackInit /\ (which # "stacks" => smStack = << >>)
        /\ GitInit
        /\ PackageFlowInit /\ (which # "package" => pfGithub /\ pfArgs = [f \in PackageFlows |-> Plain])
        /\ GolangInit /\ (which # "golang" => gfLink)

Still(part, v) == which # part => UNCHANGED v

Next == /\ \/ which = "solver"  /\ SolverNext
           \/ which = "pool"    /\ PoolNext
           \/ which = "command" /\ CommandNext
           \/ which = "github"  /\ GithubNext
           \/ which = "queries" /\ QueryNext
           \/ which = "bookkeeper" /\ BookNext
           \/ which = "scan" /\ ScanNext
           \/ which = "notice" /\ NoticeNext
           \/ which = "cache" /\ CacheNext
           \/ which = "intents" /\ IntentNext
           \/ which = "stacks" /\ StackNext
           \/ which = "git" /\ GitNext
           \/ which = "package" /\ PackageFlowNext
           \/ which = "golang" /\ GolangNext
        /\ UNCHANGED <<which, sample, named, mercatorInput>>
        /\ Still("solver", solverVars) /\ Still("pool", poolVars)
        /\ Still("command", cmdVars)   /\ Still("github", ghVars)
        /\ Still("queries", queryVars) /\ Still("bookkeeper", bookVars)
        /\ Still("scan", scanVars)
        /\ Still("notice", ntVars)
        /\ Still("cache", cacheVars)
        /\ Still("intents", intentVars)
        /\ Still("stacks", stackVars)
        /\ Still("git", goVars)
        /\ Still("package", pfVars)
        /\ Still("golang", gfVars)

(* The fairness of the parts, each asked of its own behaviours only: the   *)
(* threads of a pool run, their targets end and an empty queue times out;  *)
(* the caller of a command and its thread run, although the command itself *)
(* may run for ever; workers run the tasks that are scheduled and          *)
(* dispatchers poll.                                                       *)
Fairness ==
    /\ WF_poolVars(which = "pool" /\ Start) /\ WF_poolVars(which = "pool" /\ JoinThreads)
    /\ WF_poolVars(which = "pool" /\ JoinQueue) /\ WF_poolVars(which = "pool" /\ Return)
    /\ \A w \in Threads : WF_poolVars(which = "pool" /\ Work(w))
    /\ WF_cmdVars(which = "command" /\ ThreadStart) /\ WF_cmdVars(which = "command" /\ (PopenFails \/ Popen))
    /\ WF_cmdVars(which = "command" /\ Communicate) /\ WF_cmdVars(which = "command" /\ KillGroup)
    /\ WF_cmdVars(which = "command" /\ (JoinReturns \/ JoinTimesOut))
    /\ \A f \in PackageFlows : WF_pfVars(which = "package" /\ PackageRun(f))

Spec == Init /\ [][Next]_vars /\ Fairness
=============================================================================
