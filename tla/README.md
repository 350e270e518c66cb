# Formal model of fabric8-analytics-worker

TLA+ modules, TLC configurations and TLAPS proofs for the worker of fabric8
analytics. Paths are relative to `src/`. Every definition is translated from the
Python and YAML of this repository. What the worker only uses (Celery, Selinon,
SQS, PostgreSQL, S3) is modelled by how the code calls it and is marked external
in `PROJECT.json`, which also gives the source lines of every definition.

Contents: [the system](#1-the-system), [what is hard](#2-what-is-hard-to-get-right),
[modules](#3-modules-and-how-they-correspond-to-the-code), [runs](#4-runs-bounds-and-fairness),
[disagreements](#5-where-the-code-and-its-comments-disagree), [proofs](#6-what-is-proved),
[limits](#7-what-is-not-covered), [plan](#8-plan).

## 1. The system

A *dispatcher* (Selinon) polls flows described in YAML. A flow is a graph of tasks
and subflows; every task is a Celery message in SQS. A *worker process* (celery
`-P solo --concurrency=1`) takes one message at a time, runs the task and stores its
result in a *storage*: a PostgreSQL table, or an S3 bucket. Flows ingest packages
and package versions: they create the rows, fetch the artifact, run the analyses,
schedule flows for the dependencies, and move the results from PostgreSQL to S3.

| Component | State it keeps | Operations | Talks to | Correct when | Here |
|---|---|---|---|---|---|
| Task execution and result store: `f8a_worker/base.py`, `storages/postgres_base.py`, `postgres.py`, `package_postgres.py` | `worker_results`, one row per task id; the task state in the result backend; the message | `BaseTask.run`, `store`, `store_error`, `get_worker_id_count`, `init_session`, `rollback` | broker, PostgreSQL, Selinon | a result is written once and survives; success means there is a row; no execution without need; every task is reported | `TaskRun`, `ResultOnce` |
| Package flow initialisation: `workers/init_package_flow.py` | `monitored_upstreams` | `execute`, `get_upstream_entry`, `add_or_update_upstream`, `deactivate_upstreams` | PostgreSQL session (autoflush, AUTOCOMMIT) | one active upstream, one row per URL, nothing is analysed twice within `_UPDATE_INTERVAL` | `Upstreams` |
| Package-version flow initialisation: `workers/init_analysis_flow.py`, `models.py`, `object_cache.py` | `packages`, `versions`, `analyses`; `meta.json`, tarball, source jar, `pom.xml` on S3; the key an `EPVCache` has fixed | `execute`, `get_or_create`, `put_source_tarball`, `put_source_jar`, `put_pom_xml`, `has_*` | PostgreSQL, S3, the registry | an analysis has its artifacts; a version is not analysed twice without need | `InitAnalysis`, `InitPromise` |
| Result collectors: `workers/result_collector.py`, `storages/s3_data_base.py`, `s3_data.py`, `s3_package_data.py` | rows or references, one S3 object per task, the base file | `run`, `store_task_result`, `store_base_file_record` | PostgreSQL, S3 | a reference resolves; no result is lost, overwritten or left behind; the base file lists what was collected | `ResultSync` |
| Package-version flows: `dispatcher/flows/bayesianFlow.yml`, `bayesianAnalysisFlow.yml`, `dispatcher/foreach.py`, `workers/finalize.py`, `dependency_snapshot.py`, `monkey_patch.py` | node states, arguments, `recursive_limit`, `analyses.finished_at` | scheduling of tasks and subflows, `iter_dependencies_analysis`, `FinalizeTask`, the check for hung flows | all of the above | recursion stops at the limit; every flow ends; results are collected when complete; every dependency is seen to | `BayesianFlow`, `Ingestion` |
| Result queries: `storages/postgres.py`, `package_postgres.py`, `utils.get_latest_analysis` | none, they read the tables | `get_latest_task_result`, `get_latest_task_entry`, `get_analysis_count`, ... | PostgreSQL | the latest finished result of the version that was asked for | `ResultQueries`; the request tables in `Bookkeeper` |
| Package-level flows: `bayesianPackageFlow.yml` and its Api and Priority variants, `bayesianPackageAnalysisFlow.yml`, `newPackageFlow.yml`, `newPackageAnalysisFlow.yml` | node states, arguments; what S3 and the graph have of a package | scheduling of `InitPackageFlow`, the analysis, the collector, the importer; for golang, tasks that put their results on S3 themselves | InitPackageFlow, PackageResultCollector, importer | the graph follows S3, a package that is considered recent was analysed, every flow ends | `PackageFlow`, `GolangFlow` |
| Selective runs, predicates, tracing: `dispatcher/selective.py`, `predicates.py`, `trace.py` | none | `selective_run_function` and predicates over arguments | result queries | a result is reused only when there is one | `ResultQueries` (the reuse of entries); predicates are guards in the flow modules |
| Iteration over stacks and unknown dependencies: `dispatcher/foreach.py`, `workers/unknown_dep_fetcher.py` | none | `iter_dependencies_stack`, `iter_unknown_dependencies` | results of parents | nothing scheduled twice, nothing left out | `RepoScan`; `iter_dependencies_stack` is used by no flow |
| Worker thread pool: `utils.ThreadPool` | queue, threads | `add_task`, `start`, `join` | `queue.Queue` | every task runs, `join` returns | `WorkPool`, `JobPromise` |
| Timed commands: `utils.TimedCommand` | process, thread, status | `run`, `get_command_output` | child processes | ends in time, kills what it started | `TimedCommand` |
| Dependency resolution: `solver.py` | none | `compare_version`, `Dependency.check`, the solvers | registries | an order on versions, the version chosen satisfies the specification | `Versions`, `Solver` |
| Name and version normalisation: `utils.MavenCoordinates`, `normalize_package_name`, `url2git_repo`, `parse_gh_repo` | none | pure functions | - | idempotent, round trips | `Names`, `Versions` |
| Artifact download and extraction: `object_cache.py`, `process.py` | cache directory of a worker | `get_source_tarball`, `get_extracted_source_tarball`, `wipe` | S3, child processes | a directory that is reported is complete | `CacheDir` (download), `InitAnalysis` (upload) |
| S3 base storage: `storages/s3.py`, `s3_temp_artifacts.py`, `s3_artifacts.py` | objects | put, get, `store_error` | boto3 | as used above | by its users |
| Other S3 storages: `s3_userintent.py`, `s3_crowd_source_tags.py`, `s3_manual_tagging.py`, ... | one object per key | put, get; `S3UserIntent` reads, extends and writes | boto3 | no intent is lost | `UserIntent`, `GolangFlow`; the others put or get one object |
| Graph import and access: `workers/graph_importer.py`, `new_graph_importer.py`, `graphutils.py` | none here, the graph is a service | what an import selects and sends; queries | services outside | an import names what was uploaded; edges and counts are right under failures | `ResultQueries`, `PackageFlow`, `GolangFlow`, `RepoNotice`; the text of queries is not modelled |
| Stack analysis tasks: `graphaggregator.py`, `manifests.py`, `bookkeeper.py`, `report_generation.py` | request tables, usage counters in the graph | aggregate manifests, keep the books | PostgreSQL, graph, solvers | a stack is stored whole or not at all; a user counts once | `StackManifests`, `Solver`, `Bookkeeper` |
| Repository scan tasks: `git_operations.py`, `repo_dependency_finder.py`, `dependency_parser.py`, `user_notifier.py`, `osio*Flow.yml` | directory of a clone, one HTTP session, edges of a repository | clone, list dependencies, send requests, draw edges, notify | git, gemini server, graph | a scan sees its own clone; every dependency is known or its loss has a cause; the count is that of the build | `GitOperation`, `RepoScan`, `RepoNotice` |
| Metadata, digest, license, GitHub tasks: `mercator.py`, `githuber.py`, `new_githuber.py`, ... | none | files or HTTP answers to a result, with nested retries | child processes, GitHub | a failure does not pass for a value; the manifest is that of the package | `Github`, `Metadata`; the content of digests, licenses and READMEs is any outcome, in `TaskRun` |
| Metadata normalisation: `data_normalizer/` | none | pure conversions | - | keys and dependency lists survive | `Metadata` |
| Result schemas: `schemas.py`, `workers/schemas/` | none | declarations | - | - | not modelled, validation is in `TaskRun` |
| Start-up and configuration: `start.py`, `setup_celery.py`, `celery_settings.py`, `defaults.py` | none | reads the environment | - | - | the settings are assumptions of the models |
| Database migrations: `alembic/` | schema | generated | - | - | not modelled |

### How the modelled parts interact

```
 dispatcher  --- schedules ---> BayesianFlow ---- InitAnalysisFlow ---> InitAnalysis
     |                             |  ^   \------ ResultCollector ----> ResultSync
     |                  dependencies  | limit - 1                          ^
     |                             \--/                                    | rows
     +--- package flow ----> InitPackageFlow ---> Upstreams                |
                                                                           |
 every task of every flow: message -> BaseTask.run -> storage  ========= TaskRun
```

Beside these, `PackageFlow` has the flows of one package from `InitPackageFlow` to the
graph and `GolangFlow` their counterpart for golang; the other modules are parts of the
worker library that run inside one task or one request (sections 3.2, 3.3).

The modules meet at shared state. The row that `TaskRun` writes once is the row
that `ResultSync` replaces by a reference; the `analyses` row that `InitAnalysis`
inserts is `doc` in `BayesianFlow` and what `Analysed` counts. Each module abstracts
the others to what it can see: `ResultSync` fills the rows of an analysis in one
step (`Analyse`), `BayesianFlow` splits `InitAnalysisFlow` into the count and the
insert (`Count`, `Insert`), which is where two flows can interleave. That this split
is right is checked and proved: `InitPromise` says what a flow relies on of its
initialisation, the statements of `InitAnalysis` implement it, and so do the two steps
of `BayesianFlow`, which in turn implements `Ingestion`, what recursive ingestion
promises to whoever asked for it.

## 2. What is hard to get right

`PROJECT.json` lists each hazard at its line. The kinds that matter here:

* **At-least-once delivery.** SQS repeats messages, hands a message to another
  worker after `visibility_timeout` while the first still works on it, and
  `task_acks_late` brings back the message of a worker that died. The code answers
  with a lookup of the task id, a unique `worker_id` and swallowed
  `IntegrityError`s; the lookup and the insert are not atomic. Collectors override
  `run` and have no lookup at all.
* **AUTOCOMMIT and autoflush.** `PostgresBase.connect` gives each statement a
  transaction of its own. A `rollback` undoes nothing that was flushed, a flush of
  several rows can stop in the middle, and a query can flush as a side effect.
* **Read, decide, write without a lock**: `monitored_upstreams`, `get_or_create`,
  the count of analyses, the base file, user intents.
* **Two stores that must agree**: `meta.json` and the tarball it names; a row and
  the object it refers to; the base file and the rows.
* **Recursion over a graph with loops**, where many flows race to the same version.
* **One process, many tasks.** A worker keeps state between its tasks: the cache
  directory, clones named by the last part of a URL, the headers of one HTTP session
  whose threads outlive the task that set them.
* **Threads and child processes**: a pool whose threads leave when the queue is empty
  for a while or a target raises; a command with descendants that share the process group
  of the worker.
* **Retries inside retries**, with values of several rounds that may be mixed.
* **Pure code that decides**: an order on versions that is not total on words, names
  that are normalised again at every step, manifests in the order of a directory walk.
* **Failures that are swallowed**: an unreadable `meta.json`, a source jar, an
  exception in a foreach function, a dependency that does not resolve.

## 3. Modules and how they correspond to the code

Actions are named after the code they model. Steps between two statements, requests
or messages are separate; what runs in memory between them is one step. `Variant`
definitions next to an action state a plausible bug of that code: no
specification uses them, they show that each property can fail.

A property that a run names is often a conjunction of parts with names of their own
(`UpstreamsUnique == AtMostOneActive /\ OneRowPerUrl`); each part has its own comment in
the module.

### 3.1 The core: what is stored and who schedules it

#### TaskRun (and ResultOnce)

One execution of `BaseTask.run` per message, over `Workers` and `Tasks`.

| Model | Code |
|---|---|
| `row` | `worker_results` of a `worker_id`: nothing, a result, a result with `status: error`, or the audit of an exception |
| `queue`, `lease`, `redelivered` | copies of the message in SQS; whether the broker hides the one a worker holds |
| `verdict` | the state Celery saves |
| `Deliver`, `DuplicateDelivery`, `VisibilityTimeout` | the broker (external) |
| `CheckWorkerId` | `get_worker_id_count` and `TaskAlreadyExistsError`; the query may fail |
| `ExecuteReturns`, `ExecuteRaises` | `execute` with schema validation, whatever the task does; a result that breaks the schema raises outside the `try` |
| `AuditError` | `run`'s own `store_error` before it raises again |
| `Store`, `StoreError`, `SkipStoreError` | Selinon calls the storage (external); `PostgresBase.store` and `store_error` with the swallowed `IntegrityError`, other errors raised, init tasks exempt |
| `Report`, `Crash` | late acknowledgement; a dead worker's message comes back |

`execs`, `overlapped` and `interrupted` are history. `ResultOnce` is the abstract
promise: a row per task, written once, never an error for an init task, success
only with a row. `ImplementsResultOnce` is the refinement, by `row` and `verdict`
under their own names.

Two details are left out. `store` swallows every `IntegrityError`, also a violated
foreign key; rows exist before tasks run here, so only the unique `worker_id` is
modelled. The state that a duplicate reports is `FAILURE` (its
`TaskAlreadyExistsError`), which can overwrite `SUCCESS`: the model does that, and
no property claims otherwise.

#### Upstreams

The `monitored_upstreams` rows of one package and any number of `InitPackageFlow`
runs for it. `LoadActive` is `get_upstream_entry` (with any URL: valid, invalid or
none), `Autoflush` the flush that the next query causes, `FindOlder` the query of
`add_or_update_upstream`, `Skip` the decision on `_UPDATE_INTERVAL` with its
rollback, `Schedule` the final commit, `Fail` an error or the death of the worker
in between. `dirty`, `entry`, `reactivate` and `seen` are the session: what is
changed and not yet written, and the value that was read. `clock` stands for
`utcnow()`; `updated_at` of new and reused rows is the time of the commit.

#### InitAnalysis

`InitAnalysisFlow.execute` for one version, statement by statement: two
`get_or_create` (`QueryRow`, `InsertRow`, with the handler of the lost race as it
is), `CountAnalyses`, the artifact (`HasMeta`, `HasTarball`, `Fetch`, `PutMeta`,
`PutTarball`), for maven `SourceJar` and `PomXml`, and `InsertAnalysis`. `key` is
the object key that an `EPVCache` constructs once. `Rename` is the registry that
publishes another file for the version; `Fail` ends a flow at any point.

`KeepsInitPromise` is the refinement of `InitPromise`, whose `at` is `Outcome`: a flow
is `ready` until it has counted, then `counted` or `skipped`, `analysed` once its row is
there, `failed` wherever it ended otherwise. The rows of packages and versions, the
artifacts and the registry are stutters there: they must not add, lose or double an
analysis.

#### ResultSync

`ResultCollector` (`PackageLevel = FALSE`) and `PackageResultCollector`
(`TRUE`) for the analyses of one version: `Load` (rows that are references or
without a result are left out), `Upload` per result, `Commit` and `UpdateRow` per
row of the flush, `Record` (`to_dict`), `ReadBase`, `WriteBase`. Messages are
copied (`Copy`) and come back after a crash (`Crash`); `Fail` is an exception,
after which nothing retries.

#### BayesianFlow

A flow per `bayesianFlow` message. The dispatcher's edges are guards: `metadata` and
`digests` start with the analysis, `dependency_snapshot` after `metadata` when
`recursive_limit > 0`, then the flows of the dependencies that
`iter_dependencies_analysis` returns, without waiting for them; `bayesianAnalysisFlow`
ends when no task runs and none will be scheduled (`Settled`), with failure when one
failed; `FinalizeTask` or its fallback, then the collector. `Choose` and `Spawn` are
separate since each dependency is scheduled on its own. `CheckHungTask` is the patch
that stops old flows. Left out: the package-level flow that starts after `metadata`
(it is `PackageFlow`) and the graph import, for which no flow waits.

`FollowsDependencies` is the refinement of `Ingestion`: what has an analysis, with the
limit it had (`Ingested`), grows by the root or by a dependency of something that is
there, with one step less; everything else the flows do is a stutter.
`InitialisesOnce` is the refinement of `InitPromise`, by `InitOutcome`.

### 3.2 The other flows

**PackageFlow.** Overlapping flows of one package: `InitPackageFlow` (skip, go on, insert
the analysis), the GitHub task of `bayesianPackageAnalysisFlow`, `FinalizeTask` or its
fallback, `PackageResultCollector`, `PackageGraphImporterTask`. What the three variants
of the flow differ in (`force`, the forced sync of the API, whether the importer is
waited for) are arguments (`pfArgs`). `pfS3` and `pfGraph` name the flow whose result is
on S3 and in the graph; `pfRecent` is the upstream's age, which `UpstreamAges` ends.
`PackageFlowSound` relates the three.

**GolangFlow.** `newPackageFlow` and its subflow, node by node. The tasks upload and only
log an upload that fails (`gfLogged`), the importers are told names. `GolangImportsRead`
says what can be named and not be there, and the other way round.

### 3.3 The library

| Module | Code | Actions or operators | Abstraction |
|---|---|---|---|
| `Versions` | `solver.py`: `compare_version`, `Dependency.check`, the parsers of npm, PyPI, NuGet, Maven, Go | operators named as in the code; a nuget range is a record of its brackets | a version is the sequence of its parts; words are negative numbers, as they compare |
| `Positions` | list comprehensions with a condition, first and last of a list, in `solver.py`, `process.py`, `utils.py`, `mercator.py` | `FirstOf`, `LastOf`, `Nth`, `Picked` | none; extended by `Versions`, `Names` and `Metadata` |
| `Solver` (extends `Versions`) | `Solver.solve`, the release fetchers, `get_ecosystem_solver`; `dependency_snapshot.py`, the aggregator's solve | `AggregatorStart/Solve/Done`, `SnapshotStart/Resolve/Done`; `ResolveDependency` answers links, then asks the solvers of Go and Maven (`ResolveGiven`) or a parser and `Solver.solve` (`ResolveParsed`) | the registry replies with any listing of a small set, in any order, with what raises a `ValueError` (`RaisedValue`) or another exception (`Raised`); a dependency on a repository or a URL is a link, with a name before it or alone |
| `WorkPool`, `JobPromise` | `utils.ThreadPool` | `AddTask`, `Start`, `Get`, `GetTimesOut`, `TargetReturns`, `TargetRaises`, `JoinThreads`, `JoinQueue`, `Return` | the order of the queue is left open. `JobPromise` is the abstract specification: every job given is run once before the pool is left; `Promise == INSTANCE JobPromise WITH ...` maps queued and taken jobs to owed ones |
| `TimedCommand` | `TimedCommand.run`, `get_command_output` | the caller (`JoinReturns`, `JoinTimesOut`, `KillGroup`, `CheckOutput...`), its thread (`Popen`, `PopenFails`, `Communicate`), the command (`CommandForks`, `CommandExits`, `DescendantExits`, external) | output is whole, partial or the mark of none |
| `Github` | `githuber.py`, `new_githuber.py`, `golangcvepredictor.py`, the retries in `utils.py` | one action per reply: `RequestReply`, `RequestError`, `NoContributors`, `QueryReply`, `QueryError`, `IssueReply` | a reply is ok, empty, none or an error; numbers of attempts are constants (2 in place of 3 and 4) |
| `ResultQueries` | the queries of `postgres.py` and `package_postgres.py`, `selective.py`, the choice of the importers | `BeginAnalysis` (plain or selective), `StoreRow`, `FinishAnalysis`, `CollectRow` change the tables; the queries are operators (`LatestRows`, `get_latest_task_entry`, `get_finished_task_names`, ...) | a row is empty, a result, an error, or a reference to one; writers take one step (they are modelled in 3.1) |
| `Bookkeeper` | `bookkeeper.py`, `store_api_requests_post` | `StoreUserNode`, `StoreUserNodeFails`: a query per manifest of a stack; `StoreApiRequest`, `StoreApiRequestFails`; deliveries of a message overlap | a graph query is one transaction, its answer may be lost; an error of the database may come before or after the insert |
| `Names` | `MavenCoordinates`, `normalize_package_name`, `url2git_repo`, `parse_gh_repo` | operators named as in the code | the parts between colons, slashes and separators |
| `RepoScan` (extends `Names`) | `dependency_parser.py`, `unknown_dep_fetcher.py`, `iter_unknown_dependencies`, `report_generation.py` | `Extract`, `FetchAndStart`, `Report` | one repository, manifests as sets of entries; which manifest counts is the code's order of tests |
| `RepoNotice` | `repo_dependency_finder.py`, `user_notifier.py`, the edges of `graphutils.py` | `ResolveRepo`, `DrawAndReport`, `AskForVersions`, `Notify` | a build is its direct and transitive dependencies; a version has a set of CVEs; a coordinate is cut into tokens at colons and wherever its ecosystem or version occurs, which is what `replace` takes out (`NameOfText`) |
| `Metadata` | `mercator.py`, `data_normalizer/`, `schemas/metadata.py` | `normalize` (key map and transforms per ecosystem), `_merge_python_items`, `Selected`, `FitsSchema` | a value is its kind (none, string, list, objects, empty, ...); what a conversion cannot take ends in "raises" |
| `CacheDir` | `object_cache.py`, download side; `BaseTask.run`'s wipe | `BeginTask`, `GetFile`, `BeginExtract`, `Extracted`, `ExtractFails`, `ExtractRaises`, `EndTask`, `WorkerDies` | a tree is absent, partial or whole |
| `UserIntent` | `s3_userintent.py` over `s3.py` | `ObjectExists`, `RetrieveDict`, `StoreDict`, `RequestFails` | a call's intents are its identifier |
| `StackManifests` | `graphaggregator.py`, `manifests.py` | a step per manifest: `NoMetadata`, `Breaks`, `TakeResolved`, `SolveExternal`, `SolverRaises`; `StoreStack`; `_flatten` package by package: `BeginFlatten`, `CollectDep`, `FlattenReturns` | a lock maps the path of each package to its name; a running call of `_flatten` is its position in the list it was given (`smCalls`) |
| `GitOperation` | `git_operations.py`, the requests of `utils.gemini` and backbone | `BeginRun`, `Clone`, `Generate`, `SetHeader`, `SendCall`, `CallBackbone`, `ReturnEarly`, `GitWorkerDies` | one worker, its directory and its session |

`LibraryMC` extends them all and runs them as a disjoint sum: `which` picks the part whose
variables move, those of all others stay at one initial value. They share no state in
the code either: each is what happens inside one task, request or worker. (Where parts do
meet, one module has both: `RepoScan` uses the names of `Names`, `Solver` the order of
`Versions`.) One sum in place of many runs has no effect on what is explored: its
behaviours are those of the parts.

The pure parts (`Versions`, `Names`, `Metadata`) are operators over inputs that `Init`
enumerates; their properties compare them with reference definitions (a total preorder,
PEP 440 and PEP 503 as the code quotes them, the schema) or with themselves on the
reversed or normalised input.

## 4. Runs, bounds and fairness

| Run | Instance | What it shows |
|---|---|---|
| `task_run` (`TaskRun.cfg`, 1.4 M states) | an ordinary and an init task, two workers, one extra copy per message, one crash | `ImplementsResultOnce`: the refinement, that is a row is final and a success has one. `ResultNotLost`: what flows read of their parents stays. `ReexecutionHasCause`: a second execution needs an overlap or a run that ended without a row; in particular a crash between insert and acknowledgement causes none. `EveryTaskReported`: liveness. |
| `task_run_overlap` (`TaskRunOverlap.cfg`) | the same, with symmetry | violated: `SwallowedStoreHasResult`, see section 5 |
| `upstreams` (`Upstreams.cfg`, 1.3 M states) | two processes, two valid URLs, an invalid one and none, three row ids, `Interval` 2, clock up to 3, four flows | without overlap `UpstreamsUnique` (one active upstream, one row per URL) and `RecentIsSkipped`, wherever a flow fails. With overlap duplicates appear: `ActiveBoundedByFlows` bounds them and `ScheduledUrlWins` says that the next flow that runs alone removes them. |
| `upstreams_rollback` (`UpstreamsRollback.cfg`) | one flow at a time | violated: `SkipDiscardsChanges` |
| `init_analysis` (`InitAnalysis.cfg`, 313 k states) | three flows of one maven version, forced or not, two file names, one rename | `ArtifactsAreThere`: `AnalysisHasArtifacts`, `ArtifactReadable` (a `meta.json` without its tarball is repaired); `OneUnforcedAnalysis`; `KeepsInitPromise`: the refinement |
| `init_analysis_race` (`InitAnalysisRace.cfg`) | two flows | violated: `LoserGetsRow` |
| `init_analysis_rename` (`InitAnalysisRename.cfg`) | two flows, one rename | violated: `MetaNamesTarball` |
| `result_sync` (`ResultSync.cfg`, 2.8 M states) | two analyses of a version, two tasks, two collectors, two repeats (copies or crashes) | `ReferenceResolves`, `S3HoldsResults`, `NothingLeftBehind` in every interleaving; `BaseListsCollected` without overlap |
| `result_sync_package` (`ResultSyncPackage.cfg`) | the same at package level, no repeats | violated: `BaseListsCollected` |
| `flow` (`BayesianFlow.cfg`, 33 k states) | versions a -> b, b -> a and c, c -> d, limit 2, four flows, one failure, a dependency named in a form that is not normalised | `KeepsPromises`: the refinements `FollowsDependencies` (d, three steps away, gets no analysis) and `InitialisesOnce`; `CollectAfterTasks`, `DependenciesCovered`, `EveryFlowEnds` although a and b depend on each other |
| `flow_failure` (`BayesianFlowFailure.cfg`) | limit 1 | violated: `FailurePropagates` |
| `library` (`library.cfg`, 152 k states) | every part of sections 3.2 and 3.3, see below | one property or two per part, see below |

What `library` checks, part by part:

| Part | Instance | Property and its parts |
|---|---|---|
| versions | all triples of nine versions (0, 1, 1.0, 1.rc, 1.beta, 1.0.1, 0.2, 1.1, 2) | `VersionsAgree`: `CompareIsOrder`, `CompatibleIsPrefixMatch`, `RestrictKeepsMeaning` |
| solver | manifests of one or two dependencies in five ecosystems, links among them; eight listings, in both orders where the order can matter; a fetch that fails in two ways | `SolvedRight`: `SolvedIsBest`, `SolvedWhateverTheOrder`, `AggregatorAnswersAll`, `SnapshotComplete` |
| pool | three jobs, two threads, added before or after the start, any target raising | `PoolKeepsPromise` (refinement), `HangHasCause`, `PoolReturns` (liveness) |
| command | two descendants, the time-out at any moment | `CallIsContained`: `NoPartialOutput`, `NothingLeftBehind`; `RunEnds` (liveness) |
| github | attempts and rounds 2, three tries for issues | `GithubResultIsRead`: `FailureIsNotMissing`, `CountsOfOneRound`, `RequestsBounded`, `StoredIssueHasComments` |
| queries | three analyses over two versions and none, plain or selective | `QueriesExplained`: `LatestIsNewest`, `UnfinishedHidesFinished`, `FailureOnlyIfUploadedLater`, `ReusedIsOfVersion`, `ImportedWasUploaded` |
| bookkeeper | five requests, stacks of one and two manifests of two users with a component in common, one without a user, one with a column that is NULL; each delivered twice, any query or insert failing | `UsageIsExact`: `UsageCountsUsers`, `RequestsAreRecorded`, `UsesLostOnlyByFailure` |
| names | coordinates of up to five parts, PyPI names of four and Go names of three characters, 378 URLs | `NamesAgree`: `CoordinatesSurvive`, `NormalNameIsStable`, `ClonedIsTheNamedRepo` |
| scan | eight repositories: modules that need each other, locks two deep, several manifests at once, none | `ScanIsComplete`: `NoModuleIsADependency`, `ProductionOnly`, `UnknownIsIngested` |
| notice | two repositories, four versions with CVEs or none, four builds with a name that is lost, one that is taken for another version and one that is not in the graph; two notices | `NoticeIsOfTheBuild`: `CountIsOfTheBuild`, `EdgesOfOneScan` |
| metadata | each key with each of eight kinds, also in a wheel and beside a lock file, pairs where two keys meet; trees of up to three manifests | `MetadataIsOfPackage`: `DocumentedManifestFits`, `LicenseIsNotLost`, `MergedWhateverTheOrder`, `NothingFromBelow` |
| cache | three packages (maven, one without a jar, one whose tarball has no known suffix), three tasks, any request failing | `CacheIsSound`: `IncompleteHasCause`, `NothingOutlivesItsTask`, `RaisedIsRetried` |
| intents | four calls, three of one component, one without a list | `IntentsSurvive`: `IntentsAreKept`, `LastIntentIsThere` |
| stacks | up to two of thirteen manifests, three of them locks: of one package, with one package at two places, with lists in lists | `StackIsWhole`: `EveryNodeIsResolved`, `StoredIsWhole` |
| git | three runs over two repositories of one name and a third | `RunsAreApart`: `FilesAreOfOwnRun`, `ScanNamesItsRepo`, `CloneLeftHasCause` |
| package | two flows with the arguments of each variant, one failure | `PackageFlowSound`: `GraphFollowsS3`, `DoneHasImported`, `RecentHasFlow`; `EveryPackageFlowEnds` (liveness) |
| golang | two flows, two losses | `GolangImportsRead`: `ImportReadsUpload`, `MetadataLeftHasCause` |

`CHECK_DEADLOCK FALSE` throughout: each instance is finite work that ends (all tasks
reported, the bounds on flows, runs, clock or failures used up), and a pool whose threads
are all lost does hang in the code, which is what `HangHasCause` is about.

**Why the bounds are enough.** The conflicts are between two actors: two workers with
the same message, two flows of a package or a version, two collectors. Two of them
interleave in every way; the third flow of `InitAnalysis` is the one that comes after
a pair has raced and failed, which is what a repair is about. One extra copy per
message together with a crash gives up to three runs of a task in sequence and two at
once. In `Upstreams` three rows are one more than the URLs, so that a duplicate has
room; clock 3 with interval 2 has times that are recent, just not recent and old; four
flows can deactivate, insert, reactivate and skip. In `ResultSync` two analyses share
the objects and the base file, and two repeats allow a crash in a run that was itself a
repeat. In `BayesianFlow` the limit 2 takes the loop back to a and leaves d out; four
flows are exactly as many as the instance can schedule, so `MaxFlows` never stops one
(with a smaller number `EveryFlowEnds` would fail, and with a larger one there are no
more states). In the library, three jobs for two threads leave one in the queue when both
threads are lost; three analyses have one that is older, one newer and one unfinished;
three tasks on a cache directory are one that dies, one that finds what it left and one
after that; three runs of `GitOperation` are two of one directory and one that changes the
header between them; versions of three parts are the shortest for which the comparison of
unequal lengths meets zero, a number and a word. Numbers of attempts matter only as the
last one and those before it, so 2 stands for 3 and 4. The theorems of section 6 hold
without any of these numbers.

**Bounds in the guards**: `MaxRedeliveries`, `MaxCrashes`, `MaxClock`, `MaxRuns`,
`Ids`, `MaxRenames`, `MaxRepeats`, `MaxFlows`, `MaxFailures`; in the library
`MaxDescendants`, `MaxDeliveries`, `MaxNotices`, `MaxTasks`, `MaxRuns` (of
`GitOperation`), `MaxTrouble` and `MaxGoLosses`. Each counts something the
environment does (copies, crashes, ticks, renames, failures) or starts (runs, flows).

**Fairness.** `TaskRun!FairSpec`: a worker that is alive takes messages and goes on
with the task it has (weak fairness of `Deliver` to that worker and of `Run`). Celery
workers poll and execute one task at a time; crashes, copies and timeouts have no
fairness and are bounded, as an environment that kills every run for ever refutes any
liveness. A process that died is taken to be restarted (its supervisor). With
`task_acks_late` the message of a dead worker returns, without it
`EveryTaskReported` fails, as its mutant shows. `BayesianFlow!FairSpec`: weak fairness
of the steps of each flow, since dispatchers poll until a flow ends and workers run
what is scheduled; nothing forces a task to succeed, a foreach to raise or a flow to be
stopped. `LibraryMC!Fairness` asks the same of a `PackageRun`; of the threads of a pool
and its caller, which the operating system schedules, including that a target ends and
that the timeout on an empty queue expires; and of the caller and the thread of a timed
command, but not of the command or its descendants, which may run for ever: `RunEnds` is
about just those. Each condition is guarded by `which`, so that it says nothing of the
behaviours of other parts. The other modules state safety only.

## 5. Where the code and its comments disagree

Each is a run in which TLC finds a property violated that a comment of the code states.

1. `storages/postgres_base.py:127` (`task_run_overlap`). `store` swallows the
   `IntegrityError` because "the result has been already stored before the error
   occurred". The row can be the *error* of an overlapping run, and the result of the
   run that succeeded is dropped. `ResultNotLost` says that overlap is the only way.
2. `workers/init_package_flow.py:154` (`upstreams_rollback`). `rollback` is to
   "discard changes like updates", but the query before has flushed the deactivation
   of the old upstream, under AUTOCOMMIT for good: the package is left without an
   active upstream until the next analysis.
3. `models.py:84` (`init_analysis_race`). `get_or_create` handles the lost race by a
   call without the required session: a `TypeError`.
4. `object_cache.py:112` (`init_analysis_rename`). The object key comes from the old
   `meta.json` and survives the new one: the tarball is stored under one name while
   `meta.json` has another.
5. `storages/s3_data_base.py:20` (`result_sync_package`). `to_dict` of a
   `PackageAnalysis` has no `analyses`: the base file of a package never lists a task.
6. `workers/finalize.py:31` (`flow_failure`). `nodes.yml` says that
   `FinalizeTaskError` raises to propagate the failure to parent flows; the raise is
   commented out.

More of that kind was met while modelling. There is no run for these; the model does what
the code does, and the properties of section 4 are stated so that they hold:

* **A failing archive command is not noticed.** `Archive.extract` runs `unzip` and `tar`
  through `get_command_output` in its graceful form, so nothing is raised, the directory
  is not removed (the comment at `object_cache.py:176` counts on that) and the partial
  tree is used: `cdFailed` in `CacheDir`.
* **The time-out of `TimedCommand` kills the worker.** The command is started in the
  process group of the caller and `killpg` is sent to that group: "worker killed".
* **Reports for given versions always break.** `generate_report` gets a list where it
  calls `.items()`: `AskForVersions` of `RepoNotice` fails as soon as there is something
  to report. Without CVEs the user is sent a count of zero.
* **Go metadata**: a `glide.yaml` without lock file raises: the key of the lock is there and
  `None`, which the default at `data_normalizer/go.py:43` does not replace. `_flatten` of the aggregator raises for each `glide.lock` (its packages have
  no `dependencies`) and each `Godeps.json` with a dependency.
* **Manifests of other ecosystems**: `run_mercator` drops them for Maven, npm and Go, but
  reads all the outermost ones of a NuGet package (`mercator.py:100`).
* **npm**: `_transform_dependencies` returns at the first section that is a list; locks
  deeper than two levels are cut in a scan; a version with a colon (a URL) is split as if
  it were two parts; a lock without dependencies fails `_strict_assert`.
* **Maven scans**: a module that another module needs is taken for a package.
* **Names in a notification**: `repo_dependency_finder.py:76` and `:86` take every `maven:` and
  every `:version` out of a coordinate. `maven:org.apache.maven:core:1` is looked up as
  `org.apache.core`: a version with such a name gets no edge, or the edge of another one, and the
  user is not told of its CVEs. `CountIsOfTheBuild` says what is left: no CVE of a version
  whose name is read back is missed.
* **Names**: unquoting a Go name is not idempotent; `url2git_repo` is documented to force
  HTTPS and keeps `git://` and `ssh://`; `parse_gh_repo` cuts longer paths silently.
* **Queries**: `get_latest_task_entry` of `BayesianPostgres` joins `Analysis` to `Package`
  without a foreign key and always fails, which `selective_run_function` hides;
  `NULL` comes first in a descending order, so an unfinished analysis is the latest.
* **User intents**: a call without `intent` drops the list that is stored.
* **Bookkeeping**: the parent `GraphAggregatorTask` that it reads is no node of
  `componentApiFlow`; the comment on a repeated request at `postgres.py:242` expects an
  `IntegrityError` that no unique column raises: it is a column that may not be NULL, and then
  the request is lost in silence. After another error (`postgres.py:246`) the task raises, and
  under AUTOCOMMIT the row may be there.
* **GitOperation**: the requests to the backbone are sent by threads that read the header
  of the session when they run, and may carry the URL of a later run; a run that returns
  early leaves its clone.
* **iter_dependencies_stack** reads `AggregatingMercatorTask`, which no flow has.
* **Schemas**: `added_in` compares versions as strings (`v10` before `v2`).
* **Golang flows**: the importer is told to read objects whose upload was only logged as
  failed, and a GitHub task that fails keeps uploaded metadata out of the graph.

## 6. What is proved

The `*Proofs` modules hold theorems that TLAPS checks for all values of the constants
that satisfy the module's `ASSUME`: any sets of tasks, workers, flows, URLs, analyses, jobs,
threads, users, calls, repositories, any dependency graph, names, versions, manifests and
listings of any length, any bounds. Every invariant, action property and refinement that a
passing run checks is proved.

The assumptions say that the counters are naturals, that "nothing" values are distinct from
real ones, and in `Upstreams`, `InitAnalysis`, `WorkPool` and `Bookkeeper` (its users), which count, that
sets are finite; nothing about sizes. Those of the library say what its inputs are:

| Assumption | Says | Because |
|---|---|---|
| `SampleAssumption` | a version is a sequence of integers | `Versions` takes words for negative numbers |
| `SolverAssumption` | a listing is a sequence of such versions; a manifest has one of the five ecosystems, its dependencies are in a list, each a range or a link; a version has a part, in a listing and in a maven range | `get_ecosystem_solver` raises for others; the maven solver is given what Mercator read of a `pom.xml`; no version is an empty string |
| `NamesAssumption` | coordinates, names and paths are sequences; a URL has its five parts | these are the strings the functions split |
| `GithubAssumption` | each limit of retries is at least 1 | the decorators and loops of the tasks have 3 or 4 |
| `RepoAssumption` | a module that another needs is listed in the tree of `mvn dependency:tree`; versions in a lock are sequences | the tree has a line per node |
| `NoticeAssumption` | a build and the CVEs of a version are finite; a coordinate begins with its ecosystem and a colon and ends with a colon and its version | they are counted; `parse_maven_dependency_resolve` puts coordinates together in that form |
| `MetadataAssumption` | a manifest is for one of the normalizers; a file has a kind and a depth, only an sdist has an `.egg-info` | the dispatch of `normalize`, the output of Mercator |
| `StackAssumption` | a lock is a finite tree: what lists a package is there, the packages of a list are numbered from 1; those of a `glide.lock` have no key `dependencies`, a `Godeps.json` has no lock | it is JSON that was read; the normalizers of `data_normalizer/` give the Go manifests no deeper lock |

The type invariant `TypeOK` of each module of section 3.1 is a theorem too (`TypeCorrect`),
and is not checked by a run again. Where there are steps the argument is an inductive
invariant, as none of the properties is inductive by itself.

* **TaskRunProofs.** `RunInv` adds to the properties: two workers with one task are
  recorded as an overlap (`OverlapRecorded`); a task that never overlapped has a row
  that agrees with where its only worker is (`RowFollowsRun`); a task that was executed
  and has no row is still being run, unless a run of it was interrupted
  (`ExecutionPending`). From it follow `SuccessAlwaysHasRow`, `NoResultLost`,
  `NoCauselessReexecution`; `RowsAreFinal` and `Refinement` (the initial states and
  each step of `TaskRun` map to those of `ResultOnce`, or to a stutter) need also the
  type of `out`, that an init task never records an error. `NoTaskIsForgotten` is what
  `EveryTaskReported` rests on: of a task that was not reported the broker has a visible
  copy or one that comes back with its worker (`MessageIsKept`), whoever crashes.
* **UpstreamsProofs.** `FlowInv`: while no two flows have overlapped, what the session
  of the running flow remembers agrees with the table at each step (`SessionFits`), a
  scheduled URL has a row that is at least as new (`ScheduledHasRow`), and
  `AtMostOneActive` and `OneRowPerUrl` hold. `SessionFits` carries the argument: between
  `lookup` and `decide` no row is active and none has the URL unless it was found.
  `ActiveAlwaysBounded` needs another one, for flows that do overlap: each active row is
  charged to a flow that laid it or may still lay one (`Owned`, `Laid`, `MayOwn`), no two
  rows to the same flow, and the bound follows from the cardinality of an injection.
  `ScheduledUrlAlwaysWins` is an action property that holds after any overlaps: `AloneInv`
  follows one flow that runs alone. What its commit leaves active (`Staying`) is nothing
  until it has looked up the URL, and rows with that URL after it (`LoadedAlone`, `Decided`).
* **InitAnalysisProofs.** `ArtifactInv`: where a flow is tells which rows and objects
  exist (`Progress`), a tarball follows a `meta.json` (`MetaFirst`), and before a rename
  only one name is around (`OneName`). `AloneInv`: a flow that is alone is the only one
  running, and past its count it has seen no analysis, unless forced. `RowEndsFlow` (the
  row of a flow is its last statement) makes `Outcome` well defined, and
  `InitAlwaysKeepsPromise` maps each statement to a step of `InitPromise` or a stutter.
* **ResultSyncProofs.** `UploadedFirst`: what a session will write as a reference has
  been uploaded, and what it will upload is a result. `RowsStay` and `BaseInv`: rows are
  never emptied, so what a single collector has recorded and read is still what it
  writes. The theorem about the base file assumes `~PackageLevel`, since at package level
  it is false (section 5). `LeftToSync`: a result that is still in its row has a message
  or a collector that will replace it, or a collector failed.
* **FlowProofs.** *Versions*: `TaskInv` says how the tasks of a flow follow each other.
  `OriginInv`: a flow that was scheduled has the root or a dependency of a version that
  has its analysis, with one step more to go. From it `KeepsIngestionPromise`, the
  refinement of `Ingestion`; and `Ingestion` alone never leads farther than the limit
  (`WaysStayShort`: what is spent of the limit is the length of a path to the version;
  `WithinStep`, `WithinMonotone`, `WithinRoot` are the lemmas on paths), so
  `StaysWithinLimit` follows for every graph and everything else that implements it.
  `AlwaysInitialisesOnce` is the refinement of `InitPromise`, from `DocFollowsFlow`.
  `CoverInv`: while a flow spawns, each resolved dependency is chosen, analysed or a child;
  `CoveredStays` says that this is never undone, and `IngestionIsComplete` what it comes to:
  when all flows have ended well, nothing that was resolved lacks its analysis. The two
  halves of `EveryFlowEnds` that can be proved are `EveryStepAdvances` (each step moves a
  flow or a task forward and none back, so flows of a loop cannot keep each other going) and
  `FlowsAreNeverStuck` (a flow that has not ended can go on, unless `MaxFlows` are used).
  *Packages*: no result, upload or import is ahead of the node that makes it
  (`NothingTooEarly`), a flow past its analysis has no task running (`TasksAreOver`), what
  is imported was collected or on S3 and was asked for (`ImportIsCollected`,
  `ImportIsAsked`), a flow waits only for an import that runs
  (`PackageFlowsNeverStuck`). *Golang*: an object follows the node that uploads it
  (`UploadsFollowNodes`), and a flow that ended has called both importers
  (`EndedHasImported`).
* **WorkPoolProofs.** `PoolInv`: the counter of the queue is the number of jobs that are
  queued or taken (`CountIsExact`), a taken job is held by one thread (`TakenIsHeld`,
  `HeldOnce`), a joined pool has lost its threads (`JoinedAreGone`, `ReturnedOwesNil`), and
  while jobs are queued the threads that left since the last one was added are no more than
  the targets that raised (`LostToFailure`), which is `HangAlwaysHasCause`. With it
  `PoolAlwaysKeepsPromise` maps each step to one of `JobPromise` or a stutter, and a caller
  that has joined its threads waits for queued jobs only (`PoolHangsOnlyOnQueue`). `CallInv`
  says who reads the output of a timed command: the thread (`ThreadReads`) or the caller
  (`CallerReads`). `GithubInv` bounds the requests of a task by the cost of the stages it
  has passed and what the present one has used (`AskedSoFar`), for any limits; the stages
  that a task does not survive without have a value or were not reached (`ReadOrUnset`), and
  the counts that are there are of the round that runs (`CountsOfOneRound`).
* **SharedStateProofs.** Five components that share a store between runs. *Cache
  directory*: what is in memory is of the running task, what is on disk of it or of one
  that died (`MemoryIsOfTask`, `OnlyOfTask`), and a partial tree is in use
  (`PartialIsInUse`). *Git*: the directory and the waiting requests are those of the
  current run (`DirectoryIsOwn`, `WaitingIsOwn`), what else is there was left
  (`OthersLeft`). *Bookkeeping*: the three parts of `UsageIsExact` are inductive with the
  types (`BookInv`); a query adds one user to the cardinality of each component that was
  without the edge, and none to another. *User intents*: what a call will write begins with its own intents
  (`ListIsOwnFirst`), a call that has seen every write has all intents (`SeenIsAll`), and
  there is an object once there was a write (`ObjectFollowsWrites`). *Queries*: a row is a
  reference once it was uploaded, and uploads have times of their own (`UploadIsReference`,
  `UploadsDiffer`), so that what an object holds is well defined (`LastUpload`, which stands
  in for an induction on the uploads); `QueriesAlwaysExplained` follows.
* **AlgorithmProofs.** The code that computes. Inputs have any length, and the induction that
  a loop calls for is replaced by the least position at which something would be wrong
  (`LeastNatural`) or by a count.
  - *Lists.* In an order that ranks a finite set each rank from 1 to n is taken by one element
    (`RanksAreNumbers`, by cardinalities), so that sorting and picking are well defined and do
    what they say (`SortedIsSorted`, `PickedIsThere`, `NthIsOrdered`).
  - *Versions.* `CompareByParts` reduces `compare_version` to the first part that differs, from
    which the order follows; `~=` is a lower bound and a prefix (`CompatibleBounds`), and the
    most restricting bounds exclude what all of them exclude (`RestrictMeans`).
  - *Solvers.* `SolverInv`: each answer is the best release of some listing
    or a link or given version (`AnswersAreBest`), the aggregator has answered the names it is done with, each once
    (`AggregatorInv`), a snapshot has one answer for each dependency it is done with, and only a link that stands
    alone has none in it (`SnapshotInv`). Two listings with the same releases have the same best one.
  - *Names.* One pass leaves nothing that a second one would change: no capital, no two dashes
    in a row, no escape unless a percent sign was escaped; coordinates by their number of parts.
  - *Scan and notice.* `ScanInv`: each dependency is in the graph, was not answered, or has its
    own flow, or the task raised (`Accounted`). `NoticeInv`: what waits to be sent counts the
    CVEs of the build that was drawn; `CvesOfEdges` counts edges by a bijection with pairs of
    a dependency and a CVE, as none is both direct and transitive. A name without an
    ambiguous part is read back (`ClearIsMeant`, by the positions that `replace` leaves,
    `PickedBetween`), so its edge leads to the version it means.
  - *Metadata.* One lemma per normalizer says that its result fits the schema (`PackageJsonFits`,
    `PomFits`, `NuspecFits`, `PkgInfoFits`, `RequirementsFit`, `GlideFits`, `GoFits`), and
    `UnlockedGlideRaises` that the one exception is one; `DocumentedFits` puts them
    together. The loop that
    merges Python manifests is taken as the course of its variable (`LoopIsDefined`); it
    ends with the best item (`ChosenIsBest`), whatever their order (`ChosenWhateverTheOrder`).
  - *Stacks.* `_flatten` recurses over a lock of any depth; no induction over trees is needed,
    as the positions of its running calls say which packages they have still to come to
    (`Pending`). `StackInv`: the entries so far count all others (`Counted`), in number and
    under each name. When a list has no next package nothing below it is pending
    (`NextIsThere`), so a call returns with all it was given.

Only model-checked:

* liveness, which is beyond TLAPS: `EveryTaskReported`, `EveryFlowEnds`, `PoolReturns`,
  `RunEnds`, `EveryPackageFlowEnds`. What they rest on besides fairness is proved, as far as
  it is a safety property: `NoTaskIsForgotten`, `EveryStepAdvances` and `FlowsAreNeverStuck`,
  `HangAlwaysHasCause` and `PoolHangsOnlyOnQueue`, `PackageFlowsNeverStuck`. That what
  `CanGoOn` describes is enabled, and that it is taken, stays with TLC;
* the violated properties of section 5.

## 7. What is not covered

* Celery, Selinon, SQS, PostgreSQL and S3 are what their use in the code shows; S3 is
  taken to be read-after-write consistent.
* `TaskRun` is about tasks stored in PostgreSQL. Tasks with an S3 result have no lookup
  of the task id, and `store_error` of those storages is not modelled.
* `Upstreams` starts after the checks of ecosystem and visibility; its packages exist.
* The expiry of the temporary bucket (`InitAnalysis`), the retry of the boto3 resource,
  listings and versions of objects; storages that put or get one object under a fixed key.
* `ResultSync` leaves out `synced2graph`: it is false from the start and nothing in the
  repository sets it.
* `BayesianFlow` leaves out the package-level flow it starts and the graph import. No
  property says that a dependency gets the limit of its shortest path: a version that is
  reached by a long way first keeps the small limit, and its own dependencies may not be
  followed although the root is near.
* What a task computes is any result that its schema admits, or an exception. The content
  of digests, licenses, READMEs and libraries.io replies is left open for that reason.
* The graph: which queries are sent, and when, is modelled, their Gremlin text and the
  services behind them are not.
* Statistics (`get_analysis_count` aside) and `get_analysis_by_id` read and decide nothing.
* `Solver`: a link to a repository of a PyPI package names no egg. `Metadata`: the normalizers of
  Gradle and `setup.py`, whose files are kept only when they are in the tree of a NuGet package.
* Result schemas are declarations; tracing logs; start-up reads the environment; migrations
  run once, outside the workers. None of them keeps state that a task could find changed.

## 8. Plan

Done, in this order: `ResultOnce`, `TaskRun`, `Upstreams`, `InitAnalysis`, `ResultSync`,
`BayesianFlow`, each with an `MC` and a `Proofs` module (what loses or corrupts results,
then who schedules what), `Ingestion` and `InitPromise` as what the flows of versions promise; `WorkPool`, `TimedCommand`, `ResultQueries`, `PackageFlow`,
`GolangFlow`, `CacheDir`, `UserIntent`, `GitOperation`, `Bookkeeper` with their proofs; the
pure code and the remaining tasks in the rest of the library, and `AlgorithmProofs` for it.

| Next | What | Property |
|---|---|---|
| 1 | `TaskRun` for storages without a lookup (S3, requests of stack analyses) | how often a repeated message leaves a second result |
| 2 | `BayesianFlow` with `PackageFlow` and `ResultQueries` composed | a selective run of a version during its ordinary one |
| 3 | `BaseListsCollected` for overlapping collectors | which task can be missing from the base file, and for how long |
