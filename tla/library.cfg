SPECIFICATION Spec
CHECK_DEADLOCK FALSE
CONSTANTS
  Samples <- MCSamples
  Lower <- MCLower
  Listings <- MCListings
  Manifests <- MCManifests
  Jobs = {j1, j2, j3}
  Threads = {w1, w2}
  MaxDescendants = 2
  Attempts = 2
  QueryAttempts = 2
  Rounds = 2
  IssueTries = 3
  Docs = {1, 2, 3}
  Versions = {v1, v2}
  NoVersionId = none
  Users = {"u1", "u2"}
  Components = {"c1", "c2"}
  Requests <- MCRequests
  MaxDeliveries = 2
  Coordinates <- MCCoordinates
  PackageNames <- MCPackageNames
  Urls <- MCUrls
  Repos <- MCRepos
  NoticeRepos = {"r1", "r2"}
  CveIds <- MCCves
  Resolutions <- MCResolutions
  MaxNotices = 2
  RawManifests <- MCRawManifests
  Trees <- MCTrees
  Packages <- MCPackages
  MaxTasks = 3
  Calls = {"i1", "i2", "i3", "i4"}
  Component <- MCComponent
  Bare = {"i3"}
  Stacks <- MCStacks
  Runs <- MCRuns
  MaxRuns = 3
  PackageFlows = {1, 2}
  PackageRequests <- MCPackageRequests
  MaxTrouble = 1
  GoFlows = {1, 2}
  MaxGoLosses = 2
INVARIANTS VersionsAgree SolvedRight
INVARIANTS HangHasCause CallIsContained GithubResultIsRead
INVARIANTS QueriesExplained UsageIsExact NamesAgree
INVARIANTS ScanIsComplete NoticeIsOfTheBuild MetadataIsOfPackage
INVARIANTS CacheIsSound IntentsSurvive StackIsWhole RunsAreApart
INVARIANTS PackageFlowSound GolangImportsRead
PROPERTIES PoolKeepsPromise PoolReturns RunEnds EveryPackageFlowEnds
