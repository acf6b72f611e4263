SPECIFICATION ServicesSpec
CONSTANTS
  Clients = {c1, c2}
  Tenants = {t1, t2}
  Runs = {r1}
  Traces = {x1}
  Pointers = {p1}
  Nodes = {n1}
  AppendReasons = {"retry"}
  MaxVersion = 5
  NoRun = NoRun
  Null = Null

  Files = {"code.py", "test.py", "conf"}
  PyFiles = {"code.py", "test.py"}
  TestsIn <- MCTestsIn
  Known = {"t2"}
  Integration = {"t1"}
  StorySize = "S"
  Runners = {"two", "seven", "bare"}
  Changes <- MCChanges
  WarningWindow = 2
  InFlight = {1, 3}
  BoardTenants = {"acme", "other"}
  RunTenant = "acme"
  Pollers = {"p", "q"}
  MaxPolls = 2
  MaxRowVersion = 6
  FewVersions = 5
  MaxNodes = 2
  MaxCount = 4

  Callers = {"c1", "c2"}
  Requests <- MCAsked
  Configs <- MCConfigs
  FirstIssues <- MCFirstIssues
  Workflow <- MCWorkflow
  Window = 1
  MaxIssues = 5
  MaxOps = 2
  TrackerOps = 3
  MaxFaults = 1
  MaxEdits = 1
  MaxTime = 2

  Managers = {a, b}
  Versions = {v1, v2}
  Checkouts <- MCCheckouts
  ModuleVersions = {"m1"}
  Identifiers = {"i1", "i2"}
  Bucket <- MCBucket
  Routers <- MCRouters
  MaxReleaseOps = 3
  MaxCrashes = 1
  MaxTroubles = 1
  MaxModuleEdits = 1
SYMMETRY Symmetry
INVARIANTS
  IInv
  QuestionsOutliveRaces DrainFitsWindow VerdictsAreSound BoardIsTrue
  AnswersAreTrue NoDuplicateUnlessRaced DispatchesAreOptedIn
  RollbacksReturn ReleasesAreGated
PROPERTIES
  WritesFromCurrentRow
  AttemptsAppendOnly
  RunsOnlyAdvance
CHECK_DEADLOCK FALSE
