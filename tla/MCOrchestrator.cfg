SPECIFICATION FairSpec
CONSTANTS
  Drivers = {d1}
  Subtasks <- MCSubtasks
  DependsOn <- MCDependsOn
  RawGroup <- MCRawGroup
  Contracted <- MCContracted
  NoGroup = "none"
  Files = {f1, f2}
  DeclaredScope = {f1}
  DiffLines <- MCDiffLines
  Budget <- MCBudget
  MaxCrashes = 1
  MaxAnswers = 3
INVARIANTS
  WorkIsSanctioned
  AsksInTime
PROPERTIES
  StepsAreSafe
  ImplementsLifecycle
  DriveTerminates
