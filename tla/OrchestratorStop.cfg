SPECIFICATION Spec
CONSTANTS
  Drivers = {d1}
  Subtasks <- MCSubtasks
  DependsOn <- MCDependsOn
  RawGroup <- MCRawGroup
  Contracted <- MCContracted
  NoGroup = "none"
  Files = {f1, f2}
  DeclaredScope = {f1}
  DiffLines <- MCDiffLines
  Budget <- MCBudget
  MaxCrashes = 1
  MaxAnswers = 2
PROPERTY StopIsHonoured
