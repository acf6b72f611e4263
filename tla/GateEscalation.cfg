SPECIFICATION BothSpec
CONSTANTS
  plan = plan
  change = change
  dev = dev
  lead = lead
  boss = boss
  f1 = f1
  f2 = f2
  Threads = {x, y}
  Gates = {plan, change}
  People = {dev, lead, boss}
  KindOf <- MCKindOf
  TriggeredBy <- MCTriggeredBy
  Assignees <- MCAssignees
  Backup = boss
  Sla <- MCSla
  Files = {f1, f2}
  Owners <- MCOwners
  NoOne = NoOne
  NoGate = NoGate
  FirstDay = 4
  MaxDay = 7
  MaxDecisions = 2
  Paths = {"a", "b", "c", "x"}
  SortedPaths <- MCSortedPaths
  Ignored = {"x"}
  Module <- MCModule
  Content <- MCContent
  Texts <- MCTexts
  First <- MCFirst
  NoFile = "none"
  MaxCommits = 3
  MaxEdits = 1
  MaxFaults = 1
INVARIANT EscalatedNeedsBackup
