SPECIFICATION FairSpec
CONSTANTS
  Workers = {w1}
  Stories = {s1}
  Level = "L1"
  HighRisk = FALSE
  Watch = TRUE
  NoWorker = NoWorker
  NoStory = NoStory
  MaxFaults <- Everything
  MaxKinds = 3
  MaxReplies = 2
  MaxBack = 1
  MaxAsks = 3
  MaxLoops = 1
INVARIANTS
  FilesMatchRuns
  RepliesDecideTheirQuestion
PROPERTY RepliesAreTaken
