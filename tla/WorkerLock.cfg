SPECIFICATION Spec
CONSTANTS
  Workers = {w1, w2}
  Stories = {s1}
  Level = "L1"
  HighRisk = FALSE
  Watch = TRUE
  NoWorker = NoWorker
  NoStory = NoStory
  MaxFaults <- NoFaults
  MaxKinds = 4
  MaxReplies = 2
  MaxBack = 0
  MaxAsks = 3
  MaxLoops = 1
INVARIANTS
  OneInstance
