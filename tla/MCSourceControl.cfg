SPECIFICATION Spec
CONSTANTS
  x1 = x1
  x2 = x2
  Threads = {x1, x2}
  Asked <- MCAsked
  Life = 2
  Margin = 1
  MaxTime = 1
  MaxRequests = 2
  MaxTokens = 2
  MaxPulls = 1
  MaxUninstalls = 1
INVARIANTS
  RevokedTokensStayOut
  OpenPrAnswersExact
PROPERTY RequestsAnswered
CHECK_DEADLOCK FALSE
