SPECIFICATION AgentsSpec
CONSTANTS
  Plan <- MCPlan
  Group <- MCGroup
  DependsOn <- MCDependsOn
  Reach <- MCReach
  StorySize = "S"
  WallClockSeconds <- MCWallClockSeconds
  SecondsPerTurn = 15
  FallbackTurns = 2
  MaxBatches = 3
  MaxFaults = 1
  Vendors <- MCVendors
  NModels = 2
  NRegions = 2
  MaxRetries = 2
  MaxBatch = 2
  MaxCalls = 4
  Calls = {c1}
  Agents = {"implementer", "reviewer"}
  Permitted <- MCPermitted
  Registered = {"run", "search"}
  Requests <- MCRequests
  Hooks <- MCHooks
  MaxConns = 2
  MaxFailures = 1
INVARIANTS
  FailoverIsThorough
  
  FailedBatchLeavesNothing
  NothingLeftRunning
  ToolCallsAreTrue
PROPERTY AgentCallsEnd
CHECK_DEADLOCK FALSE
