SPECIFICATION PipeSpec
CONSTANTS
  a = a
  b = b
  ag = ag
  Node = {a, b}
  DependsOn <- Independent
  MaxRetries <- NoRetry
  Targets <- NoBranch
  Conditional = {}
  MaxAgentCalls = 2
  HasDagTimeout = FALSE
  HasStallTimeout = FALSE
  Cancellable = FALSE
  Watcher = {}
  MaxFaults = 1
  MaxRedeliveries = 1
  AgentOf <- OwnAgent
  Limit = 1
INVARIANTS
  
  
  AgentsWithinLimit
CHECK_DEADLOCK FALSE
