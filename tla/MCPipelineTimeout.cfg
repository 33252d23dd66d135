SPECIFICATION PipeSpec
CONSTANTS
  a = a
  b = b
  ag = ag
  Node = {a, b}
  DependsOn <- Chain
  MaxRetries <- RetryA
  Targets <- NoBranch
  Conditional = {}
  MaxAgentCalls = 3
  HasDagTimeout = TRUE
  HasStallTimeout = FALSE
  Cancellable = TRUE
  Watcher = {}
  MaxFaults = 0
  MaxRedeliveries = 0
  AgentOf <- SameAgent
  Limit = 1
INVARIANTS
  OutstandingIsReal

  
CHECK_DEADLOCK FALSE
