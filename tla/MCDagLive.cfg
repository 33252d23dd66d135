SPECIFICATION FairSpec
CONSTANTS
  a = a
  b = b
  c = c
  d = d
  DependsOn <- ForkBeside
  MaxRetries <- RetryAD
  Conditional = {}
  MaxAgentCalls = 5
  HasDagTimeout = FALSE
  HasStallTimeout = FALSE
  Cancellable = FALSE
  Watcher = {}
  MaxFaults = 0
  MaxRedeliveries = 1
  Targets <- BranchAtA
  Node = {a, b, c, d}
INVARIANTS
  OneBranchRuns
  NoDoubleExecution
PROPERTIES
  EventuallyFinalized
CHECK_DEADLOCK FALSE
