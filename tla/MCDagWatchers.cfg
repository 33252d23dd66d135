SPECIFICATION Spec
CONSTANTS
  a = a
  b = b
  c = c
  d = d
  DependsOn <- Fork
  MaxRetries <- NoRetry
  Conditional = {b}
  MaxAgentCalls = 1
  HasDagTimeout = TRUE
  HasStallTimeout = TRUE
  Cancellable = TRUE
  Watcher = {}
  MaxFaults = 0
  MaxRedeliveries = 0
  Targets <- NoBranch
  Node = {a, b}
INVARIANTS
  CancelSettles
PROPERTIES
  TerminalIsFinal
CHECK_DEADLOCK FALSE
