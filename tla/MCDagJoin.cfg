SPECIFICATION Spec
CONSTANTS
  a = a
  b = b
  c = c
  d = d
  DependsOn <- Join
  MaxRetries <- NoRetry
  Conditional = {c}
  MaxAgentCalls = 2
  HasDagTimeout = FALSE
  HasStallTimeout = FALSE
  Cancellable = FALSE
  Watcher = {w1, w2}
  MaxFaults = 1
  MaxRedeliveries = 1
  Targets <- NoBranch
  Node = {a, b, c, d}
INVARIANTS
  DispatchedInOrder
  DagCompleteOnce
  BudgetRespected
  FailureReachesDependents
PROPERTIES
  ImplementsLifecycle
  NoDispatchAfterComplete
CHECK_DEADLOCK FALSE
