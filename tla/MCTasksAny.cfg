SPECIFICATION Spec
CONSTANTS
  a = a
  b = b
  c = c
  ag1 = ag1
  ag2 = ag2
  TaskId = {a, b}
  AgentOf <- SharedAgent
  Priority <- SomePriority
  Limit = 2
  SeenCap = 1
  AnyTimeRelease = TRUE
  MaxSubmits = 2
  MaxRedeliveries = 1
  MaxFaults = 1
  MaxCrashes = 1
INVARIANTS
  PermitsConserved
CHECK_DEADLOCK FALSE
