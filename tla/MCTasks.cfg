SPECIFICATION FairSpec
CONSTANTS
  a = a
  b = b
  c = c
  ag1 = ag1
  ag2 = ag2
  TaskId = {a, b, c}
  AgentOf <- SharedAgent
  Priority <- SomePriority
  Limit = 2
  SeenCap = 9
  AnyTimeRelease = FALSE
  MaxSubmits = 3
  MaxRedeliveries = 1
  MaxFaults = 0
  MaxCrashes = 0
INVARIANTS
  OneLiveSubmission
  NothingIsLost
PROPERTIES
  DroppedOnlyIfServed
  QueuedIsLaunched
CHECK_DEADLOCK FALSE
