CONSTANTS
  p1 = p1
  q1 = q1
  r1 = r1
  Request = {p1, q1}
  Response = {r1}
  Addressed = {p1, r1}
  Denials = {{q1}, {r1}}
  MaxDeliver = 2
  MaxPending = 2
  MaxTracked = 1
  MaxRetry = 1
  Capacity = 3
  MaxFaults = 2
  MaxLosses = 1
SPECIFICATION FairSpec
INVARIANTS
  TypeOK
  NothingQueuedIsLost
  HandedOverOnce
  RecordsAreReal
PROPERTIES
  WatchEnds
  
CHECK_DEADLOCK FALSE
