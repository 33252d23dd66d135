SPECIFICATION FairSpec
CONSTANTS
  n1 = n1
  n2 = n2
  h1 = h1
  h2 = h2
  Node = {n1, n2}
  DependsOn <- Chain
  Request = {h1, h2}
  UserStates = {"planning"}
  Overlap = FALSE
  MaxRevisions = 2
  MaxApprovals = 1
  MaxFaults = 1
INVARIANTS
  LiveIsRegistered
  
  
PROPERTIES
  FailureEndsSession
CHECK_DEADLOCK FALSE
