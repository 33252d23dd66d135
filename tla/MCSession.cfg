CONSTANTS
  s1 = s1
  s2 = s2
  Session = {s1, s2}
  Patience = 1
  Grace1 = 0
  Grace2 = 0
  Ttl = 4
  Busy = 2
  Unstartable = {s2}
  MaxRestarts = 1
SPECIFICATION FairSpec
INVARIANTS
  BusyIsSpared
  RegistryAgrees
PROPERTIES
  TokenExpiry
  OrphansReclaimed
  EveryWatcherEnds
CHECK_DEADLOCK FALSE
