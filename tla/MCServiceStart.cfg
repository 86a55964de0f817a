SPECIFICATION ServiceFairSpec
CONSTANTS
  p1 = p1
  p2 = p2
  p3 = p3
  Starters = {p1, p2, p3}
  OwnerFile = OwnerFile
  Nobody = Nobody
  Pids = {1, 2, 3}
  PidOf <- PidOfDaemon
  Attempts = 2
INVARIANTS
  ServiceTypeOK
  StaleSocketsAreProvable
  ServiceIsReachable
PROPERTIES
  ServiceRestarts
CHECK_DEADLOCK FALSE
