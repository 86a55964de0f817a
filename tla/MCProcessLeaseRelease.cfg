SPECIFICATION LeaseSpec
CONSTANTS
  p1 = p1
  p2 = p2
  p3 = p3
  p4 = p4
  Starters = {p1, p2, p3}
  OwnerFile = OwnerFile
  Nobody = Nobody
  Pids = {1, 2, 3}
  PidOf <- PidOfStarter
  Attempts = 2
CHECK_DEADLOCK FALSE
INVARIANTS
  ReleasedLeaseIsFree
