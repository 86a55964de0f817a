SPECIFICATION DaemonFairSpec
CONSTANTS
  e1 = e1
  e2 = e2
  r1 = r1
  r2 = r2
  NoRef = NoRef
  Refs = {r1}
  Endpoints = {e1, e2}
  Calls = {c1, c2}
  Policies <- Withdrawal
  MaxRevisions = 2
  MaxRetirements = 2
  MaxBatches = 3
PROPERTIES
  WaitsEnd
  UsesAccountRuntimes
CHECK_DEADLOCK FALSE
