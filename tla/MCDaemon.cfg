SPECIFICATION DaemonSpec
CONSTANTS
  e1 = e1
  e2 = e2
  r1 = r1
  r2 = r2
  NoRef = NoRef
  Refs = {r1, r2}
  Endpoints = {e1, e2}
  Calls = {c1}
  Policies <- Relocation
  MaxRevisions = 3
  MaxRetirements = 2
  MaxBatches = 4
INVARIANTS
  DaemonTypeOK
  CachedContextsAreEnforced
  AcknowledgedPolicyGoverns
  BindingsOwnLiveStacks
  StacksAreStored
  LeaseOutlivesOwnership
CHECK_DEADLOCK FALSE
