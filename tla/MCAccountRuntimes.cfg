SPECIFICATION AccountFairSpec
CONSTANTS
  Refs = {r1}
  MaxRetirements = 4
INVARIANTS
  AccountTypeOK
  ExclusiveOwnership
PROPERTIES
  ImplementsOneOwner
  EveryPromiseSettles
CHECK_DEADLOCK FALSE
