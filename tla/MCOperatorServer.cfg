SPECIFICATION OperatorSpec
CONSTANTS
  c1 = c1
  c2 = c2
  Conns = {c1, c2}
  Slow = {c2}
  Scenarios <- MCScenarios
  MaxQueued = 2
  MaxLoginAttempts = 2
  MaxLogins = 2
CHECK_DEADLOCK FALSE
INVARIANTS
  OperatorTypeOK
  OnlyTheCurrentCredential
  LoginsAreOwned
  SavedLoginsAreClosed
  DrainCoversMutations
PROPERTIES
  GuessesAreThrottled
  SerialOperationsEnd
  ShutdownEnds
