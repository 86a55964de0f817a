SPECIFICATION CallsSpec
CONSTANTS
  e1 = e1
  e2 = e2
  c1 = c1
  c2 = c2
  c3 = c3
  c4 = c4
  p1 = p1
  p2 = p2
  p3 = p3
  k1 = k1
  k2 = k2
  Self = self
  NoKey = none
  Snapshot = snapshot
  Endpoints = {e1, e2}
  Calls = {c1, c2, c3, c4}
  Callers = {c1, c2, c3, c4}
  Loans <- MCLoans
  Scenes <- MCScenes
  Dialogs <- MCDialogs
  Named <- MCNamed
  Forums <- MCForums
  Users <- MCUsers
  Folders <- MCFolders
  MaxFanout = 2
  Buckets <- MCBuckets
  Capacity <- MCCapacity
  Minute = 4
  LongWait = 2
  Threshold = 2
  StrikeWindow = 4
  Cooldown = 4
  MaxInFlight = 2
  MaxHandles = 1
  MaxKeys = 1
  HandleTtl = 2
  MaxGenerations = 2
  MaxClock = 5
CHECK_DEADLOCK FALSE
INVARIANTS
  CallsTypeOK
  OnlyDeclaredAccess
  OwnershipEnds
  QuotaHolds
PROPERTIES
  RetriesAreNotResent
  WorkEnds
