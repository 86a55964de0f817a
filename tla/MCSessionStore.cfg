SPECIFICATION StoreSpec
CONSTANTS
  a1 = a1
  a2 = a2
  pin1 = pin1
  pin2 = pin2
  key1 = key1
  key2 = key2
  Refs = {a1, a2}
  Policy = Policy
  Pins = {pin1, pin2}
  Keyfiles = {key1}
  MachineId = MachineId
INVARIANTS
  StoreTypeOK
  RetainedCredentialsOpen
  ChangeIsComplete
  AuthenticationIsRequired
CHECK_DEADLOCK FALSE
