SPECIFICATION StoreSpec
CONSTANTS
  a1 = a1
  a2 = a2
  pin1 = pin1
  pin2 = pin2
  key1 = key1
  key2 = key2
  Refs = {a1}
  Policy = Policy
  Pins = {pin1}
  Keyfiles = {key1, key2}
  MachineId = MachineId
PROPERTIES
  ExportAddsASlot
CHECK_DEADLOCK FALSE
