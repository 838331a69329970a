SPECIFICATION StagesSpec
CONSTANTS
  s1 = s1
  s2 = s2
  p1 = p1
  p2 = p2
  sensor_01 = sensor_01
  actuator_01 = actuator_01
  NoOne = NoOne
  Sids <- TwoSids
  Devices <- MCDevices
  Identities <- MCDevices
  TokenBefore = "old"
  MaxCommands = 4
  Processes <- TwoProcesses
  MaxStarts = 5
SYMMETRY StageSymmetry
INVARIANTS OneLiveSession LockoutNeedsARace NoGhostKeys KeysInPlace OnePsk
PROPERTIES FieldKeysKept
CHECK_DEADLOCK FALSE
