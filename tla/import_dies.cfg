SPECIFICATION ProvisionSpec
CONSTANTS
  sensor_01 = sensor_01
  operator_01 = operator_01
  Identities <- TwoIdentities
  TokenBefore = "none"
  MaxCommands = 2
SYMMETRY Symmetry
INVARIANTS ImportRuns
CHECK_DEADLOCK FALSE
