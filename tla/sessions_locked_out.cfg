SPECIFICATION Spec
CONSTANTS
  s1 = s1
  s2 = s2
  sensor_01 = sensor_01
  actuator_01 = actuator_01
  NoOne = NoOne
  Sids <- TwoSids
  Devices <- OneDevice
SYMMETRY Symmetry
INVARIANTS IdentityReleased
CHECK_DEADLOCK FALSE
