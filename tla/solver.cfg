SPECIFICATION MCSpec
CONSTANTS
  w1 = w1
  w2 = w2
  a1 = a1
  a2 = a2
  n1 = n1
  n2 = n2
  NaN = NaN
  NoCommand = NoCommand
  NotANumber = NaN
  Workers <- MCWorkers
  Enrolled <- MCEnrolled
  TRIP_SETPOINT_C = 80
  SETPOINT_MIN_C = 60
  SETPOINT_MAX_C = 100
  SETPOINT_MAX_STEP_C = 15
  OPERATOR_MAX_SKEW_S = 1
  Ticks = 2
  Signers <- MCSigners
  Nonces <- MCNonces
  Values <- MCValues
  Temperatures <- MCTemps
  Actuators = {a1, a2}
  Transports = {"socketio", "mqtt"}
  Drift <- MCDrift
  MaxClock = 6
  MaxRestarts = 1
SYMMETRY Symmetry
INVARIANTS CommandInStep SingleUse GarbageBurnsNothing ReplayWindow SetpointWalk
PROPERTY LatchSpec
CHECK_DEADLOCK FALSE
