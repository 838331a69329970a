SPECIFICATION Spec
CONSTANTS
  Keys <- MCKeys
  Nonces <- MCNonces
  NoKey = 0
  MaxSeq = 5
  MaxWatchdogs = 2
  HEARTBEAT_TIMEOUT_S = 2
  HEARTBEAT_PERIOD_S = 1
  PingTimeout = 4
  MaxConnections = 1
  MaxCommands = 4
  MaxCuts = 1
  MaxDownlink = 2
  Settings <- MCStaleReport
  Prompt = TRUE
INVARIANTS LatchAgreesInOrder
CHECK_DEADLOCK FALSE
