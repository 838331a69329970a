SPECIFICATION Spec
CONSTANTS
  Keys <- MCKeys
  Nonces <- MCNonces
  NoKey = 0
  MaxSeq = 8
  MaxWatchdogs = 2
  HEARTBEAT_TIMEOUT_S = 2
  HEARTBEAT_PERIOD_S = 1
  PingTimeout = 4
  MaxConnections = 2
  MaxCommands = 2
  MaxCuts = 1
  MaxDownlink = 1
  Settings <- MCSilence
  Prompt = FALSE
INVARIANTS ObeyedOnce WatchedValveCloses SilenceClosesUnlessDeserted HealthyMeansOpen
CHECK_DEADLOCK FALSE
