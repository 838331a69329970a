SPECIFICATION FairSpec
CONSTANTS
  Keys <- MCKeys
  Nonces <- MCNonces
  NoKey = 0
  MaxSeq = 6
  MaxWatchdogs = 2
  HEARTBEAT_TIMEOUT_S = 2
  HEARTBEAT_PERIOD_S = 1
  PingTimeout = 4
  MaxConnections = 2
  MaxCommands = 4
  MaxCuts = 1
  MaxDownlink = 1
  Settings <- MCDemand
  Prompt = TRUE
INVARIANTS FreshBeatsCount NoSpuriousTrip 
 
CHECK_DEADLOCK FALSE
