SPECIFICATION FairSpec
CONSTANTS
  esp32_01 = esp32_01
  Boards <- MCBoards
  Threads = 2
  Limit = 0
  Spellings = {1, 2}
  MaxPackets = 2
  MaxEntries = 3
  MaxHandshakes = 6
  MaxFaults = 2
INVARIANTS UsedOnce PastStaysPast GenuineHeard InStep
PROPERTIES BoardsComeUp
CHECK_DEADLOCK FALSE
