SPECIFICATION FairSpec
CONSTANTS
  h1 = h1
  h2 = h2
  w1 = w1
  w2 = w2
  t1 = t1
  r1 = r1
  Handlers <- MCHandlers
  Watchdogs <- MCWatchdogs
  Trips <- MCTrips
  Resets <- MCResets
  MaxSeq = 2
INVARIANTS NeverBlindAtRest CopiesNeedARace
PROPERTIES ReplaysHoldNothingOpen
