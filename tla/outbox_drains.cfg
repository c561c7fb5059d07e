SPECIFICATION FairSpec
CONSTANTS
  Messages = {m1}
  Dispatchers = {d1, d2}
  Threshold = 3
  MaxAttempts = 20
  MaxReclaims = 0
  MaxFaults = 1
PROPERTY OutboxDrains
CHECK_DEADLOCK FALSE
