SPECIFICATION FairSpec
CONSTANTS
  Processes = {p1, p2}
  MaxEntries = 2
  MaxLen = 1
  BatchSize = 2
  Threshold = 2
  MaxFaults = 1
INVARIANTS TypeOK NothingLost
PROPERTY EveryEntrySettles
CHECK_DEADLOCK FALSE
