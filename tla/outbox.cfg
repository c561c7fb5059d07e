SPECIFICATION FairSpec
CONSTANTS
  Messages = {m1, m2}
  Dispatchers = {d1, d2}
  Threshold = 2
  MaxAttempts = 2
  MaxReclaims = 1
  MaxFaults = 2
INVARIANTS TypeOK RowsClaimedOnce NoSpuriousCopies DispatchedIsPublished ExhaustedWasPublished
PROPERTY EveryRowSettles
CHECK_DEADLOCK FALSE
