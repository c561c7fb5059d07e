SPECIFICATION Spec
CONSTANTS
  Turns = {t1, t2}
  Handlers = {h1}
  Workers = {w1, w2}
  Answers = {a1, a2}
  Requests = {}
  NumQuestions = 1
  MaxFollowUps = 1
  MaxEntries = 2
  MaxFaults = 1
  MaxStalls = 0
SYMMETRY Symmetry
INVARIANTS TypeOK OneOwner ScoredOnce
PROPERTY ImplementsLedger
CHECK_DEADLOCK FALSE
