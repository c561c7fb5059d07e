SPECIFICATION Spec
CONSTANTS
  Turns = {t1, t2}
  Handlers = {h1}
  Workers = {w1, w2}
  Answers = {a1, a2}
  Requests = {}
  NumQuestions = 1
  MaxFollowUps = 1
  MaxEntries = 1
  MaxFaults = 0
  MaxStalls = 2
SYMMETRY Symmetry
INVARIANTS RoundsBounded StatusMatchesFlow
CHECK_DEADLOCK FALSE
