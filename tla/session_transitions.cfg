SPECIFICATION Spec
CONSTANTS
  Turns = {t1}
  Handlers = {h1, h2}
  Workers = {w1}
  Answers = {a1}
  Requests = {}
  NumQuestions = 2
  MaxFollowUps = 1
  MaxEntries = 1
  MaxFaults = 0
  MaxStalls = 0
PROPERTY SessionTransitionsLegal
CHECK_DEADLOCK FALSE
