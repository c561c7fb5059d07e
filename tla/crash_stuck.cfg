SPECIFICATION CrashSpec
CONSTANTS
  Turns = {t1}
  Handlers = {h1}
  Workers = {w1, w2}
  Answers = {a1}
  Requests = {r1}
  NumQuestions = 1
  MaxFollowUps = 1
  MaxEntries = 1
  MaxFaults = 1
  MaxStalls = 0
PROPERTY AcceptedAnswerSettles
CHECK_DEADLOCK FALSE
