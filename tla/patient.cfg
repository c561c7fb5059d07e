SPECIFICATION PatientSpec
CONSTANTS
  Turns = {t1, t2}
  Handlers = {h1}
  Workers = {w1, w2}
  Answers = {a1}
  Requests = {r1}
  NumQuestions = 2
  MaxFollowUps = 1
  MaxEntries = 2
  MaxFaults = 1
  MaxStalls = 0
INVARIANTS GradedOnItsQuestion EachPositionOnce
PROPERTIES NeverReopened EveryAnswerSettles ClaimedTurnSettles
CHECK_DEADLOCK FALSE
