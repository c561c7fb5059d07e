SPECIFICATION FairSpec
CONSTANTS
  Judges = {j1, j2}
  Hosts = {j1, j2}
  Host <- OwnHost
  Modes = {"docker", "docker_warm", "native_trusted", "disabled"}
  Tasks <- MCTasks
  MaxSubmissions = 2
  BatchSize = 2
  PreCreated = TRUE
  MaxFaults = 2
INVARIANTS TypeOK ClaimedOnce TracedWhenJudged RunningIsHeld VerdictDeserved
PROPERTY EverySubmissionSettles
CHECK_DEADLOCK FALSE
