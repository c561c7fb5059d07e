SPECIFICATION Spec
CONSTANTS
  Judges = {j1}
  Hosts = {j1}
  Host <- OwnHost
  Modes = {"docker_warm"}
  Tasks <- MCTasks
  MaxSubmissions = 1
  BatchSize = 2
  PreCreated = FALSE
  MaxFaults = 0
INVARIANT CreatesMissingContainer
CHECK_DEADLOCK FALSE
