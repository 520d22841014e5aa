SPECIFICATION Spec
CONSTANTS
  Workers = {0, 1, 2}
  Targets = {1, 3}
  Seeds = {s0, s1}
  ZeroSeed = s0
  None = None
  MaxJobs = 2
  MaxFailures = 1
  MaxScalings = 1
INVARIANTS TypeOK OneBuilder HashesWithJobSeed NoForgottenWaiter VmsHaveMemory
PROPERTIES EventuallyAllMine OldDatasetsGo
CHECK_DEADLOCK FALSE
