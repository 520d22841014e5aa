SPECIFICATION AdaptiveSpec
CONSTANTS
  MaxThreads = 2
  MinThreads = 1
  Capacity = 1
  None = None
  Cores = 3
  Demands = {1, 2}
  Blind = FALSE
  Ceiling = 35
  RampUp = 1
PROPERTY YieldsToOthers
CHECK_DEADLOCK FALSE
