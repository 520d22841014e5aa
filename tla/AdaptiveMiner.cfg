SPECIFICATION AdaptiveSpec
CONSTANTS
  MaxThreads = 3
  MinThreads = 1
  Capacity = 1
  None = None
  Cores = 4
  Demands = {1, 2}
  Blind = TRUE
  Ceiling = 35
  RampUp = 1
INVARIANTS AdaptiveTypeOK FloorNeverParks AtMostOneMissesStop
PROPERTIES StopEndsHashing YieldsToUser RampsUp
CHECK_DEADLOCK FALSE
