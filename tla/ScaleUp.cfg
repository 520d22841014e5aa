SPECIFICATION Spec
CONSTANTS
  MaxThreads = 2
  MinThreads = 1
  Capacity = 1
  None = None
PROPERTY TargetIsActiveThreads
CHECK_DEADLOCK FALSE
