SPECIFICATION Spec
CONSTANTS
  MaxPerLine = 2
  MaxMessages = 4
  MaxBlanks = 1
  MaxCancels = 2
INVARIANT CallersSeeEveryMessage
CHECK_DEADLOCK FALSE
