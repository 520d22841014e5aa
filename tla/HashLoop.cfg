SPECIFICATION Spec
CONSTANTS
  Workers = {w1, w2}
  Word = 16
  Low = 2
  Tops = 2
  CheckEvery = 2
  None = None
  MaxJobs = 2
  MaxDraws = 6
INVARIANTS TypeOK NoncesRepeatLate ReservedByteIsKept StaleHashesAreFew
CHECK_DEADLOCK FALSE
