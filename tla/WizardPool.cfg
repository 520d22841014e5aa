SPECIFICATION Spec
CONSTANTS
  Items = 5
  Cores = 2
  MaxRefusals = 1
  Limits = {0, 2}
  MaxHashes = 1
  MaxRate = 2
  Pools = {p1, p2}
  BadPools = {p2}
  Empty = Empty
  Absent = Absent
  Torn = Torn
  MinThreads = 1
  MaxEdits = 2
  MaxCrashes = 1
CHECK_DEADLOCK FALSE
INVARIANT SavedConfigsMine
