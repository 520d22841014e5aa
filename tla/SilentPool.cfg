SPECIFICATION Spec
CONSTANTS
  NPools = 3
  Alternates = 2
  None = None
  Cycle = 3
  Level = 1
  Retries = 2
  Dead <- SomeDead
  Silent <- FirstHome
  Redirecting <- Pools
  MaxRedirects = 3
  MaxDrops = 3
PROPERTY LeavesStaleSession
CHECK_DEADLOCK FALSE
