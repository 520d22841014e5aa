SPECIFICATION Spec
CONSTANTS
  NPools = 3
  Alternates = 2
  None = None
  Cycle = 3
  Level = 1
  Retries = 2
  Dead <- SomeDead
  Silent <- NoEndpoints
  Redirecting <- Pools
  MaxRedirects = 3
  MaxDrops = 3
INVARIANTS TypeOK DonationIsFair StaleSessionIsSignalled WalletsDoNotCross
PROPERTIES LeavesStaleSession MinesForChosenSide ImplementsPoolChoice
