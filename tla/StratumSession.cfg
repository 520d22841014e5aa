SPECIFICATION SessionSpec
CONSTANTS
  Capacity = 1
  Keepalive = TRUE
  MaxShares = 2
  MaxKeepalives = 1
  MaxPerLine = 2
  MaxBlanks = 1
  MaxDrops = 1
CHECK_DEADLOCK FALSE
INVARIANTS SessionTypeOK ArriveInOrderOnce SharesConserved CountsAreBounded
  SeenInOrder OnlyTornAreLost
PROPERTIES EveryShareIsWritten EveryMessageIsSeen ImplementsShareFlow
