SPECIFICATION Spec
CONSTANTS
  MaxWrites = 2
  MaxDeaths = 2
  MaxFaults = 0
  MaxPins = 0
  RoomInMem = 1
  ReuseAny = TRUE
INVARIANTS SyncedSurvives
CHECK_DEADLOCK FALSE
