SPECIFICATION Spec
CONSTANTS
  MaxWrites = 3
  MaxDeaths = 2
  MaxFaults = 1
  MaxPins = 1
  RoomInMem = 1
  ReuseAny = FALSE
INVARIANTS   SequencesFresh
 
CHECK_DEADLOCK FALSE
