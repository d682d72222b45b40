SPECIFICATION Spec
CONSTANTS
  NoThread = NoThread
  Threads = {t1, t2}
  MaxGroup = 2
  RoomInMem = 0
  CompactFiles = 1
  SlowdownFiles = 1
  StopFiles = 2
  MaxWrites = 3
  MaxCalls = 1
  MaxFaults = 1
CHECK_DEADLOCK FALSE
INVARIANTS NothingDropped SyncHonoured
PROPERTIES  CloseEnds
