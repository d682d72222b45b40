SPECIFICATION Spec
CONSTANTS
  NumKeys = 1
  NumLevels = 4
  MaxMemCompactLevel = 2
  MaxWrites = 3
  MaxSnapshots = 1
  SplitsKeys = TRUE
  FlushesInManual = FALSE
INVARIANTS EntriesNeverHop
CHECK_DEADLOCK FALSE
