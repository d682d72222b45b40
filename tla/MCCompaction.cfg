SPECIFICATION Spec
CONSTANTS
  NumKeys = 3
  NumLevels = 3
  MaxMemCompactLevel = 2
  MaxWrites = 3
  MaxSnapshots = 1
  SplitsKeys = FALSE
  FlushesInManual = FALSE
INVARIANTS ReadsLatest ScansLatest LevelsDisjoint
CHECK_DEADLOCK FALSE
