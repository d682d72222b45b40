SPECIFICATION Spec
CONSTANTS
    Devices = {d1}
    Members = {ann, bob}
    Nothing = Nothing
    Recorded = {bob}
    Denied = {bob}
    MaxWrites = 2
    MaxPairs = 2
    MaxListens = 2
    MaxCuts = 2
INVARIANTS
    DrainedMeansStored
PROPERTIES
    QueueDrains
CHECK_DEADLOCK FALSE
