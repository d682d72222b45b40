SPECIFICATION Spec
CONSTANTS
    Requests = {r1, r2}
    RetryCounts = {0, 2}
    MaxRetryCount = 2
INVARIANTS
    DuplicatesOnlyByRetry
PROPERTIES
    CallSpec
    EverySettles
