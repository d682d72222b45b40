SPECIFICATION PartsSpec
CONSTANTS
    BlockSize = 5
    HeaderSize = 2
    MaxRecords = 2
    MaxSize = 7
    Chars = {"a", "b", ".", ",", "#"}
    MaxLen = 3
    Readers = {"r1"}
    MemKeys = 2
    MaxEntries = 3
    MaxHeight = 2
    MaxReads = 2
    ArenaBlock = 8
    Align = 2
    Sizes = {1, 2, 3, 9}
    MaxGiven = 5
    Threads = {"t1", "t2", "t3"}
    MmapLimit = 1
    FdLimit = 1
    Processes = {"p1", "p2"}
    Openers = {"o1", "o2"}
    MaxItems = 3
    MaxLocks = 4
    MaxLength = 1
    MaxCrashes = 1
    Entries = {1, 2}
    OldNumbers = {2, 3}
    MaxFaults = 1
    SharedKinds = {"env", "filterpolicy"}
    StoreKeys = 1
    MaxHandles = 3
    MaxBatch = 1
    VersionKeys = 2
    VersionLevels = 3
    Trigger = 2
    LevelLimit = 2
    AllowedSeeks = 1
    MaxMeta = 4
    MaxCharged = 1
INVARIANTS
    LogReadsBack
    
    ReadersMissNothing
    IteratorInPlace
    TableReadsBack
    
    
    SyncIsDurable
    FormatsReadBack
    CodecsAgree
    
    VersionsOwnFiles
    BindingFaithful
PROPERTIES
    CacheKeepsAccount
CHECK_DEADLOCK FALSE
