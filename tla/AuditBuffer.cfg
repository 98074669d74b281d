SPECIFICATION FairSpec
CONSTANTS
    MaxSize = 3
    BatchSize = 2
    FlushTicks = 2
    LostReply = TRUE
    MaxEntries = 4
    MaxLifespans = 2
INVARIANTS
    TypeOK
    FifoAtMostOnce
    LossBounded
    DuplicatesBounded
PROPERTY
    EventuallyFlushed
CHECK_DEADLOCK FALSE
