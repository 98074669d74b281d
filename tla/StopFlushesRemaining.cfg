SPECIFICATION Spec
CONSTANTS
    MaxSize = 3
    BatchSize = 2
    FlushTicks = 2
    LostReply = FALSE
    MaxEntries = 5
    MaxLifespans = 1
INVARIANT
    StopFlushesRemaining
CHECK_DEADLOCK FALSE
