SPECIFICATION Spec
CONSTANTS
    MaxSize = 3
    BatchSize = 2
    FlushTicks = 2
    LostReply = TRUE
    MaxEntries = 4
    MaxLifespans = 1
INVARIANT
    WritesIdempotent
CHECK_DEADLOCK FALSE
