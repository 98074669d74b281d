CONSTANTS
    Calls = {c1, c2, c3}
    NoCall = NoCall
    MaxWorkers = 2
    Threshold = 2
SPECIFICATION Spec
INVARIANTS
    TypeOK
    GaugesAccountedFor
    DebtExact
    OneSlipsIn
PROPERTIES
    OpensAfterConsecutiveFailures
    CallsAnswered
    QuarantineLifted
CHECK_DEADLOCK FALSE
