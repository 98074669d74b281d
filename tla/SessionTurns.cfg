CONSTANTS
    t1 = t1
    t2 = t2
    u = u
    ToolResults = {t1, t2}
    Plain = {u}
    Histories <- MCHistories
    Outcomes <- MCOutcomes
    Answer = u
    Requests = {r1, r2, r3}
    None = None
    Caps = {0, 2}
    MaxEntries = 1
    Modes = {"token", "cache"}
    Recompacts = {"idle", "always"}
    MaxTurns <- MCMaxTurns
    Covered = {0, 1, 3}
SPECIFICATION Spec
SYMMETRY Symmetry
INVARIANTS
    TypeOK
    ContentIntact
    ChainsDistinct
PROPERTIES
    PrefixReplayed
CHECK_DEADLOCK FALSE
