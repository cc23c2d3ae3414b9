SPECIFICATION FairSpec
CONSTANTS
    Procs = {p, q}
    ProcessMax = 1
    MaxRetries = 2
    WallClock = TRUE
    MaxTurns = 2
    MaxCalls = 2
    MaxStops = 2
INVARIANTS
    NoProcessLeft
    OnlyAwaited
    HeardOnce
PROPERTIES
    UnwindingEnds
CHECK_DEADLOCK FALSE
