SPECIFICATION Spec
CONSTANTS
    Procs = {p}
    ProcessMax = 1
    MaxRetries = 1
    WallClock = TRUE
    MaxTurns = 1
    MaxCalls = 1
    MaxStops = 1
INVARIANTS
    StreamStops
CHECK_DEADLOCK FALSE
