SPECIFICATION Spec
CONSTANTS
    Procs = {p}
    ProcessMax = 1
    MaxRetries = 1
    WallClock = FALSE
    MaxTurns = 1
    MaxCalls = 1
    MaxStops = 1
PROPERTIES
    StopIsFinal
CHECK_DEADLOCK FALSE
