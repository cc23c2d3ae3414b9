\* A zone ahead of UTC, both threads, failed calls, a crash.
SPECIFICATION Spec
CONSTANTS
    DayLength = 2
    Offset = 1
    NoDay = NoDay
    Overlap = TRUE
    MaxTime = 4
    MaxLines = 3
    MaxRounds = 2
    MaxCrashes = 2
    MaxFailures = 1
    MaxUnreadable = 1
INVARIANTS
    LinesKept
    CopiedOnce
CHECK_DEADLOCK FALSE
