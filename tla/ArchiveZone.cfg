\* Local midnight comes before midnight in UTC.
SPECIFICATION Spec
CONSTANTS
    DayLength = 2
    Offset = 1
    NoDay = NoDay
    Overlap = FALSE
    MaxTime = 3
    MaxLines = 3
    MaxRounds = 2
    MaxCrashes = 0
    MaxFailures = 0
    MaxUnreadable = 0
INVARIANT NothingLost
CHECK_DEADLOCK FALSE
