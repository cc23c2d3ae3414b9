SPECIFICATION FairSpec
CONSTANTS
    Requests = {r1, r2}
    NoRow = NoRow
    NoPlan = NoPlan
    MaxFaults = 2
    MaxTimeouts = 1
    MaxCrashes = 2
INVARIANTS
    RollbackPossible
    CleanupRemembered
    FenceHolds
PROPERTIES
    CommitIsFinal
    AllOrNothing
    FenceEnds
CHECK_DEADLOCK FALSE
