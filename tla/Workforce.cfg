SPECIFICATION FairSpec
CONSTANTS
    Handoffs = {h}
    Messages = {m, n}
    NoJob = NoJob
    MaxStops = 2
    MaxErrors = 1
    MaxFaults = 1
INVARIANTS
    OneTurnAtATime
    ResultOnce
    NoMessageLost
PROPERTIES
    NeverOverwritten
    EveryJobEnds
    MessageTaken
CHECK_DEADLOCK FALSE
