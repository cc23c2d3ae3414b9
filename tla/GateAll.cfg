SPECIFICATION FairSpec
CONSTANTS
    Cards = {c, d}
    NoCard = NoCard
    Clients = TRUE
    TimesOut = TRUE
    MaxFeedback = 2
    MaxStops = 1
    MaxCrashes = 1
    MaxEvents = 3
INVARIANTS
    ResolvedOnce
    NoGhostCard
    AnswerHonoured
    StopSettlesAll
    FeedbackInOrder
    ApprovedAsShown
PROPERTIES
    EveryCardEnds
CHECK_DEADLOCK FALSE
