SPECIFICATION FairSpec
CONSTANTS
    Projects = {a}
    NoProject = NoProject
    Kinds = {"msg"}
    HandshakeMax = 2
    Suspends = TRUE
    TimesOut = TRUE
    OtherWindows = TRUE
    ReuseSeq = TRUE
    MaxSeq = 2
    MaxConnects = 2
    MaxRestarts = 1
INVARIANTS
    ShownOnce
    SyncedHonest
PROPERTIES
    HandshakeLosesNothing
    Converges
    ResyncEnds
CHECK_DEADLOCK FALSE
