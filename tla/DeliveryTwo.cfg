SPECIFICATION FairSpec
CONSTANTS
    Projects = {a, b}
    NoProject = NoProject
    Kinds = {"msg"}
    HandshakeMax = 9
    Suspends = FALSE
    TimesOut = FALSE
    OtherWindows = FALSE
    ReuseSeq = FALSE
    MaxSeq = 1
    MaxConnects = 2
    MaxRestarts = 0
PROPERTIES
    Converges
CHECK_DEADLOCK FALSE
