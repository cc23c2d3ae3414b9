\* A ring smaller than the log, an unreliable disk, a crash.
SPECIFICATION Spec
CONSTANTS
    Projects = {p1}
    Ids = {m1}
    NoId = NoId
    RingCapacity = 2
    RestoreSlack = 1
    Limits = {2}
    MaxSeq = 4
    MaxRestarts = 1
    MaxFailures = 1
    MaxReads = 1
INVARIANTS
    PrefixDurable
    ReplayCompleteUnlessStranded
    EmitIdempotent
PROPERTY ImplementsJournal
