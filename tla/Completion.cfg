SPECIFICATION FairSpec
CONSTANTS
    Tasks = {t}
    NoTask = NoTask
    Boot = Boot
    Lanes = {"task_state", "report", "memory", "delivery", "ui"}
    Outcomes = {"SUCCEEDED", "FAILED"}
    MaxRepeats = 1
    MaxFaults = 2
    MaxCrashes = 2
    MaxEvents = 3
INVARIANTS
    NothingForgotten
    EffectOnce
    ToldOnce
PROPERTIES
    RowsSettle
    ImplementsOutbox
CHECK_DEADLOCK FALSE
