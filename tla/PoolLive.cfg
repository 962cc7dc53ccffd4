SPECIFICATION FairSpec
CONSTANTS
    Null = Null
    Workers = {w1, w2}
    Producers = {p1, p2}
    Tasks = {t1, t2, t3, t4}
    MaxTasks = 1
    CreateFails = FALSE
    MallocFails = FALSE
    Quiesce = TRUE
INVARIANTS WakeupsCoverRoom
PROPERTIES AcceptedRuns DestroyReturns ImplementsExecutor
CHECK_DEADLOCK FALSE

