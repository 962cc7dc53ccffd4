SPECIFICATION Spec
CONSTANTS
    Null = Null
    Workers = {w1, w2, w3}
    Producers = {p1, p2, p3}
    Tasks = {t1, t2, t3, t4, t5}
    MaxTasks = 2
    CreateFails = TRUE
    MallocFails = TRUE
    Quiesce = FALSE
INVARIANTS ExactlyOnceInOrder WakeupsCoverQueue
CHECK_DEADLOCK FALSE
SYMMETRY Symmetry
