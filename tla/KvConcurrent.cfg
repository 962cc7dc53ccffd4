SPECIFICATION Spec
CONSTANTS
    Threads = {t1, t2}
    t1 = t1
    t2 = t2
    Keys <- MCKeys
    Values = {1, 2}
    Capacity = 2
    Hash <- MCHash
    None = None
    MaxOps = 3
    MaxOpens = 2
    Clears = TRUE
    Faults = TRUE
INVARIANTS TableIsMap
PROPERTIES SavesOnlyCurrent
CHECK_DEADLOCK FALSE
