SPECIFICATION Spec
CONSTANTS
    Threads = {t1}
    t1 = t1
    Keys <- MCKeys
    Values = {1, 2}
    Capacity = 2
    Hash <- MCHash
    None = None
    MaxOps = 3
    MaxOpens = 3
    Clears = FALSE
    Faults = FALSE
 
PROPERTIES ImplementsMap
CHECK_DEADLOCK FALSE
