SPECIFICATION FairSpec
CONSTANTS
    Workers = {w1, w2}
    w1 = w1
    w2 = w2
    Conns = {c1, c2, c3}
    c1 = c1
    c2 = c2
    c3 = c3
    MaxConnections = 2
    Main = Main
    Null = Null
    Stops = TRUE
    InHandler = FALSE
INVARIANTS RingIsFifo
PROPERTIES  AwakeWorkersLeave
CHECK_DEADLOCK FALSE
