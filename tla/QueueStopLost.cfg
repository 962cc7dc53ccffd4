SPECIFICATION FairSpec
CONSTANTS
    Workers = {w1, w2}
    w1 = w1
    w2 = w2
    Conns = {c1}
    c1 = c1
    MaxConnections = 1
    Main = Main
    Null = Null
    Stops = TRUE
    InHandler = FALSE
PROPERTIES StopReturns
CHECK_DEADLOCK FALSE
