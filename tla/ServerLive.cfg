SPECIFICATION FairPeersSpec
CONSTANTS
    Conns = {c1, c2}
    c1 = c1
    c2 = c2
    Threads = {t1}
    t1 = t1
    MaxClients = 2
    MaxFd = 3
    MaxRequests = 1
    Nobody = Nobody
    Signals = TRUE
PROPERTIES QueuedIsServed StopReturns
CHECK_DEADLOCK FALSE
