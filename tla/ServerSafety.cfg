SPECIFICATION Spec
CONSTANTS
    Conns = {c1, c2, c3}
    c1 = c1
    c2 = c2
    c3 = c3
    Threads = {t1, t2}
    t1 = t1
    t2 = t2
    MaxClients = 2
    MaxFd = 4
    MaxRequests = 1
    Nobody = Nobody
    Signals = TRUE
INVARIANTS SlotsMatchHandlers SubmitNeverWaits OwnUntilStop
SYMMETRY Symmetry
CHECK_DEADLOCK FALSE
