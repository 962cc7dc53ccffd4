SPECIFICATION FairSpec
CONSTANTS
  MaxEdits = 2
  StopSignals = TRUE
  BlockCount = 3
  Threads = {"t1", "t2"}
  Count = 2
  MaxClients = 1
  Callers = {a, b}
  Rates = {1, 3}
  Bytes = {1, 2}
  PerSecond = 2
  MaxCalls = 2
  MaxSets = 2
  Window = 4
  MaxLines = 7
  OpenFails = TRUE
  Names = {"a", "b", "c"}
  Paths = {"p", "q"}
  MaxModules = 3
  MaxEvents = 4
  MaxVisits = 3
INVARIANTS StatsExact NoChildLeft NeverAboveRate NewestKept 
PROPERTIES ReloadHappens ImplementsPool 
CHECK_DEADLOCK FALSE
