SPECIFICATION FairSpec
CONSTANTS
  MaxProcs = 4
  MaxJobs = 2
  MaxStops = 2
INVARIANTS  NoGhostJobs
PROPERTIES PromptReturns
CHECK_DEADLOCK FALSE
