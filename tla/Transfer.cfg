SPECIFICATION Spec
CONSTANTS
  Sessions = {1, 2, 3}
  Owner <- MCOwner
  Uploader = "u"
  May <- MCMay
  Sizes = {0, 2, 3}
  LenMod = 3
  MaxCalls = 1
  Faults = TRUE
  Overlap = FALSE
INVARIANTS StayInStep   NeverBothWait
CHECK_DEADLOCK FALSE
