SPECIFICATION Spec
CONSTANTS
  b1 = b1  b2 = b2
  Runs <- TwoRuns
  Handoffs <- NoHandoffs
  Browsers <- TwoBrowsers
  ActiveLimit = 1
  CrashAllowed = TRUE
  MaxPages = 1
  MaxHandlers = 2
CHECK_DEADLOCK FALSE
INVARIANTS
  StalePreconditionRefused
  CapacityHeld
PROPERTIES
  CapacityReturns
