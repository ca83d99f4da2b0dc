SPECIFICATION Spec
CONSTANTS
  b1 = b1  b2 = b2
  Runs <- OneRun
  Handoffs <- TwoHandoffs
  Browsers <- OneBrowser
  ActiveLimit = 1
  CrashAllowed = TRUE
  MaxPages = 1
  MaxHandlers = 2
CHECK_DEADLOCK FALSE
INVARIANTS
  TypeOK
  CodeExchangedOnce
  CertifierNeverRevokes
  LinkFollowsEvidence
PROPERTIES
  ResetRunsAreOver
