SPECIFICATION Spec
CONSTANTS
  w1 = w1  w2 = w2  Nobody = Nobody
  Requests <- TwoRequests
  Workers <- TwoWorkers
  MaxAttempts = 2
  FaultsAllowed = TRUE
  MaxCrashes = 1
  MaxOverruns = 1
CHECK_DEADLOCK FALSE
INVARIANTS
  RowsAgree
  ArchiveReconciles
  AttemptsAccounted
PROPERTIES
  RequestsSettle
  SettledIsFinal
