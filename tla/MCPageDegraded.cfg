SPECIFICATION Spec
CONSTANTS
  f1 = f1  f2 = f2
  Tools <- AllTools
  MaxCalls = 1
  Fetches <- OneFetch
  MaxVersion = 2
  MaxFaults = 1
PROPERTIES
  DegradedRecovers
