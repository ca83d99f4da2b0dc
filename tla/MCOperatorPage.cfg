SPECIFICATION Spec
CONSTANTS
  f1 = f1  f2 = f2
  Tools <- AllTools
  MaxCalls = 2
  Fetches <- TwoFetches
  MaxVersion = 3
  MaxFaults = 1
INVARIANTS
  OneLifecycleOwner
  WithdrawnIsTransient
  NoToolForgotten
PROPERTIES
  NoStaleToolSettles
