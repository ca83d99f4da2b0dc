SPECIFICATION Spec
CONSTANTS
  w1 = w1  w2 = w2
  Messages <- TwoMessages
  Workers <- TwoWorkers
  MaxAttempts = 2
  MaxLosses = 3
INVARIANTS
  SettledIsEarned
PROPERTIES
  SettledIsFinal
  EveryMessageSettles
