SPECIFICATION Spec
CONSTANTS
  r1 = r1  r2 = r2
  Agent = "agent"  Reviewer = "reviewer"
  MemoryCount = 4
  Seeds <- Scenarios
  New = 4
  IncidentVersion <- Version
  NewSimilarity = 91
  Requests <- Duplicates
  Reviewers <- Both
  Observer = "agent"
  Limit = 2
  Multiplier = 8
  PoolFactor = 4
  MinSimilarity = 55
  MinConfidence = 50
  MinRankScore = 6500
  MinMargin = 300
  MaxGovernance = 1
  MaxAged = 0
SYMMETRY RequestSymmetry
CHECK_DEADLOCK FALSE
INVARIANTS
  ExactCounterfactual
