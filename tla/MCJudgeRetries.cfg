SPECIFICATION Spec
CONSTANTS
  op = op  op2 = op2  ag = ag  rv1 = rv1  rv2 = rv2  k1 = k1  k2 = k2
  NoOne = NoOne  NoKey = NoKey
  JudgeMode = TRUE
  ApprovalRequired <- OnlyMutating
  Operators <- JudgeOperators
  Agents <- JudgeAgents
  Reviewers <- TwoReviewers
  Keys <- TwoKeys
  CrashAllowed = FALSE
  MaxEpoch = 11
  MaxInflight = 1
CHECK_DEADLOCK FALSE
INVARIANTS
  TypeOK
  ReviewedIsSignable
PROPERTIES
  ImplementsAuthorityWorkflow
  ObservationResolves
