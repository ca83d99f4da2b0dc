SPECIFICATION Spec
CONSTANTS
  op = op  op2 = op2  ag = ag  rv1 = rv1  rv2 = rv2  k1 = k1  k2 = k2
  NoOne = NoOne  NoKey = NoKey
  JudgeMode = FALSE
  ApprovalRequired <- EitherKind
  Operators <- ServiceOperators
  Agents <- JudgeAgents
  Reviewers <- ServiceReviewers
  Keys <- TwoKeys
  CrashAllowed = TRUE
  MaxEpoch = 8
  MaxInflight = 2

CHECK_DEADLOCK FALSE
INVARIANTS
  CertifiedByAnother
PROPERTIES
  ImplementsAuthorityWorkflow
