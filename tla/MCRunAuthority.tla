--------------------------- MODULE MCRunAuthority ---------------------------
(* RunAuthority and ReceiptBinding with small sets of subjects and keys, for TLC. *)
EXTENDS ReceiptBinding, TLC

CONSTANTS op, op2, ag, rv1, rv2, k1, k2

\* A judge run: one operator, its agent channel, two minted reviewers.
JudgeOperators == {op}
JudgeAgents == {ag}
TwoReviewers == {rv1, rv2}
TwoKeys == {k1, k2}
OneReviewer == {rv1}
OneKey == {k1}

\* The service mode: two operators, one of whom also reviews.
ServiceOperators == {op, op2}
ServiceReviewers == {op, rv1}

\* What the analysis proposed: a remediation, or a read-only diagnostic.
OnlyMutating == {TRUE}
EitherKind == {TRUE, FALSE}

JudgeSymmetry == Permutations(TwoReviewers) \cup Permutations(TwoKeys)
=============================================================================
