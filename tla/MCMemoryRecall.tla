--------------------------- MODULE MCMemoryRecall ---------------------------
(* MemoryRecall with three seeded memories and the learned one, for TLC. *)
EXTENDS MemoryRecall

CONSTANTS r1, r2, Agent, Reviewer

Duplicates == {r1, r2}
RequestSymmetry == Permutations(Duplicates)
Both == {Agent, Reviewer}
Version == <<2, 4, 1>>

Row(version, policy, outcome, similarity, action) ==
  [version |-> version, policy |-> policy, outcome |-> outcome, similarity |-> similarity,
   confidence |-> 90, action |-> action, observer |-> "seed"]

Success(similarity, action) == Row(Version, "exact", 80, similarity, action)
Failure(similarity) == Row(Version, "exact", -20, similarity, "restart")
Patch(similarity) == Row(<<2, 4, 7>>, "semver_patch", 80, similarity, "rollback")
Obsolete(similarity, action) == Row(<<1, 9, 0>>, "exact", 80, similarity, action)
Nightly(similarity) == Row(<<7>>, "semver_minor", 80, similarity, "scale")

\* A close rival next to a failure, obsolete advice next to a failure, and policies
\* next to an unknown version scheme.
Scenarios ==
  {<<Success(90, "rollback"), Success(89, "restart"), Failure(95)>>,
   <<Success(70, "rollback"), Obsolete(99, "scale"), Failure(97)>>,
   <<Patch(90), Nightly(95)>>}
=============================================================================
