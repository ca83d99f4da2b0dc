--------------------------- MODULE MCOperatorPage ---------------------------
(* OperatorPage with two polls in flight, for TLC. *)
EXTENDS OperatorPage

CONSTANTS f1, f2

TwoFetches == {f1, f2}
OneFetch == {f1}
AllTools ==
  {"inspect_incident", "propose_mitigation", "record_postcheck_assessment", "recall_reviewed_memory"}
=============================================================================
