--------------------------- MODULE ReceiptBinding ---------------------------
(***************************************************************************)
(* What the receipt worker demands of the ledger prefix it is asked to     *)
(* sign (receipts.py), stated over the ledger RunAuthority writes.  The    *)
(* request is committed with the review; the demands are checked later, by *)
(* another process, and a prefix that fails one is dead-lettered for ever. *)
(*                                                                         *)
(* A digest is abstracted to what it is a digest of.  The rows it covers   *)
(* are written once (RunAuthority's EvidenceMatchesStage), so recomputing  *)
(* it gives what the event carries, if the event carries it at all.        *)
(*                                                                         *)
(* Time is not modelled.  recorded_at is the wall clock of the API process *)
(* that writes the event (ledger.py), and verify_ledger_prefix also        *)
(* refuses a prefix in which it decreases: what is stated here assumes     *)
(* that it does not: that no clock is set back, and that the clocks of two *)
(* processes agree up to the time between two transitions.                 *)
(***************************************************************************)
EXTENDS RunAuthority

\* The object_type the handlers pass to the transition that takes this reason: a
\* transition without a reason of its own names no object.
ObjectType(reason) ==
  CASE reason \in {"PROPOSAL_STAGED", "PROPOSAL_APPROVED", "PROPOSAL_REJECTED"} -> "proposal"
    [] reason = "SANDBOX_EXECUTION_APPLIED" -> "execution_binding"
    [] reason = "VERIFIED_OBSERVATION_RECORDED" -> "observation_binding"
    [] reason = "POSTCHECK_ASSESSMENT_RECORDED" -> "outcome_binding"
    [] reason \in {"MEMORY_CERTIFY", "MEMORY_QUARANTINE", "MEMORY_REJECT"} -> "review_binding"
    [] OTHER -> "none"

\* The object the event that first reaches a state must bind.
RequiredObject ==
  [s \in {"AWAITING_OPERATOR_APPROVAL", "APPROVED_AWAITING_EXECUTION", "OBSERVING_POSTCHECK",
          "POSTCHECK_READY", "PENDING_REVIEW", "REVIEWED"} |->
     CASE s \in {"AWAITING_OPERATOR_APPROVAL", "APPROVED_AWAITING_EXECUTION"} -> "proposal"
       [] s = "OBSERVING_POSTCHECK" -> "execution_binding"
       [] s = "POSTCHECK_READY" -> "observation_binding"
       [] s = "PENDING_REVIEW" -> "outcome_binding"
       [] s = "REVIEWED" -> "review_binding"]

\* Mutant: the last event that reaches the state, which a retry has written.
BindingEventLast(events, s, i) ==
  /\ events[i].state_after = s
  /\ \A j \in i + 1 .. Len(events) : events[j].state_after # s

\* The event of the prefix that verify_causal_bindings picks for a state.
BindingEvent(events, s, i) ==
  /\ events[i].state_after = s
  /\ \A j \in 1 .. i - 1 : events[j].state_after # s

\* verify_causal_bindings
CausallyBound(events) ==
  \A s \in DOMAIN RequiredObject :
    \E i \in 1 .. Len(events) :
      /\ BindingEvent(events, s, i)
      /\ ObjectType(events[i].reason) = RequiredObject[s]

SubjectsOf(events, role) ==
  {events[i].subject : i \in {j \in 1 .. Len(events) : events[j].role = role}}

\* verify_ledger_prefix; the channel follows the role (Authority), and recorded_at is
\* assumed not to decrease (see above).
VerifiedPrefix(events) ==
  /\ events # <<>> /\ events[1] = Genesis
  /\ \A i \in 1 .. Len(events) : events[i].epoch_after = events[i].epoch_before + 1
  /\ \A i \in 2 .. Len(events) :
       /\ events[i].epoch_before = events[i - 1].epoch_after
       /\ events[i].state_before = events[i - 1].state_after
  /\ \E operator, reviewer \in Subjects :
       /\ SubjectsOf(events, "operator") = {operator}
       /\ SubjectsOf(events, "reviewer") = {reviewer}
       /\ operator # reviewer

\* build_manifest signs a prefix that passes both.
Signable(events) == CausallyBound(events) /\ VerifiedPrefix(events)

-----------------------------------------------------------------------------
\* Every review the run has asked a receipt for can be signed, through retries,
\* repeated proposals, races and late observations, as long as the assessment came
\* through the WebMCP route; and no other one can: record_postcheck_assessment,
\* which the operator session of a judge run may also call, binds no outcome, so
\* its review is accepted and its receipt is never issued (build_manifest).
ReviewedIsSignable ==
  \A n \in receipts :
    LET events == SubSeq(ledger, 1, n) IN
      /\ VerifiedPrefix(events)
      /\ Signable(events) <=>
           \E i \in 1 .. n : events[i].reason = "POSTCHECK_ASSESSMENT_RECORDED"
====
