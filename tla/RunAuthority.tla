---------------------------- MODULE RunAuthority ----------------------------
(***************************************************************************)
(* One governed incident workflow of RecallOps, with everything that is    *)
(* committed together with it: the WorkflowCoordinator row (workflow.py),  *)
(* the append-only authority ledger (ledger.py), the approval, execution,  *)
(* observation, assessment and memory rows (store.py), the receipt request *)
(* and the WebMCP idempotency rows.  One action per handler of api.py.     *)
(*                                                                         *)
(* A handler authenticates and reads outside the database transaction and  *)
(* then runs one serializable transaction.  A request that has been        *)
(* authenticated is a member of `inflight'; its transaction may run at any *)
(* later time, more than once (a client that repeats the call), or never   *)
(* (the call is lost).  Its `epoch' is the one the caller read.  The       *)
(* sandbox and retry handlers go on after their first transaction: they    *)
(* collect telemetry outside any transaction and commit the result in a    *)
(* second one; between the two they are members of `observers'.            *)
(***************************************************************************)
EXTENDS Naturals, Sequences, FiniteSets

CONSTANTS
  JudgeMode,     \* settings.auth_mode = "judge": a judge run owns the workflow
  ApprovalRequired,  \* the values proposed_action.requires_approval can take
  Operators,     \* subjects holding the operator role
  Agents,        \* subjects holding the agent role
  Reviewers,     \* subjects holding the reviewer role
  Keys,          \* Idempotency-Key values
  NoOne,         \* SQL NULL in a subject column
  NoKey,         \* a request without Idempotency-Key
  CrashAllowed,  \* may the API process die between two transactions
  MaxEpoch,      \* bound: no request is sent once the epoch has reached it
  MaxInflight    \* bound: handlers between authentication and transaction

Subjects == Operators \cup Agents \cup Reviewers

ASSUME ModeAssumption ==
  /\ JudgeMode \in BOOLEAN
  /\ ApprovalRequired \subseteq BOOLEAN
  /\ CrashAllowed \in BOOLEAN

\* A judge run has one operator subject, and its scenario proposes an action
\* that requires approval; an exchanged handoff mints a fresh reviewer subject.
ASSUME JudgeAssumption ==
  JudgeMode => /\ \E op \in Operators : Operators = {op}
               /\ ApprovalRequired = {TRUE}

ASSUME SubjectAssumption == NoOne \notin Subjects /\ NoKey \notin Keys

ASSUME BoundAssumption == MaxEpoch \in Nat /\ MaxInflight \in Nat

WorkflowState ==
  {"INVESTIGATING", "AWAITING_OPERATOR_APPROVAL", "APPROVED_AWAITING_EXECUTION",
   "OBSERVING_POSTCHECK", "POSTCHECK_READY", "POSTCHECK_UNAVAILABLE",
   "PENDING_REVIEW", "REVIEWED"}

PostcheckClassification == {"recovered", "not_recovered", "inconclusive"}

MemoryOutcome == {"positive", "negative", "inconclusive"}

\* The states a memory of this workflow can be in; supersession and expiry of
\* a memory are not reachable while its workflow is being governed.
MemoryState ==
  {"absent", "pending_review", "active", "quarantined", "rejected", "revoked"}

\* prepare_verified_outcome takes the sign of the evidence from the policy
\* verdict, never from the agent's assessment.
OutcomeSemantics ==
  [c \in PostcheckClassification |->
     CASE c = "recovered"     -> "positive"
       [] c = "not_recovered" -> "negative"
       [] c = "inconclusive"  -> "inconclusive"]

VARIABLES
  wf,           \* the webmcp_workflows row
  ledger,       \* authority_events of the run, in sequence order
  run,          \* status of the judge run
  approval,     \* requires_approval, and the approvals row: one decision per incident
  execution,    \* the execution row: sandbox, manually attested, or none
  verdict,      \* the observation row and its policy verdict
  assessment,   \* the agent's assessment row
  memory,       \* the outcome memory of the incident
  receipts,     \* target sequences of the receipt requests
  idempotency,  \* webmcp_idempotency rows with a stored response
  inflight,     \* authenticated requests whose transaction may still run
  observers,    \* handlers between the execution and observation transactions
  committed     \* history: keyed requests that have taken effect

evidence == <<approval, execution, verdict, assessment, memory>>
calls == <<idempotency, inflight, committed>>
vars == <<wf, ledger, run, evidence, receipts, calls, observers>>

-----------------------------------------------------------------------------
(* Requests.                                                               *)

Decisions == {"approve", "reject"}
Dispositions == {"certify", "quarantine", "reject"}
GovernanceAction == Dispositions \cup {"activate"}
Args ==
  Decisions \cup GovernanceAction \cup PostcheckClassification \cup MemoryOutcome \cup {"none"}

KeyedRoutes == {"proposal", "assessment"}
Routes == KeyedRoutes \cup
  {"approval", "sandbox_execution", "postcheck_retry", "postcheck_assessment",
   "execution", "outcome", "governance", "disposition", "revocation",
   "run_reset", "workflow_reset"}

\* The subjects the incident routes take for an agent: in judge mode the operator
\* session also holds the agent role, and the caller's own subject is recorded;
\* the WebMCP routes record the run's server-derived agent subject instead.
AgentSessions == IF JudgeMode THEN Operators ELSE Agents

\* What a caller that has read epoch e may send: the routes of both modes, the
\* judge-only ones (they need a judge run) and the ones answered 410 Gone in
\* judge mode.
CommonRequests(e) ==
  [route : {"approval"}, epoch : {e}, who : Operators, key : {NoKey}, arg : Decisions]
  \cup [route : {"sandbox_execution", "postcheck_retry", "workflow_reset"},
        epoch : {e}, who : Operators, key : {NoKey}, arg : {"none"}]
  \cup [route : {"postcheck_assessment"}, epoch : {e}, who : AgentSessions,
        key : {NoKey}, arg : PostcheckClassification]

JudgeRequests(e) ==
  [route : {"proposal"}, epoch : {e}, who : Agents, key : Keys, arg : {"none"}]
  \cup [route : {"assessment"}, epoch : {e}, who : Agents, key : Keys,
        arg : PostcheckClassification]
  \cup [route : {"disposition"}, epoch : {e}, who : Reviewers, key : {NoKey},
        arg : Dispositions]
  \cup [route : {"revocation"}, epoch : {e}, who : Reviewers, key : {NoKey},
        arg : {"none"}]
  \cup [route : {"run_reset"}, epoch : {e}, who : Operators, key : {NoKey},
        arg : {"none"}]

LegacyRequests(e) ==
  [route : {"execution"}, epoch : {e}, who : Operators, key : {NoKey}, arg : {"none"}]
  \cup [route : {"outcome"}, epoch : {e}, who : Operators, key : {NoKey},
        arg : MemoryOutcome]
  \cup [route : {"governance"}, epoch : {e}, who : Reviewers, key : {NoKey},
        arg : GovernanceAction]

RequestsAt(e) ==
  CommonRequests(e) \cup (IF JudgeMode THEN JudgeRequests(e) ELSE LegacyRequests(e))

\* Every request some epoch admits.
Request ==
  {m \in [route : Routes, epoch : Nat, who : Subjects, key : Keys \cup {NoKey}, arg : Args] :
     m \in RequestsAt(m.epoch)}

-----------------------------------------------------------------------------
(* The workflow coordinator and the ledger.                                *)

AgentOverWebMcp == [channel |-> "webmcp", role |-> "agent"]
OperatorOverUi  == [channel |-> "ui",     role |-> "operator"]
ReviewerOverUi  == [channel |-> "ui",     role |-> "reviewer"]
SystemAuthority == [channel |-> "system", role |-> "system"]

Authority == {AgentOverWebMcp, OperatorOverUi, ReviewerOverUi, SystemAuthority}

\* The authority validate_transition demands for leaving state s; the legacy
\* attestation route may also leave INVESTIGATING from the operator UI.
RequiredAuthority(s, allowLegacyUi) ==
  CASE s = "INVESTIGATING" ->
         {AgentOverWebMcp} \cup (IF allowLegacyUi THEN {OperatorOverUi} ELSE {})
    [] s = "OBSERVING_POSTCHECK" -> {SystemAuthority}
    [] s = "POSTCHECK_READY" -> {AgentOverWebMcp}
    [] s = "PENDING_REVIEW" -> {ReviewerOverUi}
    [] OTHER -> {OperatorOverUi}

\* Mutant: the compare-and-swap does not look at `active'.
ValidTransitionOfClosed(epoch, from, auth, who, allowLegacyUi) ==
  /\ auth \in RequiredAuthority(from, allowLegacyUi)
  /\ wf.epoch = epoch
  /\ wf.state = from
  /\ auth.role = "reviewer" => wf.operator # who

\* Mutant: the reviewer may be the operator of the workflow.
ValidTransitionByAnyReviewer(epoch, from, auth, who, allowLegacyUi) ==
  /\ auth \in RequiredAuthority(from, allowLegacyUi)
  /\ wf.active
  /\ wf.epoch = epoch
  /\ wf.state = from

\* validate_transition
ValidTransition(epoch, from, auth, who, allowLegacyUi) ==
  /\ auth \in RequiredAuthority(from, allowLegacyUi)
  /\ wf.active
  /\ wf.epoch = epoch
  /\ wf.state = from
  /\ auth.role = "reviewer" => wf.operator # who

ReasonCodes ==
  {"RUN_GENESIS_ACCEPTED", "PROPOSAL_STAGED", "PROPOSAL_APPROVED", "PROPOSAL_REJECTED",
   "SANDBOX_EXECUTION_APPLIED", "VERIFIED_OBSERVATION_RECORDED",
   "POSTCHECK_ASSESSMENT_RECORDED", "MEMORY_CERTIFY", "MEMORY_QUARANTINE", "MEMORY_REJECT",
   "STATE_TRANSITION_ACCEPTED", "WORKFLOW_RESET_ACCEPTED"}

\* The actors of the events no caller takes.
Services == {"recallops-run-allocator", "recallops-observer", "recallops-legacy-observer"}

AuthorityEvent ==
  [state_before : WorkflowState \cup {"ABSENT"}, state_after : WorkflowState,
   epoch_before : Nat, epoch_after : Nat, role : {"agent", "operator", "reviewer", "system"},
   subject : Subjects \cup Services, reason : ReasonCodes]

\* The ledger event of the step from row `before' to row `after'.
Event(before, after, role, who, reason) ==
  [state_before |-> before.state, state_after |-> after.state,
   epoch_before |-> before.epoch, epoch_after |-> after.epoch,
   role |-> role, subject |-> who, reason |-> reason]

\* append_transition: a workflow without a judge run has no ledger.
AppendTransition(before, after, role, who, reason) ==
  IF JudgeMode THEN Append(ledger, Event(before, after, role, who, reason)) ELSE ledger

\* WorkflowCoordinator.transition, the compare-and-swap on the workflow row and
\* the ledger event it commits.
Transition(epoch, from, to, auth, who, allowLegacyUi, reason) ==
  /\ ValidTransition(epoch, from, auth, who, allowLegacyUi)
  /\ wf' = [wf EXCEPT !.state = to,
                      !.epoch = @ + 1,
                      !.operator = IF auth.role = "operator" THEN who ELSE @,
                      !.reviewer = IF auth.role = "reviewer" THEN who ELSE @]
  /\ ledger' = AppendTransition(wf, wf', auth.role, who, reason)

\* Mutant: the reset leaves no event in the ledger.
InvalidateSilently(epoch, who) ==
  /\ wf.active
  /\ wf.epoch = epoch
  /\ wf' = [wf EXCEPT !.active = FALSE, !.epoch = @ + 1]
  /\ UNCHANGED ledger

\* Mutant: the reset does not spend an epoch.
InvalidateKeepingEpoch(epoch, who) ==
  /\ wf.active
  /\ wf.epoch = epoch
  /\ wf' = [wf EXCEPT !.active = FALSE]
  /\ ledger' = AppendTransition(wf, wf', "operator", who, "WORKFLOW_RESET_ACCEPTED")

\* WorkflowCoordinator.invalidate.
Invalidate(epoch, who) ==
  /\ wf.active
  /\ wf.epoch = epoch
  /\ wf' = [wf EXCEPT !.active = FALSE, !.epoch = @ + 1]
  /\ ledger' = AppendTransition(wf, wf', "operator", who, "WORKFLOW_RESET_ACCEPTED")

\* allocate_run starts a judge workflow in INVESTIGATING and appends the genesis
\* event; analyze starts any other workflow where its analysis puts it.
InitialState(required) ==
  IF required /\ ~JudgeMode THEN "AWAITING_OPERATOR_APPROVAL" ELSE "INVESTIGATING"

InitialWorkflow(required) ==
  [state |-> InitialState(required), epoch |-> 1, active |-> TRUE,
   operator |-> NoOne, reviewer |-> NoOne]

Genesis ==
  [state_before |-> "ABSENT", state_after |-> "INVESTIGATING",
   epoch_before |-> 0, epoch_after |-> 1, role |-> "system",
   subject |-> "recallops-run-allocator", reason |-> "RUN_GENESIS_ACCEPTED"]

NoMemory ==
  [state |-> "absent", outcome |-> "inconclusive", observed_by |-> NoOne,
   reviewed_by |-> NoOne, governance_version |-> 0]

PendingMemory(outcome, observer) ==
  [state |-> "pending_review", outcome |-> outcome, observed_by |-> observer,
   reviewed_by |-> NoOne, governance_version |-> 1]

Init ==
  /\ \E required \in ApprovalRequired :
       /\ wf = InitialWorkflow(required)
       /\ approval = [required |-> required, decision |-> "none", actor |-> NoOne]
  /\ ledger = IF JudgeMode THEN <<Genesis>> ELSE <<>>
  /\ run = "active"
  /\ execution = "none"
  /\ verdict = "none"
  /\ assessment = "none"
  /\ memory = NoMemory
  /\ receipts = {}
  /\ idempotency = {}
  /\ inflight = {}
  /\ observers = {}
  /\ committed = {}

-----------------------------------------------------------------------------
(* Requests arriving and getting lost.                                     *)

\* A handler passes authentication (the session's run is current) with the
\* epoch its caller has read, and is about to run its transaction.
Arrive ==
  /\ run = "active"
  /\ wf.epoch < MaxEpoch
  /\ Cardinality(inflight) < MaxInflight
  /\ \E m \in RequestsAt(wf.epoch) : inflight' = inflight \cup {m}
  /\ UNCHANGED <<wf, ledger, run, evidence, receipts, idempotency, observers, committed>>

\* The answer has been given, or the call was lost: nobody repeats it.
Drop(m) ==
  /\ inflight' = inflight \ {m}
  /\ UNCHANGED <<wf, ledger, run, evidence, receipts, idempotency, observers, committed>>

\* The binding of an idempotency row: the whole request, its precondition too.
Digest(m) == <<m.epoch, m.arg>>

KeyTaken(m) == \E r \in idempotency : r.route = m.route /\ r.key = m.key

Replayable(m) ==
  [route |-> m.route, key |-> m.key, digest |-> Digest(m)] \in idempotency

\* Mutant: the operation commits without its idempotency row.
MutationWithoutRow(m) ==
  /\ ~KeyTaken(m)
  /\ committed' = committed \cup {m}
  /\ UNCHANGED <<idempotency, inflight>>

\* idempotent_webmcp_mutation: the operation runs only for a fresh key, and the
\* row with its response commits together with the operation.
IdempotentMutation(m) ==
  /\ ~KeyTaken(m)
  /\ idempotency' =
       idempotency \cup {[route |-> m.route, key |-> m.key, digest |-> Digest(m)]}
  /\ committed' = committed \cup {m}
  /\ UNCHANGED inflight

\* The state a keyed route leaves.
KeyedSource(m) == IF m.route = "proposal" THEN "INVESTIGATING" ELSE "POSTCHECK_READY"

\* Mutant: the precondition is checked before the key is looked up.
RefusedPreconditionFirst(m) ==
  \/ KeyTaken(m) /\ ~Replayable(m)
  \/ ~ValidTransition(m.epoch, KeyedSource(m), AgentOverWebMcp, m.who, FALSE)

\* 409 or 412: the key is bound to other input, or the precondition is stale.
\* A request whose key and digest match is answered with the stored response.
Refused(m) ==
  /\ ~Replayable(m)
  /\ \/ KeyTaken(m)
     \/ ~ValidTransition(m.epoch, KeyedSource(m), AgentOverWebMcp, m.who, FALSE)

RefuseKeyed(m) ==
  /\ m.route \in KeyedRoutes
  /\ Refused(m)
  /\ inflight' = inflight \ {m}
  /\ UNCHANGED <<wf, ledger, run, evidence, receipts, idempotency, observers, committed>>

-----------------------------------------------------------------------------
(* The transactions of the handlers.                                       *)

\* propose_webmcp_mitigation
Propose(m) ==
  /\ m.route = "proposal"
  /\ IdempotentMutation(m)
  /\ Transition(m.epoch, "INVESTIGATING", "AWAITING_OPERATOR_APPROVAL",
                AgentOverWebMcp, m.who, FALSE, "PROPOSAL_STAGED")
  /\ UNCHANGED <<run, evidence, receipts, observers>>

\* record_approval keeps the first decision of the incident for ever; a second
\* decision inserts nothing and the handler answers 404.
RecordApproval(decision, who) ==
  /\ approval.decision = "none"
  /\ approval' = [approval EXCEPT
                    !.decision = IF decision = "approve" THEN "approved" ELSE "rejected",
                    !.actor = who]

\* decide_approval: a read-only action takes no decision.
DecideApproval(m) == approval.required /\ RecordApproval(m.arg, m.who)

\* approve
Approve(m) ==
  /\ m.route = "approval"
  /\ DecideApproval(m)
  /\ Transition(m.epoch, "AWAITING_OPERATOR_APPROVAL",
                IF m.arg = "approve" THEN "APPROVED_AWAITING_EXECUTION" ELSE "INVESTIGATING",
                OperatorOverUi, m.who, FALSE,
                IF m.arg = "approve" THEN "PROPOSAL_APPROVED" ELSE "PROPOSAL_REJECTED")
  /\ UNCHANGED <<run, execution, verdict, assessment, memory, receipts, calls, observers>>

\* The handler keeps the workflow snapshot its first transaction returned.
StartObserving(epoch) == observers' = observers \cup {[epoch |-> epoch, result |-> "collecting"]}

\* record_sandbox_execution: one row per incident; a repetition gets the recorded one.
RecordSandboxExecution ==
  /\ execution \in {"none", "sandbox"}
  /\ execution' = "sandbox"

\* apply_sandbox_mitigation, first transaction
ApplySandbox(m) ==
  /\ m.route = "sandbox_execution"
  /\ approval.decision = "approved"
  /\ RecordSandboxExecution
  /\ Transition(m.epoch, "APPROVED_AWAITING_EXECUTION", "OBSERVING_POSTCHECK",
                OperatorOverUi, m.who, FALSE, "SANDBOX_EXECUTION_APPLIED")
  /\ StartObserving(wf.epoch + 1)
  /\ UNCHANGED <<run, approval, verdict, assessment, memory, receipts, calls>>

\* Mutant: a retry applies the sandbox action again.
RetryAppliesAgain(m) ==
  /\ m.route = "postcheck_retry"
  /\ execution = "sandbox"
  /\ Transition(m.epoch, "POSTCHECK_UNAVAILABLE", "OBSERVING_POSTCHECK",
                OperatorOverUi, m.who, FALSE, "SANDBOX_EXECUTION_APPLIED")
  /\ StartObserving(wf.epoch + 1)
  /\ UNCHANGED <<run, evidence, receipts, calls>>

\* retry_postcheck, first transaction: the recorded execution is reused.
RetryPostcheck(m) ==
  /\ m.route = "postcheck_retry"
  /\ execution = "sandbox"
  /\ Transition(m.epoch, "POSTCHECK_UNAVAILABLE", "OBSERVING_POSTCHECK",
                OperatorOverUi, m.who, FALSE, "STATE_TRANSITION_ACCEPTED")
  /\ StartObserving(wf.epoch + 1)
  /\ UNCHANGED <<run, evidence, receipts, calls>>

\* observation_provider.collect and evaluate_observation, outside any
\* transaction: telemetry is unavailable, or policy classifies it.
Collect(o) ==
  /\ o.result = "collecting"
  /\ \E result \in PostcheckClassification \cup {"unavailable"} :
       observers' = (observers \ {o}) \cup {[o EXCEPT !.result = result]}
  /\ UNCHANGED <<wf, ledger, run, evidence, receipts, calls>>

\* record_postcheck: one observation and verdict per incident, never a different one.
RecordPostcheck(result) ==
  /\ verdict \in {"none", result}
  /\ verdict' = result

\* record_observation_atomically and complete_retry_atomically
RecordObservation(o) ==
  /\ o.result \in PostcheckClassification
  /\ RecordPostcheck(o.result)
  /\ Transition(o.epoch, "OBSERVING_POSTCHECK", "POSTCHECK_READY",
                SystemAuthority, "recallops-observer", FALSE, "VERIFIED_OBSERVATION_RECORDED")
  /\ observers' = observers \ {o}
  /\ UNCHANGED <<run, approval, execution, assessment, memory, receipts, calls>>

\* Mutant: missing telemetry is stored as a verdict of its own kind.
UnavailableAsVerdict(o) ==
  /\ o.result = "unavailable"
  /\ Transition(o.epoch, "OBSERVING_POSTCHECK", "POSTCHECK_UNAVAILABLE",
                SystemAuthority, "recallops-observer", FALSE, "STATE_TRANSITION_ACCEPTED")
  /\ verdict' = "unavailable"
  /\ observers' = observers \ {o}
  /\ UNCHANGED <<run, approval, execution, assessment, memory, receipts, calls>>

\* Mutant: missing telemetry is stored as an inconclusive observation.
UnavailableAsInconclusive(o) ==
  /\ o.result = "unavailable"
  /\ Transition(o.epoch, "OBSERVING_POSTCHECK", "POSTCHECK_UNAVAILABLE",
                SystemAuthority, "recallops-observer", FALSE, "STATE_TRANSITION_ACCEPTED")
  /\ verdict' = "inconclusive"
  /\ observers' = observers \ {o}
  /\ UNCHANGED <<run, approval, execution, assessment, memory, receipts, calls>>

\* Mutant: the failure of the telemetry call is swallowed.
UnavailableIgnored(o) ==
  /\ o.result = "unavailable"
  /\ observers' = observers \ {o}
  /\ UNCHANGED <<wf, ledger, run, evidence, receipts, calls>>

\* mark_unavailable and retry_unavailable: no evidence row is written.
MarkUnavailable(o) ==
  /\ o.result = "unavailable"
  /\ Transition(o.epoch, "OBSERVING_POSTCHECK", "POSTCHECK_UNAVAILABLE",
                SystemAuthority, "recallops-observer", FALSE, "STATE_TRANSITION_ACCEPTED")
  /\ observers' = observers \ {o}
  /\ UNCHANGED <<run, evidence, receipts, calls>>

\* The second transaction finds another epoch, state or observation: 409.
ObservationConflict(o) ==
  /\ o.result # "collecting"
  /\ \/ ~ValidTransition(o.epoch, "OBSERVING_POSTCHECK", SystemAuthority,
                         "recallops-observer", FALSE)
     \/ o.result \in PostcheckClassification /\ verdict \notin {"none", o.result}
  /\ observers' = observers \ {o}
  /\ UNCHANGED <<wf, ledger, run, evidence, receipts, calls>>

\* The process dies, or collect raises something other than DependencyUnavailable.
CrashObserver(o) ==
  /\ CrashAllowed
  /\ observers' = observers \ {o}
  /\ UNCHANGED <<wf, ledger, run, evidence, receipts, calls>>

ObserverStep(o) ==
  Collect(o) \/ RecordObservation(o) \/ MarkUnavailable(o) \/ ObservationConflict(o)

\* record_postcheck_assessment of the store: one assessment per observation.
RecordPostcheckAssessment(classification) ==
  /\ assessment \in {"none", classification}
  /\ assessment' = classification

\* Mutant: the memory takes its sign from the agent's assessment.
PersistAssessedOutcome(m) ==
  /\ verdict # "none"
  /\ execution = "sandbox"
  /\ RecordPostcheckAssessment(m.arg)
  /\ memory.state = "absent"
  /\ memory' = PendingMemory(OutcomeSemantics[m.arg], m.who)

\* persist_verified_outcome: the assessment and the pending memory.
PersistVerifiedOutcome(m) ==
  /\ verdict # "none"
  /\ execution = "sandbox"
  /\ RecordPostcheckAssessment(m.arg)
  /\ memory.state = "absent"
  /\ memory' = PendingMemory(OutcomeSemantics[verdict], m.who)

\* assess_webmcp_postcheck
AssessWebMcp(m) ==
  /\ m.route = "assessment"
  /\ IdempotentMutation(m)
  /\ PersistVerifiedOutcome(m)
  /\ Transition(m.epoch, "POSTCHECK_READY", "PENDING_REVIEW",
                AgentOverWebMcp, m.who, FALSE, "POSTCHECK_ASSESSMENT_RECORDED")
  /\ UNCHANGED <<run, approval, execution, verdict, receipts, observers>>

\* record_postcheck_assessment, the incident route: no idempotency key
RecordAssessment(m) ==
  /\ m.route = "postcheck_assessment"
  /\ PersistVerifiedOutcome(m)
  /\ Transition(m.epoch, "POSTCHECK_READY", "PENDING_REVIEW",
                AgentOverWebMcp, m.who, FALSE, "STATE_TRANSITION_ACCEPTED")
  /\ UNCHANGED <<run, approval, execution, verdict, receipts, calls, observers>>

\* prepare_execution reads the decision before the transaction; a decision taken in
\* between moves the epoch, so reading it in the transaction is the same.
PrepareExecution == approval.required => approval.decision = "approved"

\* record_execution: one attestation per incident; a repetition gets the recorded one.
RecordExecution ==
  /\ execution \in {"none", "attested"}
  /\ execution' = "attested"

\* attest_execution
AttestExecution(m) ==
  /\ m.route = "execution"
  /\ PrepareExecution
  /\ wf.state \in {"INVESTIGATING", "APPROVED_AWAITING_EXECUTION"}
  /\ Transition(m.epoch, wf.state, "OBSERVING_POSTCHECK",
                OperatorOverUi, m.who, TRUE, "STATE_TRANSITION_ACCEPTED")
  /\ RecordExecution
  /\ UNCHANGED <<run, approval, verdict, assessment, memory, receipts, calls, observers>>

\* observe_outcome: prepare_outcome requires the attested execution; the sign of
\* the reported outcome_score is the outcome of the memory.
ObserveOutcome(m) ==
  /\ m.route = "outcome"
  /\ execution = "attested"
  /\ memory.state = "absent"
  /\ Transition(m.epoch, "OBSERVING_POSTCHECK", "PENDING_REVIEW",
                SystemAuthority, "recallops-legacy-observer", FALSE,
                "STATE_TRANSITION_ACCEPTED")
  /\ memory' = PendingMemory(m.arg, m.who)
  /\ UNCHANGED <<run, approval, execution, verdict, assessment, receipts, calls, observers>>

-----------------------------------------------------------------------------
(* Memory governance and review.                                           *)

GovernanceTarget ==
  [a \in GovernanceAction \cup {"revoke"} |->
     CASE a \in {"certify", "activate"} -> "active"
       [] a = "quarantine" -> "quarantined"
       [] a = "reject" -> "rejected"
       [] a = "revoke" -> "revoked"]

AllowedTargets ==
  [s \in MemoryState |->
     CASE s = "pending_review" -> {"active", "quarantined", "rejected"}
       [] s = "active" -> {"quarantined", "revoked"}
       [] s = "quarantined" -> {"active", "rejected", "revoked"}
       [] OTHER -> {}]

\* Mutant: governing a memory leaves its governance_version alone.
GovernWithoutVersion(action, who) ==
  /\ GovernanceTarget[action] \in AllowedTargets[memory.state]
  /\ GovernanceTarget[action] = "active" =>
       memory.outcome # "inconclusive" /\ memory.observed_by # who
  /\ memory' = [memory EXCEPT !.state = GovernanceTarget[action], !.reviewed_by = who]

\* recallops_govern_memory, the checks and the update; the table's check
\* constraint keeps inconclusive evidence from becoming active by any action.
GovernMemory(action, who) ==
  /\ GovernanceTarget[action] \in AllowedTargets[memory.state]
  /\ GovernanceTarget[action] = "active" =>
       memory.outcome # "inconclusive" /\ memory.observed_by # who
  /\ memory' = [memory EXCEPT !.state = GovernanceTarget[action],
                              !.reviewed_by = who,
                              !.governance_version = @ + 1]

\* reviewer_scope: independent of the run's operator and of the observer.
IndependentReviewer(who) == who \notin Operators \cup {memory.observed_by}

DispositionReason ==
  [d \in Dispositions |->
     CASE d = "certify" -> "MEMORY_CERTIFY"
       [] d = "quarantine" -> "MEMORY_QUARANTINE"
       [] d = "reject" -> "MEMORY_REJECT"]

\* Mutant: the receipt is requested for the prefix before the review event.
RequestReceiptForPrefix ==
  /\ ledger'[Len(ledger')].state_after = "REVIEWED"
  /\ receipts' = receipts \cup {Len(ledger)}

\* request_receipt: the target is the last event, which must be a review.
RequestReceipt ==
  /\ ledger'[Len(ledger')].state_after = "REVIEWED"
  /\ Len(ledger') \notin receipts
  /\ receipts' = receipts \cup {Len(ledger')}

\* disposition_reviewer_evidence
Disposition(m) ==
  /\ m.route = "disposition"
  /\ IndependentReviewer(m.who)
  /\ memory.state = "pending_review"
  /\ GovernMemory(m.arg, m.who)
  /\ Transition(m.epoch, "PENDING_REVIEW", "REVIEWED", ReviewerOverUi, m.who, FALSE,
                DispositionReason[m.arg])
  /\ RequestReceipt
  /\ UNCHANGED <<run, approval, execution, verdict, assessment, calls, observers>>

\* revoke_reviewer_evidence: governs the memory and leaves the workflow, the
\* ledger and the receipts alone.
Revoke(m) ==
  /\ m.route = "revocation"
  /\ IndependentReviewer(m.who)
  /\ wf.active
  /\ wf.state = "REVIEWED"
  /\ wf.epoch = m.epoch
  /\ memory.state = "active"
  /\ GovernMemory("revoke", m.who)
  /\ UNCHANGED <<wf, ledger, run, approval, execution, verdict, assessment, receipts,
                 calls, observers>>

\* govern_memory, the route of the service mode
GovernRoute(m) ==
  /\ m.route = "governance"
  /\ GovernMemory(m.arg, m.who)
  /\ Transition(m.epoch, "PENDING_REVIEW", "REVIEWED", ReviewerOverUi, m.who, FALSE,
                "STATE_TRANSITION_ACCEPTED")
  /\ UNCHANGED <<run, approval, execution, verdict, assessment, receipts, calls, observers>>

-----------------------------------------------------------------------------
(* Reset and expiry.                                                       *)

\* reset_operator_run: run and workflow are closed in one transaction.
ResetRun(m) ==
  /\ m.route = "run_reset"
  /\ run = "active"
  /\ Invalidate(m.epoch, m.who)
  /\ run' = "reset"
  /\ UNCHANGED <<evidence, receipts, calls, observers>>

\* reset_workflow
ResetWorkflow(m) ==
  /\ m.route = "workflow_reset"
  /\ Invalidate(m.epoch, m.who)
  /\ UNCHANGED <<run, evidence, receipts, calls, observers>>

\* get_run marks an active run whose time is over.
ExpireRun ==
  /\ JudgeMode
  /\ run = "active"
  /\ run' = "expired"
  /\ UNCHANGED <<wf, ledger, evidence, receipts, calls, observers>>

-----------------------------------------------------------------------------
Handle(m) ==
  \/ Drop(m) \/ RefuseKeyed(m)
  \/ Propose(m) \/ Approve(m) \/ ApplySandbox(m) \/ RetryPostcheck(m)
  \/ AssessWebMcp(m) \/ RecordAssessment(m) \/ AttestExecution(m) \/ ObserveOutcome(m)
  \/ Disposition(m) \/ Revoke(m) \/ GovernRoute(m) \/ ResetRun(m) \/ ResetWorkflow(m)

Next ==
  \/ Arrive
  \/ \E m \in inflight : Handle(m)
  \/ \E o \in observers : ObserverStep(o) \/ CrashObserver(o)
  \/ ExpireRun

\* A handler that has committed its first transaction runs on until its second
\* one is answered: it waits for nobody but the telemetry call, which times out.
Fairness == WF_vars(\E o \in observers : ObserverStep(o))

Spec == Init /\ [][Next]_vars /\ Fairness

-----------------------------------------------------------------------------
(* The WebMCP manifest.                                                    *)

Capabilities ==
  [s \in WorkflowState |->
     {"inspect_incident"} \cup
     CASE s = "INVESTIGATING" -> {"propose_mitigation"}
       [] s = "POSTCHECK_READY" -> {"record_postcheck_assessment"}
       [] s = "REVIEWED" -> {"recall_reviewed_memory"}
       [] OTHER -> {}]

RecallEligible == memory.state = "active" /\ memory.outcome # "inconclusive"

\* The tools webmcp_manifest offers to the agent.
AvailableTools ==
  IF ~wf.active THEN {}
  ELSE {t \in Capabilities[wf.state] : t = "recall_reviewed_memory" => RecallEligible}

\* What the manifest's etag is computed from, for a fixed run.
Etag == <<wf.epoch, memory.governance_version>>

-----------------------------------------------------------------------------
(* Properties.                                                             *)

\* Every row and every request has the shape its table or schema gives it.
TypeOK ==
  /\ wf \in [state : WorkflowState, epoch : Nat, active : BOOLEAN,
             operator : Subjects \cup {NoOne}, reviewer : Subjects \cup {NoOne}]
  /\ ledger \in Seq(AuthorityEvent)
  /\ run \in {"active", "reset", "expired"}
  /\ approval \in [required : BOOLEAN, decision : {"none", "approved", "rejected"},
                   actor : Subjects \cup {NoOne}]
  /\ execution \in {"none", "sandbox", "attested"}
  /\ verdict \in PostcheckClassification \cup {"none"}
  /\ assessment \in PostcheckClassification \cup {"none"}
  /\ memory \in [state : MemoryState, outcome : MemoryOutcome,
                 observed_by : Subjects \cup {NoOne}, reviewed_by : Subjects \cup {NoOne},
                 governance_version : Nat]
  /\ receipts \subseteq Nat
  /\ idempotency \subseteq [route : KeyedRoutes, key : Keys \cup {NoKey},
                            digest : Nat \X Args]
  /\ inflight \subseteq Request
  /\ observers \subseteq [epoch : Nat,
                          result : PostcheckClassification \cup {"collecting", "unavailable"}]
  /\ committed \subseteq Request

\* The ledger of a judge run is the whole history of its workflow row: event i
\* takes epoch i - 1 to epoch i and starts in the state event i - 1 ended in, the
\* last event ends in the row's state and epoch, and the row is inactive exactly
\* when the last event is the reset (append_transition in every coordinator call).
LedgerMirrorsWorkflow ==
  JudgeMode =>
    /\ ledger # <<>> /\ Len(ledger) = wf.epoch
    /\ ledger[1].state_before = "ABSENT"
    /\ \A i \in 1 .. Len(ledger) :
         ledger[i].epoch_before = i - 1 /\ ledger[i].epoch_after = i
    /\ \A i \in 2 .. Len(ledger) : ledger[i].state_before = ledger[i - 1].state_after
    /\ ledger[Len(ledger)].state_after = wf.state
    /\ \A i \in 1 .. Len(ledger) :
         ledger[i].reason = "WORKFLOW_RESET_ACCEPTED" <=> ~wf.active /\ i = Len(ledger)

\* The rows that exist are the ones the workflow has earned: no verdict before
\* the sandbox ran under an approval, no memory before a verdict was assessed,
\* nothing at all while telemetry is unavailable, and the memory carries the sign
\* of the policy verdict (the handlers of a judge run, across retries).
EvidenceMatchesStage ==
  JudgeMode =>
    /\ wf.state \in {"INVESTIGATING", "AWAITING_OPERATOR_APPROVAL"} =>
         approval.decision # "approved"
    /\ wf.state \notin {"INVESTIGATING", "AWAITING_OPERATOR_APPROVAL"} =>
         approval.decision = "approved"
    /\ execution = "sandbox" <=>
         wf.state \notin {"INVESTIGATING", "AWAITING_OPERATOR_APPROVAL",
                          "APPROVED_AWAITING_EXECUTION"}
    /\ verdict # "none" <=> wf.state \in {"POSTCHECK_READY", "PENDING_REVIEW", "REVIEWED"}
    /\ assessment # "none" <=> wf.state \in {"PENDING_REVIEW", "REVIEWED"}
    /\ memory.state # "absent" <=> wf.state \in {"PENDING_REVIEW", "REVIEWED"}
    /\ memory.state = "pending_review" <=> wf.state = "PENDING_REVIEW"
    /\ memory.state # "absent" => memory.outcome = OutcomeSemantics[verdict]

\* The events of a certified run by the state they reach and the role that took
\* them, in the order they must commit.
CertifiedChain ==
  <<<<"AWAITING_OPERATOR_APPROVAL", "agent">>, <<"APPROVED_AWAITING_EXECUTION", "operator">>,
    <<"OBSERVING_POSTCHECK", "operator">>, <<"POSTCHECK_READY", "system">>,
    <<"PENDING_REVIEW", "agent">>, <<"REVIEWED", "reviewer">>>>

Taken(i) == <<ledger[i].state_after, ledger[i].role>>

\* The agent is offered recall_reviewed_memory only over evidence whose whole
\* authority chain is in the ledger in order (proposal, approval, execution,
\* observation, assessment, certification), whose verdict is conclusive, and whose
\* reviewer neither approved, nor operated, nor observed it (webmcp_manifest).
RecallNeedsWholeChain ==
  (JudgeMode /\ "recall_reviewed_memory" \in AvailableTools) =>
    /\ \E i \in 1 .. Len(ledger) : ledger[i].reason = "MEMORY_CERTIFY"
    /\ \A i \in 1 .. Len(ledger), k \in 2 .. Len(CertifiedChain) :
         Taken(i) = CertifiedChain[k] =>
           \E j \in 1 .. i - 1 : Taken(j) = CertifiedChain[k - 1]
    /\ verdict # "inconclusive"
    /\ memory.reviewed_by \notin {NoOne, approval.actor, wf.operator, memory.observed_by}

\* However often requests are repeated and telemetry is retried, the sandbox
\* action of a judge run is applied once, and only after its approval
\* (retry_postcheck reuses the recorded execution).
SandboxAppliedOnce ==
  \A i, j \in 1 .. Len(ledger) :
    /\ ledger[i].reason = "SANDBOX_EXECUTION_APPLIED"
    /\ ledger[j].reason \in {"SANDBOX_EXECUTION_APPLIED", "PROPOSAL_REJECTED"}
    => i = j

\* A judge run has a receipt request for its review and for nothing else, aimed
\* at the review event's own sequence: two reviewers never both succeed, and no
\* reviewed run is left without a request (disposition_atomically).
OneReceiptPerReview ==
  JudgeMode =>
    /\ receipts = {i \in 1 .. Len(ledger) :
                     ledger[i].reason \in {"MEMORY_CERTIFY", "MEMORY_QUARANTINE",
                                           "MEMORY_REJECT"}}
    /\ \A i, j \in receipts : i = j
    /\ wf.state = "REVIEWED" <=> receipts # {}

\* Evidence becomes and stays active only by a subject other than its observer
\* and other than the operator the workflow row names, and is never inconclusive
\* (validate_transition, recallops_govern_memory, both modes).
CertifiedByAnother ==
  memory.state = "active" =>
    /\ memory.reviewed_by \notin {NoOne, memory.observed_by, wf.operator}
    /\ memory.outcome # "inconclusive"

\* A repeated proposal or assessment whose first copy took effect is answered
\* from the stored response, never with a conflict, whatever state the workflow
\* has reached since (idempotent_webmcp_mutation looks the key up before it checks
\* the precondition, and the precondition is part of the digest).
ReplayNeverRefused == \A m \in committed : ~Refused(m)

KeyedReason ==
  [r \in KeyedRoutes |->
     IF r = "proposal" THEN "PROPOSAL_STAGED" ELSE "POSTCHECK_ASSESSMENT_RECORDED"]

\* The idempotency rows and the agent's WebMCP events of the ledger correspond one
\* to one: a row stands for the event at the epoch its precondition named, and no
\* agent event was written without a row or twice under one key.
KeyedExactlyOnce ==
  /\ \A r \in idempotency :
       /\ r.digest[1] + 1 \in 1 .. Len(ledger)
       /\ ledger[r.digest[1] + 1].reason = KeyedReason[r.route]
  /\ \A i \in 1 .. Len(ledger), route \in KeyedRoutes :
       ledger[i].reason = KeyedReason[route] =>
         \E r \in idempotency : r.route = route /\ r.digest[1] = i - 1
  /\ \A r, s \in idempotency :
       r.route = s.route /\ (r.key = s.key \/ r.digest[1] = s.digest[1]) => r = s

\* Once the run is reset or the workflow invalidated, no late request, retry or
\* observation changes the workflow, its ledger, its evidence or its receipts.
NothingAfterReset ==
  [][(run = "reset" \/ ~wf.active) => UNCHANGED <<wf, ledger, evidence, receipts>>]_vars

\* Two manifests with the same etag offer the same tools: every step that
\* changes the agent's tools changes the epoch or the memory's governance
\* version, so a 304 answer never hides a withdrawn tool (webmcp_manifest).
EtagCoversTools == [][AvailableTools' # AvailableTools => Etag' # Etag]_vars

\* An observation that has started is always resolved: the workflow does not stay
\* in OBSERVING_POSTCHECK (apply_sandbox_mitigation, retry_postcheck).
Observing == wf.active /\ wf.state = "OBSERVING_POSTCHECK" /\ execution = "sandbox"
ObservationResolves == Observing ~> ~Observing

\* Documented, and not what the code does: in AWAITING_OPERATOR_APPROVAL the next
\* transition is "Operator approves/rejects" (spec.md), so the incident has no
\* decision yet for record_approval to collide with.
OperatorCanDecide ==
  (wf.active /\ wf.state = "AWAITING_OPERATOR_APPROVAL") => approval.decision = "none"

\* Every behaviour of the handlers is a behaviour of the abstract workflow.
Abstract == INSTANCE AuthorityWorkflow WITH
  Legacy <- ~JudgeMode, InitialStages <- {InitialState(r) : r \in ApprovalRequired},
  stage <- wf.state, epoch <- wf.epoch, open <- wf.active, recallable <- RecallEligible

ImplementsAuthorityWorkflow == Abstract!AbsSpec
====
