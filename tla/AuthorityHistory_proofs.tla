---------------------- MODULE AuthorityHistory_proofs ----------------------
(***************************************************************************)
(* What a run's history says about its present: who certified a memory,    *)
(* what the ledger holds before a tool is offered, which events the        *)
(* idempotency rows stand for, and that every step of the handlers is a    *)
(* step of the abstract workflow.  Two frame lemmas (AnyStep, JudgeStep)   *)
(* list what any step of the fifteen handlers, the observers and the clock *)
(* can do; the invariants are concluded from them.                         *)
(***************************************************************************)
EXTENDS RunAuthority_proofs

\* Who may send what: decisions come from operators, keyed calls exist in judge
\* runs only.
LEMMA RequestRoles ==
  ASSUME NEW m \in Request
  PROVE  /\ m.route = "approval" => m.who \in Operators
         /\ ~JudgeMode => m.route \notin KeyedRoutes
  <1> DEFINE e == m.epoch
  <1>1. m \in RequestsAt(e)
    BY DEF Request
  <1> HIDE DEF e
  <1>2. m \in CommonRequests(e) \/ (JudgeMode /\ m \in JudgeRequests(e))
          \/ (~JudgeMode /\ m \in LegacyRequests(e))
    BY <1>1, ModeAssumption DEF RequestsAt
  <1>3. CASE m \in CommonRequests(e)
    BY <1>3 DEF CommonRequests, KeyedRoutes
  <1>4. CASE JudgeMode /\ m \in JudgeRequests(e)
    BY <1>4 DEF JudgeRequests
  <1>5. CASE ~JudgeMode /\ m \in LegacyRequests(e)
    BY <1>5 DEF LegacyRequests, KeyedRoutes
  <1> QED BY <1>2, <1>3, <1>4, <1>5

-----------------------------------------------------------------------------
(* A step seen from the workflow row and the memory, in both modes.        *)

\* The row and the memory stay as they are.
Stays == UNCHANGED <<wf, memory>>

\* The reviewer withdraws a certified memory; the row stays.
Withdraws ==
  /\ UNCHANGED wf /\ wf.active /\ wf.state = "REVIEWED" /\ memory.state = "active"
  /\ memory'.state = "revoked"
  /\ memory'.governance_version = memory.governance_version + 1

\* The workflow is closed where it stands.
Closes ==
  /\ wf.active /\ wf'.active = FALSE /\ wf'.epoch = wf.epoch + 1
  /\ wf'.state = wf.state /\ wf'.operator = wf.operator /\ UNCHANGED memory

\* What an accepted transition may do to the memory: nothing, record it, or let a
\* reviewer other than its observer and the operator govern it.
Governs ==
  /\ wf.state = "PENDING_REVIEW" /\ wf'.state = "REVIEWED" /\ wf'.operator = wf.operator
  /\ memory.state \in {"pending_review", "active", "quarantined"}
  /\ memory'.state \in {"active", "quarantined", "rejected"}
  /\ memory'.outcome = memory.outcome /\ memory'.observed_by = memory.observed_by
  /\ memory'.state = "active" =>
       /\ memory.outcome # "inconclusive"
       /\ memory'.reviewed_by \notin {NoOne, memory.observed_by, wf.operator}
       /\ JudgeMode => memory'.reviewed_by \notin Operators

Records == memory.state = "absent" /\ memory'.state = "pending_review"

Advances ==
  /\ wf.active /\ wf'.active /\ wf'.epoch = wf.epoch + 1
  /\ <<wf.state, wf'.state>> \in Abstract!Edges
  /\ \/ UNCHANGED memory /\ wf'.state # "REVIEWED"
     \/ Records /\ wf'.state = "PENDING_REVIEW"
     \/ Governs

\* A transition keeps the operator unless the operator took it.
LEMMA TransitionOperator ==
  ASSUME TypeOK, NEW epoch, NEW from, NEW to, NEW auth \in Authority, NEW who, NEW legacy,
         NEW reason, Transition(epoch, from, to, auth, who, legacy, reason),
         auth.role # "operator"
  PROVE  wf'.operator = wf.operator
  <1>1. wf \in WorkflowRow
    BY DEF TypeOK, WorkflowRow
  <1> QED BY <1>1 DEF Transition, WorkflowRow

\* What governing a memory does to its row.
LEMMA GovernFacts ==
  ASSUME TypeOK, NEW a \in GovernanceAction \cup {"revoke"}, NEW who \in Subjects,
         GovernMemory(a, who)
  PROVE  /\ memory'.state = GovernanceTarget[a]
         /\ memory'.outcome = memory.outcome /\ memory'.observed_by = memory.observed_by
         /\ memory'.reviewed_by = who
         /\ memory'.governance_version = memory.governance_version + 1
         /\ memory.state \in {"pending_review", "active", "quarantined"}
         /\ memory'.state = "active" => memory.outcome # "inconclusive" /\ memory.observed_by # who
  <1>1. memory \in MemoryRow
    BY DEF TypeOK, MemoryRow
  <1>2. memory.state \in {"pending_review", "active", "quarantined"}
    BY <1>1 DEF GovernMemory, AllowedTargets, MemoryRow
  <1>3. /\ memory'.state = GovernanceTarget[a]
        /\ memory'.outcome = memory.outcome /\ memory'.observed_by = memory.observed_by
        /\ memory'.reviewed_by = who
        /\ memory'.governance_version = memory.governance_version + 1
    BY <1>1 DEF GovernMemory, MemoryRow
  <1> QED BY <1>2, <1>3 DEF GovernMemory

\* The edges the handlers take are edges of the abstract workflow.
LEMMA HandlerEdges ==
  /\ <<"AWAITING_OPERATOR_APPROVAL", "APPROVED_AWAITING_EXECUTION">> \in Abstract!Edges
  /\ <<"AWAITING_OPERATOR_APPROVAL", "INVESTIGATING">> \in Abstract!Edges
  /\ <<"APPROVED_AWAITING_EXECUTION", "OBSERVING_POSTCHECK">> \in Abstract!Edges
  /\ <<"OBSERVING_POSTCHECK", "POSTCHECK_READY">> \in Abstract!Edges
  /\ <<"OBSERVING_POSTCHECK", "POSTCHECK_UNAVAILABLE">> \in Abstract!Edges
  /\ <<"POSTCHECK_UNAVAILABLE", "OBSERVING_POSTCHECK">> \in Abstract!Edges
  /\ <<"POSTCHECK_READY", "PENDING_REVIEW">> \in Abstract!Edges
  /\ <<"PENDING_REVIEW", "REVIEWED">> \in Abstract!Edges
  /\ JudgeMode => <<"INVESTIGATING", "AWAITING_OPERATOR_APPROVAL">> \in Abstract!Edges
  /\ ~JudgeMode => <<"INVESTIGATING", "OBSERVING_POSTCHECK">> \in Abstract!Edges
  /\ ~JudgeMode => <<"OBSERVING_POSTCHECK", "PENDING_REVIEW">> \in Abstract!Edges
  BY DEF Abstract!Edges, Abstract!GovernedEdges, Abstract!LegacyEdges, Abstract!ProposalEdge

\* A transition that leaves the memory alone, or records it, along one of the edges.
LEMMA TransitionAdvances ==
  ASSUME TypeOK, NEW epoch, NEW from, NEW to, NEW auth, NEW who, NEW legacy, NEW reason,
         Transition(epoch, from, to, auth, who, legacy, reason),
         <<from, to>> \in Abstract!Edges,
         \/ UNCHANGED memory /\ to # "REVIEWED"
         \/ Records /\ to = "PENDING_REVIEW"
  PROVE  Advances
  <1>1. /\ wf.active /\ wf.state = from /\ wf'.state = to
        /\ wf'.epoch = wf.epoch + 1 /\ wf'.active = wf.active
    BY TransitionFacts
  <1> QED BY <1>1 DEF Advances

\* A review: the caller is a reviewer, so not the operator of the row, and the
\* row's operator stays.
LEMMA ReviewAdvances ==
  ASSUME TypeOK, NEW epoch, NEW who \in Subjects, NEW a \in GovernanceAction, NEW reason,
         Transition(epoch, "PENDING_REVIEW", "REVIEWED", ReviewerOverUi, who, FALSE, reason),
         GovernMemory(a, who),
         JudgeMode => who \notin Operators
  PROVE  Advances
  <1>1. /\ wf.active /\ wf.state = "PENDING_REVIEW" /\ wf'.state = "REVIEWED"
        /\ wf'.epoch = wf.epoch + 1 /\ wf'.active = wf.active
    BY TransitionFacts
  <1>2. wf'.operator = wf.operator /\ wf.operator # who
    BY TransitionOperator, CoordinatorConstants DEF Transition, ValidTransition
  <1>3. /\ memory'.state = GovernanceTarget[a]
        /\ memory'.outcome = memory.outcome /\ memory'.observed_by = memory.observed_by
        /\ memory'.reviewed_by = who
        /\ memory.state \in {"pending_review", "active", "quarantined"}
        /\ memory'.state = "active" => memory.outcome # "inconclusive" /\ memory.observed_by # who
    BY GovernFacts
  <1>4. GovernanceTarget[a] \in {"active", "quarantined", "rejected"}
    BY DEF GovernanceTarget, GovernanceAction, Dispositions
  <1>5. Governs
    BY <1>1, <1>2, <1>3, <1>4, SubjectAssumption DEF Governs
  <1> QED BY <1>1, <1>5, HandlerEdges DEF Advances

\* Any step, seen from the workflow row and the memory.
LEMMA AnyStep ==
  ASSUME TypeOK, [Next]_vars
  PROVE  Stays \/ Withdraws \/ Closes \/ Advances
  <1> USE CoordinatorConstants, HandlerEdges
  <1>1. CASE Arrive \/ ExpireRun \/ UNCHANGED vars
    BY <1>1 DEF Arrive, ExpireRun, vars, evidence, Stays
  <1>2. ASSUME NEW m \in inflight, Handle(m)
        PROVE  Stays \/ Withdraws \/ Closes \/ Advances
    <2>0. /\ m \in Request /\ m.who \in Subjects
          /\ m.route = "approval" => m.arg \in Decisions
          /\ m.route = "disposition" => m.arg \in Dispositions
          /\ m.route = "governance" => m.arg \in GovernanceAction
          /\ JudgeMode => m.route \notin LegacyRoutes
          /\ ~JudgeMode => m.route \notin KeyedRoutes
      BY RequestFacts, RequestRoles DEF TypeOK
    <2>1. CASE Drop(m) \/ RefuseKeyed(m)
      BY <2>1 DEF Drop, RefuseKeyed, evidence, Stays
    <2>2. CASE Propose(m)
      <3>1. JudgeMode
        BY <2>0, <2>2, ModeAssumption DEF Propose, KeyedRoutes
      <3> QED BY <2>2, <3>1, TransitionAdvances DEF Propose, evidence
    <2>3. CASE Approve(m)
      <3>1. CASE m.arg = "approve"
        BY <2>3, <3>1, TransitionAdvances DEF Approve
      <3>2. CASE m.arg # "approve"
        BY <2>3, <3>2, TransitionAdvances DEF Approve
      <3> QED BY <3>1, <3>2
    <2>4. CASE ApplySandbox(m)
      BY <2>4, TransitionAdvances DEF ApplySandbox
    <2>5. CASE RetryPostcheck(m)
      BY <2>5, TransitionAdvances DEF RetryPostcheck, evidence
    <2>p. PersistVerifiedOutcome(m) => Records
      BY DEF PersistVerifiedOutcome, PendingMemory, Records
    <2>6. CASE AssessWebMcp(m)
      BY <2>6, <2>p, TransitionAdvances DEF AssessWebMcp
    <2>7. CASE RecordAssessment(m)
      BY <2>7, <2>p, TransitionAdvances DEF RecordAssessment
    <2>8. CASE AttestExecution(m)
      <3>1. ~JudgeMode
        BY <2>0, <2>8 DEF AttestExecution, LegacyRoutes
      <3>2. <<wf.state, "OBSERVING_POSTCHECK">> \in Abstract!Edges
        BY <2>8, <3>1 DEF AttestExecution
      <3> QED BY <2>8, <3>2, TransitionAdvances DEF AttestExecution
    <2>9. CASE ObserveOutcome(m)
      <3>1. ~JudgeMode
        BY <2>0, <2>9 DEF ObserveOutcome, LegacyRoutes
      <3>2. Records
        BY <2>9 DEF ObserveOutcome, PendingMemory, Records
      <3> QED BY <2>9, <3>1, <3>2, TransitionAdvances DEF ObserveOutcome
    <2>10. CASE Disposition(m)
      <3>1. m.who \notin Operators /\ m.arg \in GovernanceAction
        BY <2>0, <2>10 DEF Disposition, IndependentReviewer, GovernanceAction
      <3> QED BY <2>0, <2>10, <3>1, ReviewAdvances DEF Disposition
    <2>11. CASE GovernRoute(m)
      <3>1. ~JudgeMode /\ m.arg \in GovernanceAction
        BY <2>0, <2>11 DEF GovernRoute, LegacyRoutes
      <3> QED BY <2>0, <2>11, <3>1, ReviewAdvances DEF GovernRoute
    <2>12. CASE Revoke(m)
      <3>1. /\ memory'.state = GovernanceTarget["revoke"]
            /\ memory'.governance_version = memory.governance_version + 1
        BY <2>0, <2>12, GovernFacts DEF Revoke
      <3>2. GovernanceTarget["revoke"] = "revoked"
        BY DEF GovernanceTarget, GovernanceAction, Dispositions
      <3> QED BY <2>12, <3>1, <3>2 DEF Revoke, Withdraws
    <2>13. CASE ResetRun(m) \/ ResetWorkflow(m)
      <3>1. wf \in WorkflowRow
        BY DEF TypeOK, WorkflowRow
      <3>2. Invalidate(m.epoch, m.who) /\ UNCHANGED memory
        BY <2>13 DEF ResetRun, ResetWorkflow, evidence
      <3> QED BY <3>1, <3>2 DEF Invalidate, WorkflowRow, Closes
    <2> QED BY <1>2, <2>1, <2>2, <2>3, <2>4, <2>5, <2>6, <2>7, <2>8, <2>9, <2>10, <2>11,
               <2>12, <2>13 DEF Handle
  <1>3. ASSUME NEW o \in observers, ObserverStep(o) \/ CrashObserver(o)
        PROVE  Stays \/ Withdraws \/ Closes \/ Advances
    <2>1. CASE Collect(o) \/ ObservationConflict(o) \/ CrashObserver(o)
      BY <2>1 DEF Collect, ObservationConflict, CrashObserver, evidence, Stays
    <2>2. CASE RecordObservation(o)
      BY <2>2, TransitionAdvances DEF RecordObservation
    <2>3. CASE MarkUnavailable(o)
      BY <2>3, TransitionAdvances DEF MarkUnavailable, evidence
    <2> QED BY <1>3, <2>1, <2>2, <2>3 DEF ObserverStep
  <1> QED BY <1>1, <1>2, <1>3 DEF Next

-----------------------------------------------------------------------------
(* Certification, the manifest's etag and the abstract workflow.           *)

\* A memory leaves review together with its workflow, and in a judge run no
\* operator has made it active.
ReviewedInv ==
  /\ memory.state \notin {"absent", "pending_review"} => wf.state = "REVIEWED"
  /\ JudgeMode /\ memory.state = "active" => memory.reviewed_by \notin Operators

\* No edge leaves REVIEWED.
LEMMA ReviewedIsLast ==
  ASSUME NEW s PROVE <<"REVIEWED", s>> \notin Abstract!Edges
  BY DEF Abstract!Edges, Abstract!GovernedEdges, Abstract!LegacyEdges, Abstract!ProposalEdge

\* A certification is by another subject than the observer when it commits, and stays so.
LEMMA CertifiedStep ==
  ASSUME TypeOK, ReviewedInv, CertifiedByAnother, [Next]_vars
  PROVE  ReviewedInv' /\ CertifiedByAnother'
  <1>1. CASE Stays
    BY <1>1 DEF Stays, ReviewedInv, CertifiedByAnother
  <1>2. CASE Withdraws
    BY <1>2 DEF Withdraws, ReviewedInv, CertifiedByAnother
  <1>3. CASE Closes
    BY <1>3 DEF Closes, ReviewedInv, CertifiedByAnother
  <1>4. CASE Advances
    <2>1. memory.state \in {"absent", "pending_review"}
      BY <1>4, ReviewedIsLast DEF Advances, ReviewedInv
    <2>2. CASE UNCHANGED memory
      BY <2>1, <2>2 DEF ReviewedInv, CertifiedByAnother
    <2>3. CASE Records
      BY <2>3 DEF Records, ReviewedInv, CertifiedByAnother
    <2>4. CASE Governs
      BY <2>4 DEF Governs, ReviewedInv, CertifiedByAnother
    <2> QED BY <1>4, <2>2, <2>3, <2>4 DEF Advances
  <1> QED BY <1>1, <1>2, <1>3, <1>4, AnyStep

\* The three hold in every reachable state.
LEMMA CertifiedAlways == Spec => [](TypeOK /\ ReviewedInv /\ CertifiedByAnother)
  <1>1. Init => ReviewedInv /\ CertifiedByAnother
    BY DEF Init, NoMemory, ReviewedInv, CertifiedByAnother
  <1>2. TypeOK /\ ReviewedInv /\ CertifiedByAnother /\ [Next]_vars
          => ReviewedInv' /\ CertifiedByAnother'
    BY CertifiedStep
  <1> QED BY <1>1, <1>2, TypeCorrect, PTL DEF Spec

\* In both modes evidence becomes and stays active only by a subject other than its
\* observer and other than the operator the row names, and never inconclusive
\* (validate_transition, recallops_govern_memory).
THEOREM CertifiersAreOthers == Spec => []CertifiedByAnother
  BY CertifiedAlways, PTL

\* Every step that changes the agent's tools changes what the etag is made of, so
\* a 304 never hides a tool that has been withdrawn (webmcp_manifest).
THEOREM EtagCovers == Spec => EtagCoversTools
  <1>1. TypeOK /\ [Next]_vars => [AvailableTools' # AvailableTools => Etag' # Etag]_vars
    <2> SUFFICES ASSUME TypeOK, [Next]_vars, Etag' = Etag
                 PROVE  AvailableTools' = AvailableTools
      OBVIOUS
    <2>1. /\ wf'.epoch = wf.epoch /\ memory'.governance_version = memory.governance_version
          /\ wf.epoch \in Nat /\ memory.governance_version \in Nat
      BY DEF Etag, TypeOK
    <2>2. ~Withdraws /\ ~Closes /\ ~Advances
      BY <2>1 DEF Withdraws, Closes, Advances
    <2>3. Stays
      BY <2>2, AnyStep
    <2> QED BY <2>3 DEF Stays, AvailableTools, RecallEligible
  <1> QED BY <1>1, TypeCorrect, PTL DEF Spec, EtagCoversTools

\* The states the handlers start from are initial states of the abstract workflow.
LEMMA InitRefines == Init => Abstract!AbsInit
  BY DEF Init, InitialWorkflow, NoMemory, RecallEligible, Abstract!AbsInit

\* Every step of a handler, of an observer or of the clock is a step of the
\* abstract workflow or leaves its variables alone.
LEMMA StepRefines ==
  ASSUME TypeOK, ReviewedInv, CertifiedByAnother, [Next]_vars
  PROVE  [Abstract!AbsNext]_(Abstract!absVars)
  <1>1. CASE Stays
    BY <1>1 DEF Stays, RecallEligible, Abstract!absVars
  <1>2. CASE Withdraws
    <2>1. RecallEligible = TRUE /\ RecallEligible' = FALSE
      BY <1>2 DEF Withdraws, RecallEligible, CertifiedByAnother
    <2>2. Abstract!Withdraw
      BY <1>2, <2>1 DEF Withdraws, Abstract!Withdraw
    <2> QED BY <2>2 DEF Abstract!AbsNext
  <1>3. CASE Closes
    <2>1. Abstract!Close
      BY <1>3 DEF Closes, RecallEligible, Abstract!Close
    <2> QED BY <2>1 DEF Abstract!AbsNext
  <1>4. CASE Advances
    <2>1. RecallEligible = FALSE
      BY <1>4, ReviewedIsLast DEF Advances, ReviewedInv, RecallEligible
    <2>2. RecallEligible' => wf'.state = "REVIEWED"
      BY <1>4, <2>1 DEF Advances, Records, Governs, RecallEligible
    <2>3. RecallEligible' \in BOOLEAN
      BY DEF RecallEligible
    <2>4. wf'.active = wf.active
      BY <1>4 DEF Advances, TypeOK
    <2>5. Abstract!Advance
      BY <1>4, <2>1, <2>2, <2>3, <2>4 DEF Advances, Abstract!Advance
    <2> QED BY <2>5 DEF Abstract!AbsNext
  <1> QED BY <1>1, <1>2, <1>3, <1>4, AnyStep

\* The handlers implement the abstract workflow: authority moves along its edges,
\* every move spends an epoch, a closed workflow is frozen, and evidence becomes
\* recallable only by a review and stops being so only by a withdrawal.
THEOREM HandlersRefineWorkflow == Spec => ImplementsAuthorityWorkflow
  <1>1. Init => Abstract!AbsInit
    BY InitRefines
  <1>2. TypeOK /\ ReviewedInv /\ CertifiedByAnother /\ [Next]_vars
          => [Abstract!AbsNext]_(Abstract!absVars)
    BY StepRefines
  <1> QED BY <1>1, <1>2, CertifiedAlways, PTL
          DEF Spec, ImplementsAuthorityWorkflow, Abstract!AbsSpec

-----------------------------------------------------------------------------
(* A step of a judge run seen from its ledger.                             *)

Move(from, to, role, reason) == [from |-> from, to |-> to, role |-> role, reason |-> reason]

\* The events a judge run's ledger can hold besides genesis and reset.
JudgeMoves ==
  {Move("INVESTIGATING", "AWAITING_OPERATOR_APPROVAL", "agent", "PROPOSAL_STAGED"),
   Move("AWAITING_OPERATOR_APPROVAL", "APPROVED_AWAITING_EXECUTION", "operator",
        "PROPOSAL_APPROVED"),
   Move("AWAITING_OPERATOR_APPROVAL", "INVESTIGATING", "operator", "PROPOSAL_REJECTED"),
   Move("APPROVED_AWAITING_EXECUTION", "OBSERVING_POSTCHECK", "operator",
        "SANDBOX_EXECUTION_APPLIED"),
   Move("POSTCHECK_UNAVAILABLE", "OBSERVING_POSTCHECK", "operator",
        "STATE_TRANSITION_ACCEPTED"),
   Move("OBSERVING_POSTCHECK", "POSTCHECK_READY", "system", "VERIFIED_OBSERVATION_RECORDED"),
   Move("OBSERVING_POSTCHECK", "POSTCHECK_UNAVAILABLE", "system",
        "STATE_TRANSITION_ACCEPTED"),
   Move("POSTCHECK_READY", "PENDING_REVIEW", "agent", "POSTCHECK_ASSESSMENT_RECORDED"),
   Move("POSTCHECK_READY", "PENDING_REVIEW", "agent", "STATE_TRANSITION_ACCEPTED"),
   Move("PENDING_REVIEW", "REVIEWED", "reviewer", "MEMORY_CERTIFY"),
   Move("PENDING_REVIEW", "REVIEWED", "reviewer", "MEMORY_QUARANTINE"),
   Move("PENDING_REVIEW", "REVIEWED", "reviewer", "MEMORY_REJECT")}

KeyedReasons == {"PROPOSAL_STAGED", "POSTCHECK_ASSESSMENT_RECORDED"}

\* No event is written; a memory that was not active does not become so.
LedgerStays ==
  /\ UNCHANGED <<ledger, idempotency, committed, approval>>
  /\ wf'.state = wf.state /\ wf'.epoch = wf.epoch
  /\ memory'.state = "active" => memory.state = "active"

\* The reset event.
LedgerCloses ==
  /\ UNCHANGED <<idempotency, committed, approval, memory>>
  /\ wf'.state = wf.state
  /\ \E who : ledger' = Append(ledger, Event(wf, wf', "operator", who,
                                             "WORKFLOW_RESET_ACCEPTED"))

\* The event of a handler, with the decision, the certification or the idempotency
\* row that commits with it.
LedgerTakes(mv) ==
  /\ wf.state = mv.from /\ wf'.state = mv.to
  /\ \E who : ledger' = Append(ledger, Event(wf, wf', mv.role, who, mv.reason))
  /\ mv.reason = "SANDBOX_EXECUTION_APPLIED" => approval.decision = "approved"
  /\ \/ UNCHANGED approval /\ mv.reason # "PROPOSAL_REJECTED"
     \/ /\ approval.decision = "none" /\ approval'.actor \in Operators
        /\ mv.reason = "PROPOSAL_REJECTED" => approval'.decision = "rejected"
  /\ memory'.state = "active" => memory.state = "active" \/ mv.reason = "MEMORY_CERTIFY"
  /\ \/ UNCHANGED <<idempotency, committed>> /\ mv.reason \notin KeyedReasons
     \/ \E m \in Request :
          /\ m.route \in KeyedRoutes /\ m.epoch = wf.epoch
          /\ mv.reason = KeyedReason[m.route]
          /\ IdempotentMutation(m)

\* The part of a transition the ledger sees.
LEMMA TransitionTakes ==
  ASSUME TypeOK, JudgeMode, NEW mv \in JudgeMoves, NEW epoch, NEW auth, NEW who,
         auth.role = mv.role,
         Transition(epoch, mv.from, mv.to, auth, who, FALSE, mv.reason)
  PROVE  /\ wf.state = mv.from /\ wf'.state = mv.to /\ wf.epoch = epoch
         /\ \E w : ledger' = Append(ledger, Event(wf, wf', mv.role, w, mv.reason))
  BY TransitionFacts

\* A handler that takes no decision, certifies nothing and has no key.
LEMMA PlainTakes ==
  ASSUME TypeOK, JudgeMode, NEW mv \in JudgeMoves, NEW epoch, NEW auth, NEW who,
         auth.role = mv.role,
         Transition(epoch, mv.from, mv.to, auth, who, FALSE, mv.reason),
         UNCHANGED <<approval, idempotency, committed>>,
         mv.reason \notin KeyedReasons \cup {"PROPOSAL_REJECTED"},
         mv.reason = "SANDBOX_EXECUTION_APPLIED" => approval.decision = "approved",
         memory'.state = "active" => memory.state = "active" \/ mv.reason = "MEMORY_CERTIFY"
  PROVE  LedgerTakes(mv)
  BY TransitionTakes DEF LedgerTakes

\* The agent's call over WebMCP, with the idempotency row that commits with it.
LEMMA KeyedTakes ==
  ASSUME TypeOK, JudgeMode, NEW mv \in JudgeMoves, NEW m \in Request,
         mv.role = "agent", m.route \in KeyedRoutes, mv.reason = KeyedReason[m.route],
         Transition(m.epoch, mv.from, mv.to, AgentOverWebMcp, m.who, FALSE, mv.reason),
         IdempotentMutation(m), UNCHANGED approval,
         memory'.state = "active" => memory.state = "active"
  PROVE  LedgerTakes(mv)
  <1>1. /\ wf.state = mv.from /\ wf'.state = mv.to /\ wf.epoch = m.epoch
        /\ \E w : ledger' = Append(ledger, Event(wf, wf', mv.role, w, mv.reason))
    BY TransitionTakes, CoordinatorConstants
  <1>2. mv.reason \notin {"SANDBOX_EXECUTION_APPLIED", "PROPOSAL_REJECTED"}
    BY DEF KeyedReason, KeyedRoutes
  <1>3. \E r \in Request : /\ r.route \in KeyedRoutes /\ r.epoch = wf.epoch
                           /\ mv.reason = KeyedReason[r.route]
                           /\ IdempotentMutation(r)
    BY <1>1
  <1> QED BY <1>1, <1>2, <1>3, Zenon DEF LedgerTakes

\* The operator's decision, recorded once for the incident.
LEMMA DecisionTakes ==
  ASSUME TypeOK, JudgeMode, NEW mv \in JudgeMoves, NEW m \in Request,
         mv.role = "operator", mv.reason \in {"PROPOSAL_APPROVED", "PROPOSAL_REJECTED"},
         Transition(m.epoch, mv.from, mv.to, OperatorOverUi, m.who, FALSE, mv.reason),
         approval.decision = "none", approval'.actor \in Operators,
         mv.reason = "PROPOSAL_REJECTED" => approval'.decision = "rejected",
         UNCHANGED <<memory, idempotency, committed>>
  PROVE  LedgerTakes(mv)
  <1>0. OperatorOverUi.role = mv.role
    BY CoordinatorConstants
  <1>1. /\ wf.state = mv.from /\ wf'.state = mv.to /\ wf.epoch = m.epoch
        /\ \E w : ledger' = Append(ledger, Event(wf, wf', mv.role, w, mv.reason))
    BY <1>0, TransitionTakes
  <1>2. /\ mv.reason # "SANDBOX_EXECUTION_APPLIED" /\ mv.reason \notin KeyedReasons
        /\ memory'.state = memory.state
    BY DEF KeyedReasons
  <1> QED BY <1>1, <1>2, Zenon DEF LedgerTakes

\* Any step of a judge run, seen from its ledger.
LEMMA JudgeStep ==
  ASSUME TypeOK, JudgeMode, [Next]_vars
  PROVE  LedgerStays \/ LedgerCloses \/ \E mv \in JudgeMoves : LedgerTakes(mv)
  <1> DEFINE Shape == LedgerStays \/ LedgerCloses \/ \E mv \in JudgeMoves : LedgerTakes(mv)
  <1>1. CASE Arrive \/ ExpireRun \/ UNCHANGED vars
    BY <1>1 DEF Arrive, ExpireRun, vars, evidence, calls, LedgerStays
  <1>2. ASSUME NEW m \in inflight, Handle(m)
        PROVE  Shape
    <2>0. /\ m \in Request /\ m.who \in Subjects
          /\ m.route = "approval" => m.who \in Operators
          /\ m.route = "disposition" => m.arg \in Dispositions
          /\ m.route \notin LegacyRoutes
      BY RequestFacts, RequestRoles DEF TypeOK
    <2>1. CASE Drop(m) \/ RefuseKeyed(m)
      BY <2>1 DEF Drop, RefuseKeyed, evidence, LedgerStays
    <2>2. CASE Propose(m)
      <3> DEFINE mv == Move("INVESTIGATING", "AWAITING_OPERATOR_APPROVAL", "agent",
                            "PROPOSAL_STAGED")
      <3>1. /\ mv \in JudgeMoves /\ mv.from = "INVESTIGATING"
            /\ mv.to = "AWAITING_OPERATOR_APPROVAL" /\ mv.role = "agent"
            /\ mv.reason = "PROPOSAL_STAGED"
        BY DEF Move, JudgeMoves
      <3> HIDE DEF mv
      <3>2. Transition(m.epoch, mv.from, mv.to, AgentOverWebMcp, m.who, FALSE, mv.reason)
        BY <2>2, <3>1 DEF Propose
      <3>3. /\ UNCHANGED approval /\ IdempotentMutation(m)
            /\ m.route \in KeyedRoutes /\ mv.reason = KeyedReason[m.route]
            /\ memory'.state = "active" => memory.state = "active"
        BY <2>2, <3>1 DEF Propose, evidence, KeyedRoutes, KeyedReason
      <3>4. LedgerTakes(mv)
        BY <2>0, <3>1, <3>2, <3>3, KeyedTakes
      <3> QED BY <3>1, <3>4
    <2>3. CASE Approve(m)
      <3>1. CASE m.arg = "approve"
        <4> DEFINE mv == Move("AWAITING_OPERATOR_APPROVAL", "APPROVED_AWAITING_EXECUTION",
                              "operator", "PROPOSAL_APPROVED")
        <4>1. /\ mv \in JudgeMoves /\ mv.from = "AWAITING_OPERATOR_APPROVAL"
              /\ mv.to = "APPROVED_AWAITING_EXECUTION" /\ mv.role = "operator"
              /\ mv.reason = "PROPOSAL_APPROVED"
          BY DEF Move, JudgeMoves
        <4> HIDE DEF mv
        <4>2. Transition(m.epoch, mv.from, mv.to, OperatorOverUi, m.who, FALSE, mv.reason)
          BY <2>3, <3>1, <4>1 DEF Approve
        <4>3. /\ approval.decision = "none" /\ approval'.decision = "approved"
              /\ approval'.actor = m.who
              /\ UNCHANGED <<memory, idempotency, committed>>
          BY <2>3, <3>1 DEF Approve, DecideApproval, RecordApproval, TypeOK, calls
        <4>4. LedgerTakes(mv)
          BY <2>0, <2>3, <4>1, <4>2, <4>3, DecisionTakes DEF Approve
        <4> QED BY <4>1, <4>4
      <3>2. CASE m.arg # "approve"
        <4> DEFINE mv == Move("AWAITING_OPERATOR_APPROVAL", "INVESTIGATING",
                              "operator", "PROPOSAL_REJECTED")
        <4>1. /\ mv \in JudgeMoves /\ mv.from = "AWAITING_OPERATOR_APPROVAL"
              /\ mv.to = "INVESTIGATING" /\ mv.role = "operator"
              /\ mv.reason = "PROPOSAL_REJECTED"
          BY DEF Move, JudgeMoves
        <4> HIDE DEF mv
        <4>2. Transition(m.epoch, mv.from, mv.to, OperatorOverUi, m.who, FALSE, mv.reason)
          BY <2>3, <3>2, <4>1 DEF Approve
        <4>3. /\ approval.decision = "none" /\ approval'.decision = "rejected"
              /\ approval'.actor = m.who
              /\ UNCHANGED <<memory, idempotency, committed>>
          BY <2>3, <3>2 DEF Approve, DecideApproval, RecordApproval, TypeOK, calls
        <4>4. LedgerTakes(mv)
          BY <2>0, <2>3, <4>1, <4>2, <4>3, DecisionTakes DEF Approve
        <4> QED BY <4>1, <4>4
      <3> QED BY <3>1, <3>2
    <2>4. CASE ApplySandbox(m)
      <3> DEFINE mv == Move("APPROVED_AWAITING_EXECUTION", "OBSERVING_POSTCHECK", "operator",
                            "SANDBOX_EXECUTION_APPLIED")
      <3>1. /\ mv \in JudgeMoves /\ mv.from = "APPROVED_AWAITING_EXECUTION"
            /\ mv.to = "OBSERVING_POSTCHECK" /\ mv.role = "operator"
            /\ mv.reason = "SANDBOX_EXECUTION_APPLIED"
        BY DEF Move, JudgeMoves
      <3> HIDE DEF mv
      <3>2. Transition(m.epoch, mv.from, mv.to, OperatorOverUi, m.who, FALSE, mv.reason)
        BY <2>4, <3>1 DEF ApplySandbox
      <3>3. /\ UNCHANGED <<approval, idempotency, committed>>
            /\ mv.reason = "SANDBOX_EXECUTION_APPLIED" => approval.decision = "approved"
            /\ memory'.state = "active" => memory.state = "active"
        BY <2>4, <3>1 DEF ApplySandbox, calls
      <3> QED BY <3>1, <3>2, <3>3, PlainTakes, CoordinatorConstants DEF KeyedReasons
    <2>5. CASE RetryPostcheck(m)
      <3> DEFINE mv == Move("POSTCHECK_UNAVAILABLE", "OBSERVING_POSTCHECK", "operator",
                            "STATE_TRANSITION_ACCEPTED")
      <3>1. /\ mv \in JudgeMoves /\ mv.from = "POSTCHECK_UNAVAILABLE"
            /\ mv.to = "OBSERVING_POSTCHECK" /\ mv.role = "operator"
            /\ mv.reason = "STATE_TRANSITION_ACCEPTED"
        BY DEF Move, JudgeMoves
      <3> HIDE DEF mv
      <3>2. Transition(m.epoch, mv.from, mv.to, OperatorOverUi, m.who, FALSE, mv.reason)
        BY <2>5, <3>1 DEF RetryPostcheck
      <3>3. /\ UNCHANGED <<approval, idempotency, committed>>
            /\ mv.reason = "SANDBOX_EXECUTION_APPLIED" => approval.decision = "approved"
            /\ memory'.state = "active" => memory.state = "active"
        BY <2>5, <3>1 DEF RetryPostcheck, calls, evidence
      <3> QED BY <3>1, <3>2, <3>3, PlainTakes, CoordinatorConstants DEF KeyedReasons
    <2>7. CASE RecordAssessment(m)
      <3> DEFINE mv == Move("POSTCHECK_READY", "PENDING_REVIEW", "agent",
                            "STATE_TRANSITION_ACCEPTED")
      <3>1. /\ mv \in JudgeMoves /\ mv.from = "POSTCHECK_READY"
            /\ mv.to = "PENDING_REVIEW" /\ mv.role = "agent"
            /\ mv.reason = "STATE_TRANSITION_ACCEPTED"
        BY DEF Move, JudgeMoves
      <3> HIDE DEF mv
      <3>2. Transition(m.epoch, mv.from, mv.to, AgentOverWebMcp, m.who, FALSE, mv.reason)
        BY <2>7, <3>1 DEF RecordAssessment
      <3>3. /\ UNCHANGED <<approval, idempotency, committed>>
            /\ mv.reason = "SANDBOX_EXECUTION_APPLIED" => approval.decision = "approved"
            /\ memory'.state = "active" => memory.state = "active"
        BY <2>7, <3>1 DEF RecordAssessment, calls, PersistVerifiedOutcome, PendingMemory
      <3> QED BY <3>1, <3>2, <3>3, PlainTakes, CoordinatorConstants DEF KeyedReasons
    <2>6. CASE AssessWebMcp(m)
      <3> DEFINE mv == Move("POSTCHECK_READY", "PENDING_REVIEW", "agent",
                            "POSTCHECK_ASSESSMENT_RECORDED")
      <3>1. /\ mv \in JudgeMoves /\ mv.from = "POSTCHECK_READY"
            /\ mv.to = "PENDING_REVIEW" /\ mv.role = "agent"
            /\ mv.reason = "POSTCHECK_ASSESSMENT_RECORDED"
        BY DEF Move, JudgeMoves
      <3> HIDE DEF mv
      <3>2. Transition(m.epoch, mv.from, mv.to, AgentOverWebMcp, m.who, FALSE, mv.reason)
        BY <2>6, <3>1 DEF AssessWebMcp
      <3>3. /\ UNCHANGED approval /\ IdempotentMutation(m)
            /\ m.route \in KeyedRoutes /\ mv.reason = KeyedReason[m.route]
            /\ memory'.state = "active" => memory.state = "active"
        BY <2>6, <3>1 DEF AssessWebMcp, PersistVerifiedOutcome, PendingMemory, KeyedRoutes, KeyedReason
      <3>4. LedgerTakes(mv)
        BY <2>0, <3>1, <3>2, <3>3, KeyedTakes
      <3> QED BY <3>1, <3>4
    <2>8. CASE Disposition(m)
      <3>1. m.arg \in Dispositions
        BY <2>0, <2>8 DEF Disposition
      <3> DEFINE mv == Move("PENDING_REVIEW", "REVIEWED", "reviewer", DispositionReason[m.arg])
      <3>2. /\ mv \in JudgeMoves /\ mv.from = "PENDING_REVIEW" /\ mv.to = "REVIEWED"
            /\ mv.role = "reviewer" /\ mv.reason = DispositionReason[m.arg]
            /\ mv.reason \in {"MEMORY_CERTIFY", "MEMORY_QUARANTINE", "MEMORY_REJECT"}
            /\ mv.reason = "MEMORY_CERTIFY" <=> m.arg = "certify"
        BY <3>1 DEF Move, JudgeMoves, DispositionReason, Dispositions
      <3> HIDE DEF mv
      <3>3. Transition(m.epoch, mv.from, mv.to, ReviewerOverUi, m.who, FALSE, mv.reason)
        BY <2>8, <3>2 DEF Disposition
      <3>4. memory'.state = GovernanceTarget[m.arg]
        BY <2>0, <2>8, <3>1, GovernFacts DEF Disposition, GovernanceAction
      <3>5. memory'.state = "active" => mv.reason = "MEMORY_CERTIFY"
        BY <3>1, <3>2, <3>4 DEF GovernanceTarget, GovernanceAction, Dispositions
      <3>6. UNCHANGED <<approval, idempotency, committed>>
        BY <2>8 DEF Disposition, calls
      <3> QED BY <3>2, <3>3, <3>5, <3>6, PlainTakes, CoordinatorConstants DEF KeyedReasons
    <2>9. CASE Revoke(m)
      <3>1. memory'.state = "revoked"
        BY <2>0, <2>9, GovernFacts DEF Revoke, GovernanceTarget
      <3> QED BY <2>9, <3>1 DEF Revoke, calls, LedgerStays
    <2>10. CASE ResetRun(m) \/ ResetWorkflow(m)
      BY <2>10, InvalidateFacts DEF ResetRun, ResetWorkflow, LedgerCloses, evidence, calls
    <2>11. CASE AttestExecution(m) \/ ObserveOutcome(m) \/ GovernRoute(m)
      BY <2>0, <2>11 DEF AttestExecution, ObserveOutcome, GovernRoute, LegacyRoutes
    <2> QED BY <1>2, <2>1, <2>2, <2>3, <2>4, <2>5, <2>6, <2>7, <2>8, <2>9, <2>10, <2>11
            DEF Handle
  <1>3. ASSUME NEW o \in observers, ObserverStep(o) \/ CrashObserver(o)
        PROVE  Shape
    <2>1. CASE Collect(o) \/ ObservationConflict(o) \/ CrashObserver(o)
      BY <2>1 DEF Collect, ObservationConflict, CrashObserver, evidence, calls, LedgerStays
    <2>2. CASE RecordObservation(o)
      <3> DEFINE mv == Move("OBSERVING_POSTCHECK", "POSTCHECK_READY", "system",
                            "VERIFIED_OBSERVATION_RECORDED")
      <3>1. /\ mv \in JudgeMoves /\ mv.from = "OBSERVING_POSTCHECK"
            /\ mv.to = "POSTCHECK_READY" /\ mv.role = "system"
            /\ mv.reason = "VERIFIED_OBSERVATION_RECORDED"
        BY DEF Move, JudgeMoves
      <3> HIDE DEF mv
      <3>2. Transition(o.epoch, mv.from, mv.to, SystemAuthority, "recallops-observer", FALSE, mv.reason)
        BY <2>2, <3>1 DEF RecordObservation
      <3>3. /\ UNCHANGED <<approval, idempotency, committed>>
            /\ mv.reason = "SANDBOX_EXECUTION_APPLIED" => approval.decision = "approved"
            /\ memory'.state = "active" => memory.state = "active"
        BY <2>2, <3>1 DEF RecordObservation, calls
      <3> QED BY <3>1, <3>2, <3>3, PlainTakes, CoordinatorConstants DEF KeyedReasons
    <2>3. CASE MarkUnavailable(o)
      <3> DEFINE mv == Move("OBSERVING_POSTCHECK", "POSTCHECK_UNAVAILABLE", "system",
                            "STATE_TRANSITION_ACCEPTED")
      <3>1. /\ mv \in JudgeMoves /\ mv.from = "OBSERVING_POSTCHECK"
            /\ mv.to = "POSTCHECK_UNAVAILABLE" /\ mv.role = "system"
            /\ mv.reason = "STATE_TRANSITION_ACCEPTED"
        BY DEF Move, JudgeMoves
      <3> HIDE DEF mv
      <3>2. Transition(o.epoch, mv.from, mv.to, SystemAuthority, "recallops-observer", FALSE, mv.reason)
        BY <2>3, <3>1 DEF MarkUnavailable
      <3>3. /\ UNCHANGED <<approval, idempotency, committed>>
            /\ mv.reason = "SANDBOX_EXECUTION_APPLIED" => approval.decision = "approved"
            /\ memory'.state = "active" => memory.state = "active"
        BY <2>3, <3>1 DEF MarkUnavailable, calls, evidence
      <3> QED BY <3>1, <3>2, <3>3, PlainTakes, CoordinatorConstants DEF KeyedReasons
    <2> QED BY <1>3, <2>1, <2>2, <2>3 DEF ObserverStep
  <1> QED BY <1>1, <1>2, <1>3 DEF Next

-----------------------------------------------------------------------------
(* Invariants of the history.                                              *)

\* The service mode has no ledger and no keyed call.
ServiceInv == ~JudgeMode => ledger = <<>> /\ idempotency = {}

\* The states before the sandbox ran.
BeforeSandbox ==
  {"INVESTIGATING", "AWAITING_OPERATOR_APPROVAL", "APPROVED_AWAITING_EXECUTION"}

\* The sandbox event puts those states behind the run; a rejection is for ever.
SandboxInv ==
  \A i \in 1 .. Len(ledger) :
    /\ ledger[i].reason = "SANDBOX_EXECUTION_APPLIED" => wf.state \notin BeforeSandbox
    /\ ledger[i].reason = "PROPOSAL_REJECTED" => approval.decision = "rejected"

\* How far along the certified chain a state is.
Rank ==
  [s \in WorkflowState |->
     CASE s = "INVESTIGATING" -> 0
       [] s = "AWAITING_OPERATOR_APPROVAL" -> 1
       [] s = "APPROVED_AWAITING_EXECUTION" -> 2
       [] s \in {"OBSERVING_POSTCHECK", "POSTCHECK_UNAVAILABLE"} -> 3
       [] s = "POSTCHECK_READY" -> 4
       [] s = "PENDING_REVIEW" -> 5
       [] s = "REVIEWED" -> 6]

\* The ledger holds every link of the chain up to the workflow's state, and no link
\* before its predecessor.
ChainInv ==
  JudgeMode =>
    /\ \A k \in 1 .. 6 : k <= Rank[wf.state] =>
         \E j \in 1 .. Len(ledger) : Taken(j) = CertifiedChain[k]
    /\ \A i \in 1 .. Len(ledger), k \in 2 .. 6 :
         Taken(i) = CertifiedChain[k] => \E j \in 1 .. i - 1 : Taken(j) = CertifiedChain[k - 1]

\* An active memory has its certification in the ledger; decisions are operators'.
CertificateInv ==
  JudgeMode =>
    /\ memory.state = "active" =>
         \E i \in 1 .. Len(ledger) : ledger[i].reason = "MEMORY_CERTIFY"
    /\ approval.actor \in Operators \cup {NoOne}

\* What appending the event of a step does to the ledger, as facts about its parts.
LEMMA AppendFacts ==
  ASSUME TypeOK, NEW role, NEW who, NEW reason,
         ledger' = Append(ledger, Event(wf, wf', role, who, reason))
  PROVE  /\ Len(ledger) \in Nat /\ Len(ledger') = Len(ledger) + 1
         /\ ledger'[Len(ledger) + 1].reason = reason
         /\ ledger'[Len(ledger) + 1].role = role
         /\ ledger'[Len(ledger) + 1].state_after = wf'.state
         /\ \A i \in 1 .. Len(ledger) : ledger'[i] = ledger[i]
  <1> DEFINE ev == Event(wf, wf', role, who, reason)
  <1>1. ev.reason = reason /\ ev.role = role /\ ev.state_after = wf'.state
    BY DEF Event
  <1> HIDE DEF ev
  <1>2. ledger \in Seq(AuthorityEvent)
    BY DEF TypeOK
  <1>3. /\ Len(ledger) \in Nat /\ Len(ledger') = Len(ledger) + 1
        /\ ledger'[Len(ledger) + 1] = ev
        /\ \A i \in 1 .. Len(ledger) : ledger'[i] = ledger[i]
    BY <1>2 DEF ev
  <1> QED BY <1>1, <1>3

\* In the service mode no step writes the ledger or an idempotency row.
LEMMA ServiceStep ==
  ASSUME TypeOK, ~JudgeMode, [Next]_vars
  PROVE  UNCHANGED <<ledger, idempotency, committed>>
  <1>t. \A epoch, from, to, auth, who, legacy, reason :
          Transition(epoch, from, to, auth, who, legacy, reason) => ledger' = ledger
    BY DEF Transition, AppendTransition
  <1>i. \A epoch, who : Invalidate(epoch, who) => ledger' = ledger
    BY DEF Invalidate, AppendTransition
  <1>1. CASE Arrive \/ ExpireRun \/ UNCHANGED vars
    BY <1>1 DEF Arrive, ExpireRun, vars, calls
  <1>2. ASSUME NEW m \in inflight, Handle(m)
        PROVE  UNCHANGED <<ledger, idempotency, committed>>
    <2>1. m.route \notin KeyedRoutes
      BY RequestRoles DEF TypeOK
    <2>2. ~Propose(m) /\ ~AssessWebMcp(m)
      BY <2>1 DEF Propose, AssessWebMcp, KeyedRoutes
    <2> QED
      BY <1>2, <1>t, <1>i, <2>2
         DEF Handle, Drop, RefuseKeyed, Approve, ApplySandbox, RetryPostcheck,
             RecordAssessment, AttestExecution, ObserveOutcome, Disposition, Revoke,
             GovernRoute, ResetRun, ResetWorkflow, calls
  <1>3. ASSUME NEW o \in observers, ObserverStep(o) \/ CrashObserver(o)
        PROVE  UNCHANGED <<ledger, idempotency, committed>>
    BY <1>3, <1>t DEF ObserverStep, CrashObserver, Collect, RecordObservation,
                      MarkUnavailable, ObservationConflict, calls
  <1> QED BY <1>1, <1>2, <1>3 DEF Next

\* So both histories stay empty in the service mode.
LEMMA ServiceAlways == Spec => [](TypeOK /\ ServiceInv)
  <1>1. Init => ServiceInv
    BY DEF Init, ServiceInv
  <1>2. TypeOK /\ ServiceInv /\ [Next]_vars => ServiceInv'
    BY ServiceStep DEF ServiceInv
  <1> QED BY <1>1, <1>2, TypeCorrect, PTL DEF Spec

-----------------------------------------------------------------------------
(* The sandbox.                                                            *)

\* One event of a handler keeps the sandbox history.
LEMMA SandboxTakes ==
  ASSUME TypeOK, SandboxInv, SandboxAppliedOnce, NEW mv \in JudgeMoves, LedgerTakes(mv)
  PROVE  SandboxInv' /\ SandboxAppliedOnce'
  <1> DEFINE n == Len(ledger)
  <1>1. /\ n \in Nat /\ Len(ledger') = n + 1 /\ ledger'[n + 1].reason = mv.reason
        /\ \A i \in 1 .. n : ledger'[i] = ledger[i]
    BY AppendFacts DEF LedgerTakes
  <1>2. /\ wf.state = mv.from /\ wf'.state = mv.to
        /\ mv.reason = "SANDBOX_EXECUTION_APPLIED" => approval.decision = "approved"
        /\ mv.reason = "PROPOSAL_REJECTED" => approval'.decision = "rejected"
        /\ approval.decision = "rejected" => approval'.decision = "rejected"
    BY DEF LedgerTakes
  <1>3. /\ mv.from \notin BeforeSandbox => mv.to \notin BeforeSandbox
        /\ mv.reason = "SANDBOX_EXECUTION_APPLIED" =>
             mv.from \in BeforeSandbox /\ mv.to \notin BeforeSandbox
        /\ mv.reason = "PROPOSAL_REJECTED" => mv.from \in BeforeSandbox
    BY DEF JudgeMoves, Move, BeforeSandbox
  <1>4. \A i \in 1 .. n :
          /\ ledger[i].reason = "SANDBOX_EXECUTION_APPLIED" => wf.state \notin BeforeSandbox
          /\ ledger[i].reason = "PROPOSAL_REJECTED" => approval.decision = "rejected"
    BY DEF SandboxInv
  <1>5. \A i, j \in 1 .. n :
          /\ ledger[i].reason = "SANDBOX_EXECUTION_APPLIED"
          /\ ledger[j].reason \in {"SANDBOX_EXECUTION_APPLIED", "PROPOSAL_REJECTED"}
          => i = j
    BY DEF SandboxAppliedOnce
  <1> HIDE DEF n
  <1>6. SandboxInv'
    <2> SUFFICES ASSUME NEW i \in 1 .. n + 1
                 PROVE  /\ ledger'[i].reason = "SANDBOX_EXECUTION_APPLIED" =>
                              wf'.state \notin BeforeSandbox
                        /\ ledger'[i].reason = "PROPOSAL_REJECTED" =>
                              approval'.decision = "rejected"
      BY <1>1 DEF SandboxInv
    <2>1. CASE i = n + 1
      BY <1>1, <1>2, <1>3, <2>1
    <2>2. CASE i # n + 1
      <3>1. i \in 1 .. n
        BY <1>1, <2>2
      <3> QED BY <1>1, <1>2, <1>3, <1>4, <3>1
    <2> QED BY <2>1, <2>2
  <1>7. SandboxAppliedOnce'
    <2> SUFFICES ASSUME NEW i \in 1 .. n + 1, NEW j \in 1 .. n + 1,
                        ledger'[i].reason = "SANDBOX_EXECUTION_APPLIED",
                        ledger'[j].reason \in {"SANDBOX_EXECUTION_APPLIED", "PROPOSAL_REJECTED"}
                 PROVE  i = j
      BY <1>1 DEF SandboxAppliedOnce
    <2>0. (i # n + 1 => i \in 1 .. n) /\ (j # n + 1 => j \in 1 .. n)
      BY <1>1
    <2>1. CASE i = n + 1 /\ j = n + 1
      BY <2>1
    <2>2. CASE i # n + 1 /\ j # n + 1
      BY <1>1, <1>5, <2>0, <2>2
    <2>3. CASE i = n + 1 /\ j # n + 1
      BY <1>1, <1>2, <1>3, <1>4, <2>0, <2>3
    <2>4. CASE i # n + 1 /\ j = n + 1
      BY <1>1, <1>2, <1>3, <1>4, <2>0, <2>4
    <2> QED BY <2>1, <2>2, <2>3, <2>4
  <1> QED BY <1>6, <1>7

\* The reset event is neither.
LEMMA SandboxCloses ==
  ASSUME TypeOK, SandboxInv, SandboxAppliedOnce, LedgerCloses
  PROVE  SandboxInv' /\ SandboxAppliedOnce'
  <1> DEFINE n == Len(ledger)
  <1>1. /\ n \in Nat /\ Len(ledger') = n + 1
        /\ ledger'[n + 1].reason = "WORKFLOW_RESET_ACCEPTED"
        /\ \A i \in 1 .. n : ledger'[i] = ledger[i]
    BY AppendFacts DEF LedgerCloses
  <1>2. wf'.state = wf.state /\ approval' = approval
    BY DEF LedgerCloses
  <1>3. \A i \in 1 .. n + 1 : i # n + 1 => i \in 1 .. n
    BY <1>1
  <1>4. SandboxInv'
    BY <1>1, <1>2, <1>3 DEF SandboxInv
  <1>5. SandboxAppliedOnce'
    BY <1>1, <1>3 DEF SandboxAppliedOnce
  <1> QED BY <1>4, <1>5

\* However often requests are repeated and telemetry is retried, the sandbox action
\* of a judge run is applied once and never next to a rejection
\* (apply_sandbox_mitigation, retry_postcheck).
THEOREM SandboxRunsOnce == Spec => []SandboxAppliedOnce
  <1>1. Init => SandboxInv /\ SandboxAppliedOnce
    BY DEF Init, SandboxInv, SandboxAppliedOnce, Genesis
  <1>2. TypeOK /\ ServiceInv /\ ServiceInv' /\ SandboxInv /\ SandboxAppliedOnce /\ [Next]_vars
          => SandboxInv' /\ SandboxAppliedOnce'
    <2> SUFFICES ASSUME TypeOK, ServiceInv, ServiceInv', SandboxInv, SandboxAppliedOnce,
                        [Next]_vars
                 PROVE  SandboxInv' /\ SandboxAppliedOnce'
      OBVIOUS
    <2>1. CASE ~JudgeMode
      BY <2>1 DEF ServiceInv, SandboxInv, SandboxAppliedOnce
    <2>2. CASE JudgeMode /\ LedgerStays
      BY <2>2 DEF LedgerStays, SandboxInv, SandboxAppliedOnce
    <2>3. CASE JudgeMode /\ LedgerCloses
      BY <2>3, SandboxCloses
    <2>4. CASE JudgeMode /\ \E mv \in JudgeMoves : LedgerTakes(mv)
      BY <2>4, SandboxTakes
    <2> QED BY <2>1, <2>2, <2>3, <2>4, JudgeStep
  <1> QED BY <1>1, <1>2, ServiceAlways, PTL DEF Spec

-----------------------------------------------------------------------------
(* Idempotency.                                                            *)

\* Every keyed request that took effect has its row.
LEMMA CommittedStep ==
  ASSUME TypeOK, \A m \in committed : Replayable(m), [Next]_vars
  PROVE  \A m \in committed' : Replayable(m)'
  <1>1. CASE UNCHANGED <<idempotency, committed>>
    BY <1>1 DEF Replayable
  <1>2. ASSUME NEW m, IdempotentMutation(m) PROVE \A q \in committed' : Replayable(q)'
    BY <1>2 DEF IdempotentMutation, Replayable
  <1>3. CASE JudgeMode
    <2>1. CASE LedgerStays \/ LedgerCloses
      BY <1>1, <2>1 DEF LedgerStays, LedgerCloses
    <2>2. CASE \E mv \in JudgeMoves : LedgerTakes(mv)
      BY <1>1, <1>2, <2>2 DEF LedgerTakes
    <2> QED BY <1>3, <2>1, <2>2, JudgeStep
  <1>4. CASE ~JudgeMode
    BY <1>1, <1>4, ServiceStep
  <1> QED BY <1>3, <1>4

\* A repeated proposal or assessment whose first copy took effect is never refused,
\* whatever state the workflow has reached since (idempotent_webmcp_mutation).
THEOREM ReplaysAreAnswered == Spec => []ReplayNeverRefused
  <1> DEFINE Inv == \A m \in committed : Replayable(m)
  <1>1. Init => Inv
    BY DEF Init
  <1>2. TypeOK /\ Inv /\ [Next]_vars => Inv'
    BY CommittedStep
  <1>3. Inv => ReplayNeverRefused
    BY DEF ReplayNeverRefused, Refused
  <1> HIDE DEF Inv
  <1> QED BY <1>1, <1>2, <1>3, TypeCorrect, PTL DEF Spec

\* An agent's call appends its event at the epoch its precondition named, and its
\* row is the only one for that event and for its key.
LEMMA KeyedTakesOnce ==
  ASSUME TypeOK, JudgeMode, Len(ledger) = wf.epoch, KeyedExactlyOnce,
         NEW mv \in JudgeMoves, LedgerTakes(mv)
  PROVE  KeyedExactlyOnce'
  <1> DEFINE n == Len(ledger)
  <1>1. /\ n \in Nat /\ Len(ledger') = n + 1 /\ ledger'[n + 1].reason = mv.reason
        /\ \A i \in 1 .. n : ledger'[i] = ledger[i]
    BY AppendFacts DEF LedgerTakes
  <1>2. /\ \A r \in idempotency : r.digest[1] + 1 \in 1 .. n
                                  /\ ledger[r.digest[1] + 1].reason = KeyedReason[r.route]
        /\ \A i \in 1 .. n, route \in KeyedRoutes :
             ledger[i].reason = KeyedReason[route] =>
               \E r \in idempotency : r.route = route /\ r.digest[1] = i - 1
        /\ \A r, s \in idempotency :
             r.route = s.route /\ (r.key = s.key \/ r.digest[1] = s.digest[1]) => r = s
    BY DEF KeyedExactlyOnce
  <1>3. \A r \in idempotency : r.digest[1] \in Nat
    BY DEF TypeOK
  <1>n. n = wf.epoch
    OBVIOUS
  <1> HIDE DEF n
  <1>4. \A i \in 1 .. n + 1 : i # n + 1 => i \in 1 .. n
    BY <1>1
  <1>5. CASE UNCHANGED <<idempotency, committed>> /\ mv.reason \notin KeyedReasons
    <2>1. \A route \in KeyedRoutes : KeyedReason[route] # mv.reason
      BY <1>5 DEF KeyedRoutes, KeyedReason, KeyedReasons
    <2>2. \A r \in idempotency' : /\ r.digest[1] + 1 \in 1 .. Len(ledger')
                                  /\ ledger'[r.digest[1] + 1].reason = KeyedReason[r.route]
      BY <1>1, <1>2, <1>3, <1>5
    <2>3. \A i \in 1 .. Len(ledger'), route \in KeyedRoutes :
            ledger'[i].reason = KeyedReason[route] =>
              \E r \in idempotency' : r.route = route /\ r.digest[1] = i - 1
      BY <1>1, <1>2, <1>4, <1>5, <2>1
    <2> QED BY <1>2, <1>5, <2>2, <2>3 DEF KeyedExactlyOnce
  <1>6. ASSUME NEW m \in Request, m.route \in KeyedRoutes, m.epoch = wf.epoch,
               mv.reason = KeyedReason[m.route], IdempotentMutation(m)
        PROVE  KeyedExactlyOnce'
    <2> DEFINE row == [route |-> m.route, key |-> m.key, digest |-> Digest(m)]
    <2>1. row.route = m.route /\ row.key = m.key /\ row.digest[1] = n
      BY <1>6, <1>n DEF Digest
    <2>2. /\ idempotency' = idempotency \cup {row}
          /\ \A r \in idempotency : ~(r.route = m.route /\ r.key = m.key)
      BY <1>6 DEF IdempotentMutation, KeyTaken
    <2> HIDE DEF row
    <2>3. \A route \in KeyedRoutes : KeyedReason[route] = mv.reason => route = m.route
      BY <1>6 DEF KeyedRoutes, KeyedReason
    <2>4. ASSUME NEW r \in idempotency'
          PROVE  /\ r.digest[1] + 1 \in 1 .. Len(ledger')
                 /\ ledger'[r.digest[1] + 1].reason = KeyedReason[r.route]
      <3>1. CASE r = row
        BY <1>1, <1>6, <2>1, <3>1
      <3>2. CASE r \in idempotency
        BY <1>1, <1>2, <1>3, <3>2
      <3> QED BY <2>2, <2>4, <3>1, <3>2
    <2>5. ASSUME NEW i \in 1 .. Len(ledger'), NEW route \in KeyedRoutes,
                 ledger'[i].reason = KeyedReason[route]
          PROVE  \E r \in idempotency' : r.route = route /\ r.digest[1] = i - 1
      <3>1. CASE i = n + 1
        <4>1. row \in idempotency' /\ row.route = route /\ row.digest[1] = i - 1
          BY <1>1, <2>1, <2>2, <2>3, <2>5, <3>1
        <4> QED BY <4>1
      <3>2. CASE i # n + 1
        BY <1>1, <1>2, <1>4, <2>2, <2>5, <3>2
      <3> QED BY <3>1, <3>2
    <2>6. \A r \in idempotency : r.digest[1] # n
      BY <1>1, <1>2, <1>3
    <2>7. \A r, s \in idempotency' :
            r.route = s.route /\ (r.key = s.key \/ r.digest[1] = s.digest[1]) => r = s
      BY <1>2, <2>1, <2>2, <2>6
    <2> QED BY <2>4, <2>5, <2>7 DEF KeyedExactlyOnce
  <1> QED BY <1>5, <1>6 DEF LedgerTakes

\* The reset stands for no row.
LEMMA KeyedCloses ==
  ASSUME TypeOK, KeyedExactlyOnce, LedgerCloses
  PROVE  KeyedExactlyOnce'
  <1> DEFINE n == Len(ledger)
  <1>1. /\ n \in Nat /\ Len(ledger') = n + 1
        /\ ledger'[n + 1].reason = "WORKFLOW_RESET_ACCEPTED"
        /\ \A i \in 1 .. n : ledger'[i] = ledger[i]
    BY AppendFacts DEF LedgerCloses
  <1>2. /\ \A r \in idempotency : r.digest[1] + 1 \in 1 .. n
                                  /\ ledger[r.digest[1] + 1].reason = KeyedReason[r.route]
        /\ \A i \in 1 .. n, route \in KeyedRoutes :
             ledger[i].reason = KeyedReason[route] =>
               \E r \in idempotency : r.route = route /\ r.digest[1] = i - 1
        /\ \A r, s \in idempotency :
             r.route = s.route /\ (r.key = s.key \/ r.digest[1] = s.digest[1]) => r = s
    BY DEF KeyedExactlyOnce
  <1>3. \A r \in idempotency : r.digest[1] \in Nat
    BY DEF TypeOK
  <1> HIDE DEF n
  <1>4. \A i \in 1 .. n + 1 : i # n + 1 => i \in 1 .. n
    BY <1>1
  <1>5. idempotency' = idempotency
    BY DEF LedgerCloses
  <1>6. \A route \in KeyedRoutes : KeyedReason[route] # "WORKFLOW_RESET_ACCEPTED"
    BY DEF KeyedRoutes, KeyedReason
  <1>7. \A r \in idempotency' : /\ r.digest[1] + 1 \in 1 .. Len(ledger')
                                /\ ledger'[r.digest[1] + 1].reason = KeyedReason[r.route]
    BY <1>1, <1>2, <1>3, <1>5
  <1>8. \A i \in 1 .. Len(ledger'), route \in KeyedRoutes :
          ledger'[i].reason = KeyedReason[route] =>
            \E r \in idempotency' : r.route = route /\ r.digest[1] = i - 1
    BY <1>1, <1>2, <1>4, <1>5, <1>6
  <1> QED BY <1>2, <1>5, <1>7, <1>8 DEF KeyedExactlyOnce

\* Idempotency rows and the agent's WebMCP events correspond one to one, through
\* every race of repeated and stale calls (idempotent_webmcp_mutation).
THEOREM KeyedOnce == Spec => []KeyedExactlyOnce
  <1>1. Init => KeyedExactlyOnce
    <2> SUFFICES ASSUME Init PROVE KeyedExactlyOnce
      OBVIOUS
    <2>1. idempotency = {} /\ (ledger = <<Genesis>> \/ ledger = <<>>)
      BY DEF Init
    <2>2. \A i \in 1 .. Len(ledger) : ledger[i].reason = "RUN_GENESIS_ACCEPTED"
      BY <2>1 DEF Genesis
    <2>3. \A route \in KeyedRoutes : KeyedReason[route] # "RUN_GENESIS_ACCEPTED"
      BY DEF KeyedRoutes, KeyedReason
    <2> QED BY <2>1, <2>2, <2>3 DEF KeyedExactlyOnce
  <1>2. TypeOK /\ ServiceInv' /\ LedgerMirrorsWorkflow /\ KeyedExactlyOnce /\ [Next]_vars
          => KeyedExactlyOnce'
    <2> SUFFICES ASSUME TypeOK, ServiceInv', LedgerMirrorsWorkflow, KeyedExactlyOnce,
                        [Next]_vars
                 PROVE  KeyedExactlyOnce'
      OBVIOUS
    <2>1. CASE ~JudgeMode
      BY <2>1 DEF ServiceInv, KeyedExactlyOnce
    <2>2. CASE JudgeMode /\ LedgerStays
      BY <2>2 DEF LedgerStays, KeyedExactlyOnce
    <2>3. CASE JudgeMode /\ LedgerCloses
      BY <2>3, KeyedCloses
    <2>4. CASE JudgeMode /\ \E mv \in JudgeMoves : LedgerTakes(mv)
      BY <2>4, KeyedTakesOnce DEF LedgerMirrorsWorkflow
    <2> QED BY <2>1, <2>2, <2>3, <2>4, JudgeStep
  <1> QED BY <1>1, <1>2, ServiceAlways, LedgerMirrors, PTL DEF Spec

-----------------------------------------------------------------------------
(* The chain behind a recall.                                              *)

\* The links of the chain one by one.
LEMMA ChainLinks ==
  /\ Len(CertifiedChain) = 6
  /\ CertifiedChain[1] = <<"AWAITING_OPERATOR_APPROVAL", "agent">>
  /\ CertifiedChain[2] = <<"APPROVED_AWAITING_EXECUTION", "operator">>
  /\ CertifiedChain[3] = <<"OBSERVING_POSTCHECK", "operator">>
  /\ CertifiedChain[4] = <<"POSTCHECK_READY", "system">>
  /\ CertifiedChain[5] = <<"PENDING_REVIEW", "agent">>
  /\ CertifiedChain[6] = <<"REVIEWED", "reviewer">>
  BY DEF CertifiedChain

\* A link can be taken after `from' only if its predecessors are behind it.
LinkFits(from, to, role) ==
  /\ \A k \in 2 .. 6 : <<to, role>> = CertifiedChain[k] => k - 1 <= Rank[from]
  /\ \A k \in 1 .. 6 : k <= Rank[to] => k <= Rank[from] \/ <<to, role>> = CertifiedChain[k]

\* Every handler's event fits.
LEMMA MovesFit ==
  ASSUME NEW mv \in JudgeMoves PROVE LinkFits(mv.from, mv.to, mv.role)
  <1>1. /\ Rank["INVESTIGATING"] = 0 /\ Rank["AWAITING_OPERATOR_APPROVAL"] = 1
        /\ Rank["APPROVED_AWAITING_EXECUTION"] = 2 /\ Rank["OBSERVING_POSTCHECK"] = 3
        /\ Rank["POSTCHECK_UNAVAILABLE"] = 3 /\ Rank["POSTCHECK_READY"] = 4
        /\ Rank["PENDING_REVIEW"] = 5 /\ Rank["REVIEWED"] = 6
    BY DEF Rank, WorkflowState
  <1>2. /\ \A k \in 2 .. 6 : k = 2 \/ k = 3 \/ k = 4 \/ k = 5 \/ k = 6
        /\ \A k \in 1 .. 6 : k = 1 \/ k = 2 \/ k = 3 \/ k = 4 \/ k = 5 \/ k = 6
    OBVIOUS
  <1>3. \/ /\ mv.from = "INVESTIGATING" /\ mv.to = "AWAITING_OPERATOR_APPROVAL"
           /\ mv.role = "agent"
        \/ /\ mv.from = "AWAITING_OPERATOR_APPROVAL" /\ mv.role = "operator"
           /\ mv.to \in {"APPROVED_AWAITING_EXECUTION", "INVESTIGATING"}
        \/ /\ mv.from \in {"APPROVED_AWAITING_EXECUTION", "POSTCHECK_UNAVAILABLE"}
           /\ mv.to = "OBSERVING_POSTCHECK" /\ mv.role = "operator"
        \/ /\ mv.from = "OBSERVING_POSTCHECK" /\ mv.role = "system"
           /\ mv.to \in {"POSTCHECK_READY", "POSTCHECK_UNAVAILABLE"}
        \/ mv.from = "POSTCHECK_READY" /\ mv.to = "PENDING_REVIEW" /\ mv.role = "agent"
        \/ mv.from = "PENDING_REVIEW" /\ mv.to = "REVIEWED" /\ mv.role = "reviewer"
    BY DEF JudgeMoves, Move
  <1> QED BY <1>1, <1>2, <1>3, ChainLinks DEF LinkFits

\* So does the reset event, which names the state it closes.
LEMMA ResetFits ==
  ASSUME NEW s \in WorkflowState PROVE LinkFits(s, s, "operator")
  <1>1. \A k \in 2 .. 6 : k = 2 \/ k = 3 \/ k = 4 \/ k = 5 \/ k = 6
    OBVIOUS
  <1>2. Rank["APPROVED_AWAITING_EXECUTION"] = 2 /\ Rank["OBSERVING_POSTCHECK"] = 3
    BY DEF Rank, WorkflowState
  <1> QED BY <1>1, <1>2, ChainLinks DEF LinkFits

\* Appending an event that fits keeps the chain.
LEMMA ChainGrows ==
  ASSUME TypeOK, JudgeMode, ChainInv, NEW role, NEW who, NEW reason,
         ledger' = Append(ledger, Event(wf, wf', role, who, reason)),
         LinkFits(wf.state, wf'.state, role)
  PROVE  ChainInv'
  <1> DEFINE n == Len(ledger)
             to == wf'.state
             Then(i) == <<ledger'[i].state_after, ledger'[i].role>>
  <1>1. /\ n \in Nat /\ Len(ledger') = n + 1
        /\ ledger'[n + 1].role = role /\ ledger'[n + 1].state_after = to
        /\ \A i \in 1 .. n : ledger'[i] = ledger[i]
    BY AppendFacts
  <1>2. /\ \A i \in 1 .. n : Then(i) = Taken(i)
        /\ Then(n + 1) = <<to, role>>
    BY <1>1 DEF Taken
  <1>3. /\ \A k \in 1 .. 6 : k <= Rank[wf.state] => \E j \in 1 .. n : Taken(j) = CertifiedChain[k]
        /\ \A i \in 1 .. n, k \in 2 .. 6 : Taken(i) = CertifiedChain[k] =>
             \E j \in 1 .. i - 1 : Taken(j) = CertifiedChain[k - 1]
    BY DEF ChainInv
  <1>4. /\ \A k \in 2 .. 6 : <<to, role>> = CertifiedChain[k] => k - 1 <= Rank[wf.state]
        /\ \A k \in 1 .. 6 : k <= Rank[to] => k <= Rank[wf.state] \/ <<to, role>> = CertifiedChain[k]
    BY DEF LinkFits
  <1>7. /\ Len(ledger)' = n + 1 /\ wf'.state = to
        /\ \A i : Taken(i)' = Then(i)
    BY <1>1 DEF Taken
  <1> HIDE DEF n, to, Then
  <1>5. ASSUME NEW k \in 1 .. 6, k <= Rank[to]
        PROVE  \E j \in 1 .. n + 1 : Then(j) = CertifiedChain[k]
    <2>1. CASE k <= Rank[wf.state]
      <3>1. PICK j \in 1 .. n : Taken(j) = CertifiedChain[k]
        BY <1>3, <2>1
      <3> QED BY <1>1, <1>2, <3>1
    <2>2. CASE <<to, role>> = CertifiedChain[k]
      <3>1. n + 1 \in 1 .. n + 1
        BY <1>1
      <3> QED BY <1>2, <2>2, <3>1
    <2> QED BY <1>4, <1>5, <2>1, <2>2
  <1>6. ASSUME NEW i \in 1 .. n + 1, NEW k \in 2 .. 6, Then(i) = CertifiedChain[k]
        PROVE  \E j \in 1 .. i - 1 : Then(j) = CertifiedChain[k - 1]
    <2>1. CASE i = n + 1
      <3>1. k - 1 \in 1 .. 6 /\ k - 1 <= Rank[wf.state]
        BY <1>2, <1>4, <1>6, <2>1
      <3>2. PICK j \in 1 .. n : Taken(j) = CertifiedChain[k - 1]
        BY <1>3, <3>1
      <3> QED BY <1>1, <1>2, <2>1, <3>2
    <2>2. CASE i # n + 1
      <3>1. i \in 1 .. n
        BY <1>1, <2>2
      <3>2. PICK j \in 1 .. i - 1 : Taken(j) = CertifiedChain[k - 1]
        BY <1>2, <1>3, <1>6, <3>1
      <3>3. j \in 1 .. n
        BY <1>1, <3>1
      <3> QED BY <1>2, <3>2, <3>3
    <2> QED BY <2>1, <2>2
  <1> QED BY <1>5, <1>6, <1>7 DEF ChainInv

\* A step keeps the chain, the certificate and the decision's author.
LEMMA ChainStep ==
  ASSUME TypeOK, ChainInv, CertificateInv, [Next]_vars
  PROVE  ChainInv' /\ CertificateInv'
  <1>0. CASE ~JudgeMode
    BY <1>0 DEF ChainInv, CertificateInv
  <1>1. CASE JudgeMode /\ LedgerStays
    <2>1. \A i : Taken(i)' = Taken(i)
      BY <1>1 DEF LedgerStays, Taken
    <2>2. ChainInv'
      BY <1>1, <2>1 DEF LedgerStays, ChainInv
    <2>3. CertificateInv'
      BY <1>1 DEF LedgerStays, CertificateInv
    <2> QED BY <2>2, <2>3
  <1>2. CASE JudgeMode /\ LedgerCloses
    <2>1. PICK who : ledger' = Append(ledger, Event(wf, wf', "operator", who,
                                                    "WORKFLOW_RESET_ACCEPTED"))
      BY <1>2 DEF LedgerCloses
    <2>2. wf'.state = wf.state /\ wf.state \in WorkflowState /\ UNCHANGED <<memory, approval>>
      BY <1>2 DEF LedgerCloses, TypeOK
    <2>3. ChainInv'
      BY <1>2, <2>1, <2>2, ChainGrows, ResetFits
    <2>4. /\ Len(ledger) \in Nat /\ Len(ledger') = Len(ledger) + 1
          /\ \A i \in 1 .. Len(ledger) : ledger'[i] = ledger[i]
      BY <2>1, AppendFacts
    <2>5. CertificateInv'
      BY <2>2, <2>4 DEF CertificateInv
    <2> QED BY <2>3, <2>5
  <1>3. ASSUME JudgeMode, NEW mv \in JudgeMoves, LedgerTakes(mv)
        PROVE  ChainInv' /\ CertificateInv'
    <2>1. PICK who : ledger' = Append(ledger, Event(wf, wf', mv.role, who, mv.reason))
      BY <1>3 DEF LedgerTakes
    <2>2. LinkFits(wf.state, wf'.state, mv.role)
      BY <1>3, MovesFit DEF LedgerTakes
    <2>3. ChainInv'
      BY <1>3, <2>1, <2>2, ChainGrows
    <2>4. /\ Len(ledger) \in Nat /\ Len(ledger') = Len(ledger) + 1
          /\ ledger'[Len(ledger) + 1].reason = mv.reason
          /\ \A i \in 1 .. Len(ledger) : ledger'[i] = ledger[i]
      BY <2>1, AppendFacts
    <2>5. /\ approval' = approval \/ approval'.actor \in Operators
          /\ memory'.state = "active" => memory.state = "active" \/ mv.reason = "MEMORY_CERTIFY"
      BY <1>3 DEF LedgerTakes
    <2>6. approval'.actor \in Operators \cup {NoOne}
      BY <1>3, <2>5 DEF CertificateInv
    <2>7. memory'.state = "active" =>
            \E i \in 1 .. Len(ledger') : ledger'[i].reason = "MEMORY_CERTIFY"
      <3>1. CASE mv.reason = "MEMORY_CERTIFY"
        <4>1. Len(ledger) + 1 \in 1 .. Len(ledger')
          BY <2>4
        <4> QED BY <2>4, <3>1, <4>1
      <3>2. CASE memory.state = "active"
        <4>1. PICK i \in 1 .. Len(ledger) : ledger[i].reason = "MEMORY_CERTIFY"
          BY <1>3, <3>2 DEF CertificateInv
        <4> QED BY <2>4, <4>1
      <3> QED BY <2>5, <3>1, <3>2
    <2> QED BY <2>3, <2>6, <2>7 DEF CertificateInv
  <1> QED BY <1>0, <1>1, <1>2, <1>3, JudgeStep

\* The chain and the certificate hold in every state of a run.
LEMMA ChainAlways == Spec => [](TypeOK /\ ChainInv /\ CertificateInv)
  <1>1. Init => ChainInv /\ CertificateInv
    <2> SUFFICES ASSUME Init, JudgeMode PROVE ChainInv /\ CertificateInv
      BY DEF ChainInv, CertificateInv
    <2>1. /\ ledger = <<Genesis>> /\ wf.state = "INVESTIGATING"
          /\ memory.state = "absent" /\ approval.actor = NoOne
      BY DEF Init, InitialWorkflow, InitialState, NoMemory
    <2>2. Rank["INVESTIGATING"] = 0
      BY DEF Rank, WorkflowState
    <2>3. \A i \in 1 .. Len(ledger) : Taken(i) = <<"INVESTIGATING", "system">>
      BY <2>1 DEF Taken, Genesis
    <2>4. \A k \in 2 .. 6 : CertifiedChain[k] # <<"INVESTIGATING", "system">>
      <3>1. \A k \in 2 .. 6 : k = 2 \/ k = 3 \/ k = 4 \/ k = 5 \/ k = 6
        OBVIOUS
      <3> QED BY <3>1, ChainLinks
    <2>5. ChainInv
      BY <2>1, <2>2, <2>3, <2>4 DEF ChainInv
    <2>6. CertificateInv
      BY <2>1 DEF CertificateInv
    <2> QED BY <2>5, <2>6
  <1>2. TypeOK /\ ChainInv /\ CertificateInv /\ [Next]_vars => ChainInv' /\ CertificateInv'
    BY ChainStep
  <1> QED BY <1>1, <1>2, TypeCorrect, PTL DEF Spec

\* The agent is offered recall_reviewed_memory only over evidence whose whole
\* authority chain is in the ledger in order, whose verdict is conclusive, and whose
\* reviewer neither approved, nor operated, nor observed it (webmcp_manifest).
THEOREM RecallIsBacked == Spec => []RecallNeedsWholeChain
  <1>1. /\ TypeOK /\ ReviewedInv /\ CertifiedByAnother /\ ChainInv /\ CertificateInv
        /\ EvidenceMatchesStage
        => RecallNeedsWholeChain
    <2> SUFFICES ASSUME ReviewedInv, CertifiedByAnother, ChainInv, CertificateInv,
                        EvidenceMatchesStage, JudgeMode,
                        "recall_reviewed_memory" \in AvailableTools
                 PROVE  /\ \E i \in 1 .. Len(ledger) : ledger[i].reason = "MEMORY_CERTIFY"
                        /\ \A i \in 1 .. Len(ledger), k \in 2 .. Len(CertifiedChain) :
                             Taken(i) = CertifiedChain[k] =>
                               \E j \in 1 .. i - 1 : Taken(j) = CertifiedChain[k - 1]
                        /\ verdict # "inconclusive"
                        /\ memory.reviewed_by \notin {NoOne, approval.actor, wf.operator,
                                                      memory.observed_by}
      BY DEF RecallNeedsWholeChain
    <2>1. memory.state = "active" /\ memory.outcome # "inconclusive"
      BY DEF AvailableTools, RecallEligible
    <2>2. \E i \in 1 .. Len(ledger) : ledger[i].reason = "MEMORY_CERTIFY"
      BY <2>1 DEF CertificateInv
    <2>3. \A i \in 1 .. Len(ledger), k \in 2 .. Len(CertifiedChain) :
            Taken(i) = CertifiedChain[k] =>
              \E j \in 1 .. i - 1 : Taken(j) = CertifiedChain[k - 1]
      BY ChainLinks DEF ChainInv
    <2>4. OutcomeSemantics["inconclusive"] = "inconclusive"
      BY DEF OutcomeSemantics, PostcheckClassification
    <2>5. verdict # "inconclusive"
      BY <2>1, <2>4 DEF EvidenceMatchesStage
    <2>6. memory.reviewed_by \notin {NoOne, approval.actor, wf.operator, memory.observed_by}
      BY <2>1 DEF ReviewedInv, CertifiedByAnother, CertificateInv
    <2> QED BY <2>2, <2>3, <2>5, <2>6
  <1> QED BY <1>1, CertifiedAlways, ChainAlways, EvidenceIsEarned, PTL
=============================================================================
