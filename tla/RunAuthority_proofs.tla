------------------------ MODULE RunAuthority_proofs ------------------------
(***************************************************************************)
(* Proofs about RunAuthority, for every set of subjects and keys, both     *)
(* modes and every bound.                                                  *)
(***************************************************************************)
EXTENDS RunAuthority, TLAPS

LegacyRoutes == {"execution", "outcome", "governance"}

\* What the routes of a request say about its other fields: an assessment carries
\* a classification, a decision or disposition one of its own values, and the
\* routes of the service mode do not exist in judge mode.
LEMMA RequestFacts ==
  ASSUME NEW m \in Request
  PROVE  /\ m.epoch \in Nat /\ m.who \in Subjects /\ m.arg \in Args
         /\ m.route \in Routes /\ m.key \in Keys \cup {NoKey}
         /\ m.route \in {"assessment", "postcheck_assessment"} =>
              m.arg \in PostcheckClassification
         /\ m.route = "outcome" => m.arg \in MemoryOutcome
         /\ m.route = "approval" => m.arg \in Decisions
         /\ m.route = "disposition" => m.arg \in Dispositions
         /\ m.route = "governance" => m.arg \in GovernanceAction
         /\ JudgeMode => m.route \notin LegacyRoutes
  <1> DEFINE e == m.epoch
  <1>1. /\ m \in [route : Routes, epoch : Nat, who : Subjects,
                  key : Keys \cup {NoKey}, arg : Args]
        /\ m \in RequestsAt(e)
    BY DEF Request
  <1> HIDE DEF e
  <1>2. m \in CommonRequests(e) \/ (JudgeMode /\ m \in JudgeRequests(e))
          \/ (~JudgeMode /\ m \in LegacyRequests(e))
    BY <1>1, ModeAssumption DEF RequestsAt
  <1>3. CASE m \in CommonRequests(e)
    BY <1>1, <1>3 DEF CommonRequests, LegacyRoutes
  <1>4. CASE JudgeMode /\ m \in JudgeRequests(e)
    BY <1>1, <1>4 DEF JudgeRequests, LegacyRoutes
  <1>5. CASE ~JudgeMode /\ m \in LegacyRequests(e)
    BY <1>1, <1>5 DEF LegacyRequests, LegacyRoutes
  <1> QED BY <1>2, <1>3, <1>4, <1>5

\* A caller's request is one that the epoch it has read admits.
LEMMA RequestsAtType ==
  ASSUME NEW e \in Nat, NEW m \in RequestsAt(e)
  PROVE  m \in Request
  <1>1. /\ m \in [route : Routes, epoch : Nat, who : Subjects,
                  key : Keys \cup {NoKey}, arg : Args]
        /\ m.epoch = e
    BY DEF RequestsAt, CommonRequests, JudgeRequests, LegacyRequests, AgentSessions,
           Subjects, Routes, KeyedRoutes, Args, GovernanceAction
  <1> QED BY <1>1 DEF Request

-----------------------------------------------------------------------------
(* Type correctness.                                                       *)

WorkflowRow ==
  [state : WorkflowState, epoch : Nat, active : BOOLEAN,
   operator : Subjects \cup {NoOne}, reviewer : Subjects \cup {NoOne}]

\* The coordinator keeps the types of the workflow row and of the ledger.
LEMMA TransitionType ==
  ASSUME TypeOK,
         NEW epoch, NEW from \in WorkflowState, NEW to \in WorkflowState,
         NEW auth \in Authority, NEW who, NEW legacy \in BOOLEAN, NEW reason \in ReasonCodes,
         who \in Subjects \cup Services,
         auth.role \in {"operator", "reviewer"} => who \in Subjects,
         Transition(epoch, from, to, auth, who, legacy, reason)
  PROVE  wf' \in WorkflowRow /\ ledger' \in Seq(AuthorityEvent)
  <1>1. wf \in WorkflowRow /\ ledger \in Seq(AuthorityEvent)
    BY DEF TypeOK, WorkflowRow
  <1>2. /\ wf.state = from
        /\ wf' = [wf EXCEPT !.state = to, !.epoch = @ + 1,
                            !.operator = IF auth.role = "operator" THEN who ELSE @,
                            !.reviewer = IF auth.role = "reviewer" THEN who ELSE @]
        /\ ledger' = AppendTransition(wf, wf', auth.role, who, reason)
    BY DEF Transition, ValidTransition
  <1> DEFINE oper == IF auth.role = "operator" THEN who ELSE wf.operator
             revw == IF auth.role = "reviewer" THEN who ELSE wf.reviewer
  <1>a. wf' = [state |-> to, epoch |-> wf.epoch + 1, active |-> wf.active,
               operator |-> oper, reviewer |-> revw]
    BY <1>1, <1>2 DEF WorkflowRow
  <1>3. wf' \in WorkflowRow
    BY <1>1, <1>a DEF WorkflowRow
  <1>4. auth.role \in {"agent", "operator", "reviewer", "system"}
    BY DEF Authority, AgentOverWebMcp, OperatorOverUi, ReviewerOverUi, SystemAuthority
  <1>5. Event(wf, wf', auth.role, who, reason) \in AuthorityEvent
    BY <1>1, <1>3, <1>4 DEF Event, AuthorityEvent, WorkflowRow
  <1>6. ledger' \in Seq(AuthorityEvent)
    BY <1>1, <1>2, <1>5 DEF AppendTransition
  <1> QED BY <1>3, <1>6

\* So does a reset.
LEMMA InvalidateType ==
  ASSUME TypeOK, NEW epoch, NEW who \in Subjects, Invalidate(epoch, who)
  PROVE  wf' \in WorkflowRow /\ ledger' \in Seq(AuthorityEvent)
  <1>1. wf \in WorkflowRow /\ ledger \in Seq(AuthorityEvent)
    BY DEF TypeOK, WorkflowRow
  <1>a. wf' = [state |-> wf.state, epoch |-> wf.epoch + 1, active |-> FALSE,
               operator |-> wf.operator, reviewer |-> wf.reviewer]
    BY <1>1 DEF Invalidate, WorkflowRow
  <1>2. wf' \in WorkflowRow
    BY <1>1, <1>a DEF WorkflowRow
  <1>b. "WORKFLOW_RESET_ACCEPTED" \in ReasonCodes
    BY DEF ReasonCodes
  <1>3. Event(wf, wf', "operator", who, "WORKFLOW_RESET_ACCEPTED") \in AuthorityEvent
    BY <1>1, <1>2, <1>b DEF Event, AuthorityEvent, WorkflowRow
  <1>4. ledger' \in Seq(AuthorityEvent)
    BY <1>1, <1>3 DEF Invalidate, AppendTransition
  <1> QED BY <1>2, <1>4

MemoryRow ==
  [state : MemoryState, outcome : MemoryOutcome, observed_by : Subjects \cup {NoOne},
   reviewed_by : Subjects \cup {NoOne}, governance_version : Nat]

\* A new memory is a row of the memory table.
LEMMA PendingMemoryType ==
  ASSUME NEW outcome \in MemoryOutcome, NEW who \in Subjects
  PROVE  PendingMemory(outcome, who) \in MemoryRow
  BY DEF PendingMemory, MemoryRow, MemoryState

\* Every classification has a sign.
LEMMA OutcomeSemanticsType ==
  \A c \in PostcheckClassification : OutcomeSemantics[c] \in MemoryOutcome
  BY DEF OutcomeSemantics, PostcheckClassification, MemoryOutcome

\* A governed memory is one too.
LEMMA GovernMemoryType ==
  ASSUME TypeOK, NEW a \in GovernanceAction \cup {"revoke"}, NEW who \in Subjects,
         GovernMemory(a, who)
  PROVE  memory' \in MemoryRow
  <1>1. memory \in MemoryRow
    BY DEF TypeOK, MemoryRow
  <1>2. GovernanceTarget[a] \in MemoryState
    BY DEF GovernanceTarget, GovernanceAction, Dispositions, MemoryState
  <1>3. memory' = [state |-> GovernanceTarget[a], outcome |-> memory.outcome,
                   observed_by |-> memory.observed_by, reviewed_by |-> who,
                   governance_version |-> memory.governance_version + 1]
    BY <1>1 DEF GovernMemory, MemoryRow
  <1> QED BY <1>1, <1>2, <1>3 DEF MemoryRow

\* The authorities, states and reason codes the handlers name are members of
\* their sets.
LEMMA CoordinatorConstants ==
  /\ AgentOverWebMcp \in Authority /\ OperatorOverUi \in Authority
  /\ ReviewerOverUi \in Authority /\ SystemAuthority \in Authority
  /\ AgentOverWebMcp.role = "agent" /\ OperatorOverUi.role = "operator"
  /\ ReviewerOverUi.role = "reviewer" /\ SystemAuthority.role = "system"
  /\ \A d \in Dispositions : DispositionReason[d] \in ReasonCodes
  BY DEF Authority, AgentOverWebMcp, OperatorOverUi, ReviewerOverUi, SystemAuthority,
         Dispositions, DispositionReason, ReasonCodes

\* One step of a handler keeps the types.
LEMMA HandleType ==
  ASSUME TypeOK, NEW m \in inflight, Handle(m)
  PROVE  TypeOK'
  <1> USE CoordinatorConstants
  <1>0. m \in Request
    BY DEF TypeOK
  <1>f. /\ m.epoch \in Nat /\ m.who \in Subjects /\ m.arg \in Args
        /\ m.route \in Routes /\ m.key \in Keys \cup {NoKey}
        /\ m.route \in {"assessment", "postcheck_assessment"} =>
             m.arg \in PostcheckClassification
        /\ m.route = "outcome" => m.arg \in MemoryOutcome
        /\ m.route = "approval" => m.arg \in Decisions
        /\ m.route = "disposition" => m.arg \in Dispositions
        /\ m.route = "governance" => m.arg \in GovernanceAction
    BY <1>0, RequestFacts
  <1>1. CASE Drop(m)
    BY <1>1 DEF TypeOK, Drop, evidence
  <1>2. CASE RefuseKeyed(m)
    BY <1>2 DEF TypeOK, RefuseKeyed, evidence
  <1>k. ASSUME m.route \in KeyedRoutes, IdempotentMutation(m)
        PROVE  /\ idempotency' \subseteq [route : KeyedRoutes, key : Keys \cup {NoKey},
                                          digest : Nat \X Args]
               /\ committed' \subseteq Request
               /\ inflight' \subseteq Request
    <2>1. [route |-> m.route, key |-> m.key, digest |-> Digest(m)] \in
            [route : KeyedRoutes, key : Keys \cup {NoKey}, digest : Nat \X Args]
      BY <1>f, <1>k DEF Digest
    <2> QED BY <1>0, <1>k, <2>1 DEF TypeOK, IdempotentMutation
  <1>3. CASE Propose(m)
    <2>1. wf' \in WorkflowRow /\ ledger' \in Seq(AuthorityEvent)
      BY <1>3, <1>f, TransitionType DEF Propose, WorkflowState, ReasonCodes
    <2> QED BY <1>3, <1>k, <2>1 DEF TypeOK, Propose, WorkflowRow, evidence, KeyedRoutes
  <1>4. CASE Approve(m)
    <2>1. wf' \in WorkflowRow /\ ledger' \in Seq(AuthorityEvent)
      <3>1. CASE m.arg = "approve"
        BY <1>4, <1>f, <3>1, TransitionType DEF Approve, WorkflowState, ReasonCodes
      <3>2. CASE m.arg # "approve"
        BY <1>4, <1>f, <3>2, TransitionType DEF Approve, WorkflowState, ReasonCodes
      <3> QED BY <3>1, <3>2
    <2>2. approval' \in [required : BOOLEAN, decision : {"none", "approved", "rejected"},
                         actor : Subjects \cup {NoOne}]
      BY <1>4, <1>f DEF Approve, DecideApproval, RecordApproval, TypeOK
    <2> QED BY <1>4, <2>1, <2>2 DEF TypeOK, Approve, DecideApproval, RecordApproval, WorkflowRow, calls
  <1>o. ASSUME StartObserving(wf.epoch + 1)
        PROVE  observers' \subseteq
                 [epoch : Nat, result : PostcheckClassification \cup {"collecting", "unavailable"}]
    BY <1>o DEF TypeOK, StartObserving
  <1>5. CASE ApplySandbox(m)
    <2>1. wf' \in WorkflowRow /\ ledger' \in Seq(AuthorityEvent)
      BY <1>5, <1>f, TransitionType DEF ApplySandbox, WorkflowState, ReasonCodes
    <2> QED BY <1>5, <1>o, <2>1 DEF TypeOK, ApplySandbox, RecordSandboxExecution, WorkflowRow, calls
  <1>6. CASE RetryPostcheck(m)
    <2>1. wf' \in WorkflowRow /\ ledger' \in Seq(AuthorityEvent)
      BY <1>6, <1>f, TransitionType DEF RetryPostcheck, WorkflowState, ReasonCodes
    <2> QED BY <1>6, <1>o, <2>1 DEF TypeOK, RetryPostcheck, WorkflowRow, evidence, calls
  <1>p. ASSUME PersistVerifiedOutcome(m), m.arg \in PostcheckClassification
        PROVE  /\ memory' \in MemoryRow
               /\ assessment' \in PostcheckClassification \cup {"none"}
    BY <1>p, <1>f, PendingMemoryType, OutcomeSemanticsType DEF TypeOK, PersistVerifiedOutcome,
       RecordPostcheckAssessment
  <1>7. CASE AssessWebMcp(m)
    <2>1. wf' \in WorkflowRow /\ ledger' \in Seq(AuthorityEvent)
      BY <1>7, <1>f, TransitionType DEF AssessWebMcp, WorkflowState, ReasonCodes
    <2> QED BY <1>7, <1>f, <1>k, <1>p, <2>1
            DEF TypeOK, AssessWebMcp, WorkflowRow, MemoryRow, KeyedRoutes
  <1>8. CASE RecordAssessment(m)
    <2>1. wf' \in WorkflowRow /\ ledger' \in Seq(AuthorityEvent)
      BY <1>8, <1>f, TransitionType DEF RecordAssessment, WorkflowState, ReasonCodes
    <2> QED BY <1>8, <1>f, <1>p, <2>1
            DEF TypeOK, RecordAssessment, WorkflowRow, MemoryRow, calls
  <1>9. CASE AttestExecution(m)
    <2>1. wf' \in WorkflowRow /\ ledger' \in Seq(AuthorityEvent)
      <3>1. /\ wf.state \in WorkflowState /\ "OBSERVING_POSTCHECK" \in WorkflowState
            /\ "STATE_TRANSITION_ACCEPTED" \in ReasonCodes
            /\ Transition(m.epoch, wf.state, "OBSERVING_POSTCHECK",
                          OperatorOverUi, m.who, TRUE, "STATE_TRANSITION_ACCEPTED")
        BY <1>9 DEF AttestExecution, WorkflowState, ReasonCodes
      <3> QED BY <1>f, <3>1, TransitionType
    <2> QED BY <1>9, <2>1 DEF TypeOK, AttestExecution, RecordExecution, WorkflowRow, calls
  <1>10. CASE ObserveOutcome(m)
    <2>1. wf' \in WorkflowRow /\ ledger' \in Seq(AuthorityEvent)
      BY <1>10, TransitionType DEF ObserveOutcome, WorkflowState, ReasonCodes, Services
    <2>2. memory' \in MemoryRow
      BY <1>10, <1>f, PendingMemoryType DEF ObserveOutcome
    <2> QED BY <1>10, <2>1, <2>2 DEF TypeOK, ObserveOutcome, WorkflowRow, MemoryRow, calls
  <1>11. CASE Disposition(m)
    <2>1. wf' \in WorkflowRow /\ ledger' \in Seq(AuthorityEvent)
      BY <1>11, <1>f, TransitionType DEF Disposition, WorkflowState
    <2>2. memory' \in MemoryRow
      BY <1>11, <1>f, GovernMemoryType DEF Disposition, GovernanceAction
    <2>3. receipts' \subseteq Nat
      <3>1. receipts' = receipts \cup {Len(ledger')} /\ receipts \subseteq Nat
        BY <1>11 DEF TypeOK, Disposition, RequestReceipt
      <3>2. Len(ledger') \in Nat
        BY <2>1
      <3> QED BY <3>1, <3>2
    <2> QED BY <1>11, <2>1, <2>2, <2>3 DEF TypeOK, Disposition, WorkflowRow, MemoryRow, calls
  <1>12. CASE Revoke(m)
    <2>1. memory' \in MemoryRow
      BY <1>12, <1>f, GovernMemoryType DEF Revoke
    <2> QED BY <1>12, <2>1 DEF TypeOK, Revoke, MemoryRow, calls
  <1>13. CASE GovernRoute(m)
    <2>1. wf' \in WorkflowRow /\ ledger' \in Seq(AuthorityEvent)
      BY <1>13, <1>f, TransitionType DEF GovernRoute, WorkflowState, ReasonCodes
    <2>2. memory' \in MemoryRow
      BY <1>13, <1>f, GovernMemoryType DEF GovernRoute
    <2> QED BY <1>13, <2>1, <2>2 DEF TypeOK, GovernRoute, WorkflowRow, MemoryRow, calls
  <1>14. CASE ResetRun(m)
    <2>1. wf' \in WorkflowRow /\ ledger' \in Seq(AuthorityEvent)
      BY <1>14, <1>f, InvalidateType DEF ResetRun
    <2> QED BY <1>14, <2>1 DEF TypeOK, ResetRun, WorkflowRow, evidence, calls
  <1>15. CASE ResetWorkflow(m)
    <2>1. wf' \in WorkflowRow /\ ledger' \in Seq(AuthorityEvent)
      BY <1>15, <1>f, InvalidateType DEF ResetWorkflow
    <2> QED BY <1>15, <2>1 DEF TypeOK, ResetWorkflow, WorkflowRow, evidence, calls
  <1> QED BY <1>1, <1>2, <1>3, <1>4, <1>5, <1>6, <1>7, <1>8, <1>9, <1>10, <1>11, <1>12,
             <1>13, <1>14, <1>15 DEF Handle

\* One step of a handler that is waiting for its observation keeps the types.
LEMMA ObserverType ==
  ASSUME TypeOK, NEW o \in observers, ObserverStep(o) \/ CrashObserver(o)
  PROVE  TypeOK'
  <1> USE CoordinatorConstants
  <1>1. CASE Collect(o)
    <2>1. PICK result \in PostcheckClassification \cup {"unavailable"} :
            observers' = (observers \ {o}) \cup {[o EXCEPT !.result = result]}
      BY <1>1 DEF Collect
    <2>2. [o EXCEPT !.result = result] \in
            [epoch : Nat, result : PostcheckClassification \cup {"collecting", "unavailable"}]
      BY DEF TypeOK
    <2>3. observers' \subseteq
            [epoch : Nat, result : PostcheckClassification \cup {"collecting", "unavailable"}]
      BY <2>1, <2>2 DEF TypeOK
    <2> QED BY <1>1, <2>3 DEF TypeOK, Collect, evidence, calls
  <1>2. CASE RecordObservation(o)
    <2>1. wf' \in WorkflowRow /\ ledger' \in Seq(AuthorityEvent)
      BY <1>2, TransitionType DEF RecordObservation, WorkflowState, ReasonCodes, Services
    <2> QED BY <1>2, <2>1 DEF TypeOK, RecordObservation, RecordPostcheck, WorkflowRow, calls
  <1>3. CASE MarkUnavailable(o)
    <2>1. wf' \in WorkflowRow /\ ledger' \in Seq(AuthorityEvent)
      BY <1>3, TransitionType DEF MarkUnavailable, WorkflowState, ReasonCodes, Services
    <2> QED BY <1>3, <2>1 DEF TypeOK, MarkUnavailable, WorkflowRow, evidence, calls
  <1>4. CASE ObservationConflict(o)
    BY <1>4 DEF TypeOK, ObservationConflict, evidence, calls
  <1>5. CASE CrashObserver(o)
    BY <1>5 DEF TypeOK, CrashObserver, evidence, calls
  <1> QED BY <1>1, <1>2, <1>3, <1>4, <1>5 DEF ObserverStep

\* The rows a run starts with are typed.
LEMMA InitType ==
  ASSUME Init
  PROVE  TypeOK
  <1> PICK required \in ApprovalRequired :
        /\ wf = InitialWorkflow(required)
        /\ approval = [required |-> required, decision |-> "none", actor |-> NoOne]
    BY DEF Init
  <1>1. InitialState(required) \in WorkflowState /\ required \in BOOLEAN
    BY ModeAssumption DEF InitialState, WorkflowState
  <1>2. wf \in [state : WorkflowState, epoch : Nat, active : BOOLEAN,
                operator : Subjects \cup {NoOne}, reviewer : Subjects \cup {NoOne}]
    BY <1>1 DEF InitialWorkflow
  <1>3. Genesis \in AuthorityEvent
    BY DEF Genesis, AuthorityEvent, WorkflowState, ReasonCodes, Services
  <1>4. ledger \in Seq(AuthorityEvent)
    BY <1>3 DEF Init
  <1>5. memory \in MemoryRow
    BY DEF Init, NoMemory, MemoryRow, MemoryState, MemoryOutcome
  <1> QED BY <1>1, <1>2, <1>4, <1>5 DEF TypeOK, Init, MemoryRow

\* Every row, ledger event and request keeps the shape its table gives it, in
\* every reachable state of both modes (all handlers of api.py).
THEOREM TypeCorrect == Spec => []TypeOK
  <1>1. Init => TypeOK
    BY InitType
  <1>2. TypeOK /\ [Next]_vars => TypeOK'
    <2> SUFFICES ASSUME TypeOK, [Next]_vars
                 PROVE  TypeOK'
      OBVIOUS
    <2>1. CASE Arrive
      <3>1. PICK m \in RequestsAt(wf.epoch) : inflight' = inflight \cup {m}
        BY <2>1 DEF Arrive
      <3>2. m \in Request
        BY RequestsAtType DEF TypeOK
      <3> QED BY <2>1, <3>1, <3>2 DEF TypeOK, Arrive, evidence
    <2>2. CASE \E m \in inflight : Handle(m)
      BY <2>2, HandleType
    <2>3. CASE \E o \in observers : ObserverStep(o) \/ CrashObserver(o)
      BY <2>3, ObserverType
    <2>4. CASE ExpireRun
      BY <2>4 DEF TypeOK, ExpireRun, evidence, calls
    <2>5. CASE UNCHANGED vars
      BY <2>5 DEF TypeOK, vars, evidence, calls
    <2> QED BY <2>1, <2>2, <2>3, <2>4, <2>5 DEF Next
  <1> QED BY <1>1, <1>2, PTL DEF Spec

-----------------------------------------------------------------------------
(* The ledger of a judge run.                                              *)

\* What an accepted transition does to row and ledger, as facts about fields.
LEMMA TransitionFacts ==
  ASSUME TypeOK, NEW epoch, NEW from, NEW to, NEW auth, NEW who, NEW legacy, NEW reason,
         Transition(epoch, from, to, auth, who, legacy, reason)
  PROVE  /\ wf.active /\ wf.state = from /\ wf.epoch = epoch
         /\ auth \in RequiredAuthority(from, legacy)
         /\ wf'.state = to /\ wf'.epoch = wf.epoch + 1 /\ wf'.active = wf.active
         /\ JudgeMode => ledger' = Append(ledger, Event(wf, wf', auth.role, who, reason))
         /\ ~JudgeMode => ledger' = ledger
  <1>1. wf \in WorkflowRow
    BY DEF TypeOK, WorkflowRow
  <1>2. wf' = [wf EXCEPT !.state = to, !.epoch = @ + 1,
                         !.operator = IF auth.role = "operator" THEN who ELSE @,
                         !.reviewer = IF auth.role = "reviewer" THEN who ELSE @]
    BY DEF Transition
  <1>3. wf'.state = to /\ wf'.epoch = wf.epoch + 1 /\ wf'.active = wf.active
    BY <1>1, <1>2 DEF WorkflowRow
  <1> QED BY <1>3 DEF Transition, ValidTransition, AppendTransition

\* The same for a reset.
LEMMA InvalidateFacts ==
  ASSUME TypeOK, NEW epoch, NEW who, Invalidate(epoch, who)
  PROVE  /\ wf.active
         /\ wf'.state = wf.state /\ wf'.epoch = wf.epoch + 1 /\ wf'.active = FALSE
         /\ JudgeMode => ledger' = Append(ledger, Event(wf, wf', "operator", who,
                                                        "WORKFLOW_RESET_ACCEPTED"))
  <1>1. wf \in WorkflowRow
    BY DEF TypeOK, WorkflowRow
  <1>2. wf'.state = wf.state /\ wf'.epoch = wf.epoch + 1 /\ wf'.active = FALSE
    BY <1>1 DEF Invalidate, WorkflowRow
  <1> QED BY <1>2 DEF Invalidate, AppendTransition

\* Appending the event of a step from the row to its successor keeps the ledger
\* the history of the row.
LEMMA AppendMirrors ==
  ASSUME TypeOK, LedgerMirrorsWorkflow, JudgeMode, wf.active,
         NEW role, NEW who, NEW reason,
         ledger' = Append(ledger, Event(wf, wf', role, who, reason)),
         wf'.epoch = wf.epoch + 1,
         wf'.active \in BOOLEAN,
         reason = "WORKFLOW_RESET_ACCEPTED" <=> ~wf'.active
  PROVE  LedgerMirrorsWorkflow'
  <1>1. ledger \in Seq(AuthorityEvent) /\ wf.epoch \in Nat
    BY DEF TypeOK
  <1> DEFINE n == Len(ledger)
             ev == Event(wf, wf', role, who, reason)
  <1>2. /\ n = wf.epoch
        /\ ledger[1].state_before = "ABSENT"
        /\ \A i \in 1 .. n : ledger[i].epoch_before = i - 1 /\ ledger[i].epoch_after = i
        /\ \A i \in 2 .. n : ledger[i].state_before = ledger[i - 1].state_after
        /\ ledger[n].state_after = wf.state
        /\ \A i \in 1 .. n : ledger[i].reason # "WORKFLOW_RESET_ACCEPTED"
    BY DEF LedgerMirrorsWorkflow
  <1>3. /\ ev.state_before = wf.state /\ ev.state_after = wf'.state
        /\ ev.epoch_before = wf.epoch /\ ev.epoch_after = wf'.epoch /\ ev.reason = reason
    BY DEF Event
  <1> HIDE DEF ev
  <1>4. /\ n \in Nat /\ Len(ledger') = n + 1 /\ ledger'[n + 1] = ev
        /\ \A i \in 1 .. n : ledger'[i] = ledger[i]
    BY <1>1 DEF ev
  <1>5. n >= 1
    BY <1>1, <1>2 DEF LedgerMirrorsWorkflow
  <1> HIDE DEF n
  <1> QED BY <1>1, <1>2, <1>3, <1>4, <1>5 DEF LedgerMirrorsWorkflow

\* A step that leaves row and ledger alone.
LEMMA StutterMirrors ==
  ASSUME LedgerMirrorsWorkflow, UNCHANGED <<wf, ledger>>
  PROVE  LedgerMirrorsWorkflow'
  BY DEF LedgerMirrorsWorkflow

\* An accepted transition keeps the ledger the history of the row.
LEMMA TransitionMirrors ==
  ASSUME TypeOK, LedgerMirrorsWorkflow,
         NEW epoch, NEW from, NEW to, NEW auth, NEW who, NEW legacy, NEW reason,
         reason # "WORKFLOW_RESET_ACCEPTED",
         Transition(epoch, from, to, auth, who, legacy, reason)
  PROVE  LedgerMirrorsWorkflow'
  <1>1. CASE JudgeMode
    <2>1. wf.active \in BOOLEAN /\ wf'.active \in BOOLEAN
      BY TransitionFacts DEF TypeOK
    <2>2. /\ wf.active /\ wf'.active /\ wf'.epoch = wf.epoch + 1
          /\ ledger' = Append(ledger, Event(wf, wf', auth.role, who, reason))
      BY <1>1, <2>1, TransitionFacts
    <2> QED BY <1>1, <2>1, <2>2, AppendMirrors
  <1>2. CASE ~JudgeMode
    BY <1>2 DEF LedgerMirrorsWorkflow
  <1> QED BY <1>1, <1>2

\* So does a reset.
LEMMA InvalidateMirrors ==
  ASSUME TypeOK, LedgerMirrorsWorkflow, NEW epoch, NEW who, Invalidate(epoch, who)
  PROVE  LedgerMirrorsWorkflow'
  <1>1. CASE JudgeMode
    <2>1. /\ wf.active /\ ~wf'.active /\ wf'.active \in BOOLEAN /\ wf'.epoch = wf.epoch + 1
          /\ ledger' = Append(ledger, Event(wf, wf', "operator", who, "WORKFLOW_RESET_ACCEPTED"))
      BY <1>1, InvalidateFacts
    <2> QED BY <1>1, <2>1, AppendMirrors
  <1>2. CASE ~JudgeMode
    BY <1>2 DEF LedgerMirrorsWorkflow
  <1> QED BY <1>1, <1>2

\* In every reachable state of a judge run the ledger is exactly the history of
\* the workflow row, however many handlers race, retry or come late.
THEOREM LedgerMirrors == Spec => []LedgerMirrorsWorkflow
  <1>1. Init => LedgerMirrorsWorkflow
    BY DEF Init, LedgerMirrorsWorkflow, Genesis, InitialWorkflow, InitialState
  <1>2. TypeOK /\ LedgerMirrorsWorkflow /\ [Next]_vars => LedgerMirrorsWorkflow'
    <2> SUFFICES ASSUME TypeOK, LedgerMirrorsWorkflow, [Next]_vars
                 PROVE  LedgerMirrorsWorkflow'
      OBVIOUS
    <2>1. CASE Arrive
      BY <2>1, StutterMirrors DEF Arrive
    <2>2. ASSUME NEW m \in inflight, Handle(m)
          PROVE  LedgerMirrorsWorkflow'
      <3>0. m.route = "disposition" => m.arg \in Dispositions
        BY RequestFacts DEF TypeOK
      <3>1. CASE Drop(m) \/ RefuseKeyed(m) \/ Revoke(m)
        BY <3>1, StutterMirrors DEF Drop, RefuseKeyed, Revoke
      <3>2. CASE Propose(m)
        BY <3>2, TransitionMirrors DEF Propose
      <3>3. CASE Approve(m)
        <4>1. (IF m.arg = "approve" THEN "PROPOSAL_APPROVED" ELSE "PROPOSAL_REJECTED")
                # "WORKFLOW_RESET_ACCEPTED"
          OBVIOUS
        <4> QED BY <3>3, <4>1, TransitionMirrors DEF Approve
      <3>4. CASE ApplySandbox(m)
        BY <3>4, TransitionMirrors DEF ApplySandbox
      <3>5. CASE RetryPostcheck(m)
        BY <3>5, TransitionMirrors DEF RetryPostcheck
      <3>6. CASE AssessWebMcp(m)
        BY <3>6, TransitionMirrors DEF AssessWebMcp
      <3>7. CASE RecordAssessment(m)
        BY <3>7, TransitionMirrors DEF RecordAssessment
      <3>8. CASE AttestExecution(m)
        BY <3>8, TransitionMirrors DEF AttestExecution
      <3>9. CASE ObserveOutcome(m)
        BY <3>9, TransitionMirrors DEF ObserveOutcome
      <3>10. CASE Disposition(m)
        <4>1. DispositionReason[m.arg] # "WORKFLOW_RESET_ACCEPTED"
          BY <3>0, <3>10 DEF Disposition, Dispositions, DispositionReason
        <4> QED BY <3>10, <4>1, TransitionMirrors DEF Disposition
      <3>11. CASE GovernRoute(m)
        BY <3>11, TransitionMirrors DEF GovernRoute
      <3>12. CASE ResetRun(m) \/ ResetWorkflow(m)
        BY <3>12, InvalidateMirrors DEF ResetRun, ResetWorkflow
      <3> QED BY <2>2, <3>1, <3>2, <3>3, <3>4, <3>5, <3>6, <3>7, <3>8, <3>9, <3>10, <3>11,
                 <3>12 DEF Handle
    <2>3. ASSUME NEW o \in observers, ObserverStep(o) \/ CrashObserver(o)
          PROVE  LedgerMirrorsWorkflow'
      <3>1. CASE Collect(o) \/ ObservationConflict(o) \/ CrashObserver(o)
        BY <3>1, StutterMirrors DEF Collect, ObservationConflict, CrashObserver
      <3>2. CASE RecordObservation(o)
        BY <3>2, TransitionMirrors DEF RecordObservation
      <3>3. CASE MarkUnavailable(o)
        BY <3>3, TransitionMirrors DEF MarkUnavailable
      <3> QED BY <2>3, <3>1, <3>2, <3>3 DEF ObserverStep
    <2>4. CASE ExpireRun \/ UNCHANGED vars
      BY <2>4, StutterMirrors DEF ExpireRun, vars
    <2> QED BY <2>1, <2>2, <2>3, <2>4 DEF Next
  <1> QED BY <1>1, <1>2, TypeCorrect, PTL DEF Spec

-----------------------------------------------------------------------------
(* A closed workflow.                                                      *)

\* The run is reset only together with its workflow.
ResetClosesWorkflow == run = "reset" => ~wf.active

\* A closed workflow is frozen: no late request, repeated call, retry or
\* observation changes it, its ledger, its evidence or its receipts.
LEMMA ClosedIsFrozen ==
  ASSUME TypeOK, ~wf.active, [Next]_vars
  PROVE  UNCHANGED <<wf, ledger, evidence, receipts>>
  <1>0. \A epoch, from, to, auth, who, legacy, reason :
          ~Transition(epoch, from, to, auth, who, legacy, reason)
    BY DEF Transition, ValidTransition
  <1>1. \A epoch, who : ~Invalidate(epoch, who)
    BY DEF Invalidate
  <1>2. CASE Arrive
    BY <1>2 DEF Arrive
  <1>3. ASSUME NEW m \in inflight, Handle(m)
        PROVE  UNCHANGED <<wf, ledger, evidence, receipts>>
    <2>1. Drop(m) \/ RefuseKeyed(m)
      BY <1>0, <1>1, <1>3
         DEF Handle, Propose, Approve, ApplySandbox, RetryPostcheck, AssessWebMcp,
             RecordAssessment, AttestExecution, ObserveOutcome, Disposition, Revoke,
             GovernRoute, ResetRun, ResetWorkflow
    <2> QED BY <2>1 DEF Drop, RefuseKeyed
  <1>4. ASSUME NEW o \in observers, ObserverStep(o) \/ CrashObserver(o)
        PROVE  UNCHANGED <<wf, ledger, evidence, receipts>>
    <2>1. Collect(o) \/ ObservationConflict(o) \/ CrashObserver(o)
      BY <1>0, <1>4 DEF ObserverStep, RecordObservation, MarkUnavailable
    <2> QED BY <2>1 DEF Collect, ObservationConflict, CrashObserver
  <1>5. CASE ExpireRun \/ UNCHANGED vars
    BY <1>5 DEF ExpireRun, vars
  <1> QED BY <1>2, <1>3, <1>4, <1>5 DEF Next

\* No step reopens the workflow of a reset run.
LEMMA ResetClosesStep ==
  ASSUME TypeOK, ResetClosesWorkflow, [Next]_vars
  PROVE  ResetClosesWorkflow'
  <1>1. CASE run = "reset"
    BY <1>1, ClosedIsFrozen DEF ResetClosesWorkflow
  <1>2. CASE run # "reset"
    <2> SUFFICES ASSUME run' = "reset"
                 PROVE  ~wf'.active
      BY DEF ResetClosesWorkflow
    <2>1. ~Arrive /\ ~ExpireRun /\ ~UNCHANGED vars
      BY <1>2 DEF Arrive, ExpireRun, vars
    <2>2. ~ \E o \in observers : ObserverStep(o) \/ CrashObserver(o)
      BY <1>2 DEF ObserverStep, CrashObserver, Collect, RecordObservation, MarkUnavailable,
                  ObservationConflict
    <2>3. PICK m \in inflight : Handle(m)
      BY <2>1, <2>2 DEF Next
    <2>4. ResetRun(m)
      BY <1>2, <2>3
         DEF Handle, Drop, RefuseKeyed, Propose, Approve, ApplySandbox, RetryPostcheck,
             AssessWebMcp, RecordAssessment, AttestExecution, ObserveOutcome, Disposition,
             Revoke, GovernRoute, ResetWorkflow
    <2> QED BY <2>4, InvalidateFacts DEF ResetRun
  <1> QED BY <1>1, <1>2

\* Nothing that was in flight when the run was reset or its workflow closed takes
\* effect afterwards (reset_operator_run, reset_workflow).
THEOREM ResetIsFinal == Spec => NothingAfterReset
  <1>1. Init => ResetClosesWorkflow
    BY DEF Init, ResetClosesWorkflow
  <1>2. TypeOK /\ ResetClosesWorkflow /\ [Next]_vars => ResetClosesWorkflow'
    BY ResetClosesStep
  <1>3. TypeOK /\ ResetClosesWorkflow /\ [Next]_vars =>
          [(run = "reset" \/ ~wf.active) => UNCHANGED <<wf, ledger, evidence, receipts>>]_vars
    BY ClosedIsFrozen DEF ResetClosesWorkflow
  <1> QED BY <1>1, <1>2, <1>3, TypeCorrect, PTL DEF Spec, NothingAfterReset

-----------------------------------------------------------------------------
(* Evidence and the workflow's stage.                                      *)

\* One accepted step of a judge run keeps the evidence rows in line with the
\* workflow's state.
LEMMA EvidenceHandle ==
  ASSUME TypeOK, EvidenceMatchesStage, JudgeMode, NEW m \in inflight, Handle(m)
  PROVE  EvidenceMatchesStage'
  <1>0. /\ m.route \notin LegacyRoutes
        /\ m.route \in {"assessment", "postcheck_assessment"} => m.arg \in PostcheckClassification
        /\ m.route = "approval" => m.arg \in Decisions
        /\ m.route = "disposition" => m.arg \in Dispositions
    BY RequestFacts DEF TypeOK
  <1>1. CASE Drop(m) \/ RefuseKeyed(m)
    BY <1>1 DEF Drop, RefuseKeyed, EvidenceMatchesStage, evidence
  <1>2. CASE Propose(m)
    <2>1. wf.state = "INVESTIGATING" /\ wf'.state = "AWAITING_OPERATOR_APPROVAL"
      BY <1>2, TransitionFacts DEF Propose
    <2> QED BY <1>2, <2>1 DEF Propose, EvidenceMatchesStage, evidence
  <1>3. CASE Approve(m)
    <2>1. CASE m.arg = "approve"
      <3>1. /\ wf.state = "AWAITING_OPERATOR_APPROVAL"
            /\ wf'.state = "APPROVED_AWAITING_EXECUTION"
        BY <1>3, <2>1, TransitionFacts DEF Approve
      <3> QED BY <1>3, <2>1, <3>1 DEF Approve, DecideApproval, RecordApproval, EvidenceMatchesStage
    <2>2. CASE m.arg # "approve"
      <3>1. wf.state = "AWAITING_OPERATOR_APPROVAL" /\ wf'.state = "INVESTIGATING"
        BY <1>3, <2>2, TransitionFacts DEF Approve
      <3> QED BY <1>3, <2>2, <3>1 DEF Approve, DecideApproval, RecordApproval, EvidenceMatchesStage
    <2> QED BY <2>1, <2>2
  <1>4. CASE ApplySandbox(m)
    <2>1. wf.state = "APPROVED_AWAITING_EXECUTION" /\ wf'.state = "OBSERVING_POSTCHECK"
      BY <1>4, TransitionFacts DEF ApplySandbox
    <2> QED BY <1>4, <2>1 DEF ApplySandbox, RecordSandboxExecution, EvidenceMatchesStage
  <1>5. CASE RetryPostcheck(m)
    <2>1. wf.state = "POSTCHECK_UNAVAILABLE" /\ wf'.state = "OBSERVING_POSTCHECK"
      BY <1>5, TransitionFacts DEF RetryPostcheck
    <2> QED BY <1>5, <2>1 DEF RetryPostcheck, EvidenceMatchesStage, evidence
  <1>p. ASSUME PersistVerifiedOutcome(m), m.arg \in PostcheckClassification
        PROVE  /\ memory'.state = "pending_review" /\ memory'.outcome = OutcomeSemantics[verdict]
               /\ verdict # "none" /\ assessment' # "none"
    BY <1>p DEF PersistVerifiedOutcome, RecordPostcheckAssessment, PendingMemory, PostcheckClassification
  <1>6. CASE AssessWebMcp(m)
    <2>1. wf.state = "POSTCHECK_READY" /\ wf'.state = "PENDING_REVIEW"
      BY <1>6, TransitionFacts DEF AssessWebMcp
    <2> QED BY <1>6, <2>1, <1>0, <1>p DEF AssessWebMcp, EvidenceMatchesStage
  <1>7. CASE RecordAssessment(m)
    <2>1. wf.state = "POSTCHECK_READY" /\ wf'.state = "PENDING_REVIEW"
      BY <1>7, TransitionFacts DEF RecordAssessment
    <2> QED BY <1>7, <2>1, <1>0, <1>p DEF RecordAssessment, EvidenceMatchesStage
  <1>g. ASSUME NEW a \in Dispositions \cup {"revoke"}, NEW who, GovernMemory(a, who)
        PROVE  /\ memory'.state \in {"active", "quarantined", "rejected", "revoked"}
               /\ memory'.outcome = memory.outcome
    <2>1. GovernanceTarget[a] \in {"active", "quarantined", "rejected", "revoked"}
      BY DEF GovernanceTarget, GovernanceAction, Dispositions
    <2>2. memory'.state = GovernanceTarget[a] /\ memory'.outcome = memory.outcome
      BY <1>g DEF GovernMemory, TypeOK
    <2> QED BY <2>1, <2>2
  <1>8. CASE Disposition(m)
    <2>1. wf.state = "PENDING_REVIEW" /\ wf'.state = "REVIEWED"
      BY <1>8, TransitionFacts DEF Disposition
    <2> QED BY <1>8, <2>1, <1>0, <1>g DEF Disposition, EvidenceMatchesStage
  <1>9. CASE Revoke(m)
    BY <1>9, <1>g DEF Revoke, EvidenceMatchesStage
  <1>10. CASE ResetRun(m) \/ ResetWorkflow(m)
    <2>1. wf'.state = wf.state /\ UNCHANGED evidence
      BY <1>10, InvalidateFacts DEF ResetRun, ResetWorkflow
    <2> QED BY <2>1 DEF EvidenceMatchesStage, evidence
  <1>11. CASE AttestExecution(m) \/ ObserveOutcome(m) \/ GovernRoute(m)
    BY <1>0, <1>11 DEF AttestExecution, ObserveOutcome, GovernRoute, LegacyRoutes
  <1> QED BY <1>1, <1>2, <1>3, <1>4, <1>5, <1>6, <1>7, <1>8, <1>9, <1>10, <1>11 DEF Handle

\* In every reachable state of a judge run exactly the evidence rows its stage has
\* earned exist, and the memory has the sign of the policy verdict.
THEOREM EvidenceIsEarned == Spec => []EvidenceMatchesStage
  <1>1. Init => EvidenceMatchesStage
    BY DEF Init, EvidenceMatchesStage, InitialWorkflow, InitialState, NoMemory
  <1>2. TypeOK /\ EvidenceMatchesStage /\ [Next]_vars => EvidenceMatchesStage'
    <2> SUFFICES ASSUME TypeOK, EvidenceMatchesStage, [Next]_vars, JudgeMode
                 PROVE  EvidenceMatchesStage'
      BY DEF EvidenceMatchesStage
    <2>1. CASE Arrive \/ ExpireRun \/ UNCHANGED vars
      BY <2>1 DEF Arrive, ExpireRun, vars, evidence, EvidenceMatchesStage
    <2>2. CASE \E m \in inflight : Handle(m)
      BY <2>2, EvidenceHandle
    <2>3. ASSUME NEW o \in observers, ObserverStep(o) \/ CrashObserver(o)
          PROVE  EvidenceMatchesStage'
      <3>1. CASE Collect(o) \/ ObservationConflict(o) \/ CrashObserver(o)
        <4>1. UNCHANGED <<wf, evidence>>
          BY <3>1 DEF Collect, ObservationConflict, CrashObserver
        <4> QED BY <4>1 DEF evidence, EvidenceMatchesStage
      <3>2. CASE RecordObservation(o)
        <4>1. wf.state = "OBSERVING_POSTCHECK" /\ wf'.state = "POSTCHECK_READY"
          BY <3>2, TransitionFacts DEF RecordObservation
        <4> QED BY <3>2, <4>1 DEF RecordObservation, RecordPostcheck, EvidenceMatchesStage,
                                  PostcheckClassification
      <3>3. CASE MarkUnavailable(o)
        <4>1. wf.state = "OBSERVING_POSTCHECK" /\ wf'.state = "POSTCHECK_UNAVAILABLE"
          BY <3>3, TransitionFacts DEF MarkUnavailable
        <4> QED BY <3>3, <4>1 DEF MarkUnavailable, EvidenceMatchesStage, evidence
      <3> QED BY <2>3, <3>1, <3>2, <3>3 DEF ObserverStep
    <2> QED BY <2>1, <2>2, <2>3 DEF Next
  <1> QED BY <1>1, <1>2, TypeCorrect, PTL DEF Spec

-----------------------------------------------------------------------------
(* Receipts.                                                               *)

ReviewReasons == {"MEMORY_CERTIFY", "MEMORY_QUARANTINE", "MEMORY_REJECT"}

\* An event that is no review, of a step that neither enters nor leaves REVIEWED.
LEMMA ReceiptsKept ==
  ASSUME TypeOK, OneReceiptPerReview, JudgeMode, NEW role, NEW who, NEW reason,
         ledger' = Append(ledger, Event(wf, wf', role, who, reason)),
         reason \notin ReviewReasons,
         UNCHANGED receipts,
         wf'.state = "REVIEWED" <=> wf.state = "REVIEWED"
  PROVE  OneReceiptPerReview'
  <1> DEFINE n == Len(ledger)
             ev == Event(wf, wf', role, who, reason)
  <1>1. ledger \in Seq(AuthorityEvent)
    BY DEF TypeOK
  <1>2. ev.reason = reason
    BY DEF Event
  <1> HIDE DEF ev
  <1>3. /\ n \in Nat /\ Len(ledger') = n + 1 /\ ledger'[n + 1] = ev
        /\ \A i \in 1 .. n : ledger'[i] = ledger[i]
    BY <1>1 DEF ev
  <1> HIDE DEF n
  <1>4. {i \in 1 .. Len(ledger') : ledger'[i].reason \in ReviewReasons}
          = {i \in 1 .. n : ledger[i].reason \in ReviewReasons}
    BY <1>2, <1>3
  <1> QED BY <1>4 DEF OneReceiptPerReview, ReviewReasons, n

\* A transition that is no review asks for no receipt and needs none.
LEMMA TransitionKeepsReceipts ==
  ASSUME TypeOK, OneReceiptPerReview, JudgeMode,
         NEW epoch, NEW from, NEW to, NEW auth, NEW who, NEW legacy, NEW reason,
         from # "REVIEWED", to # "REVIEWED", reason \notin ReviewReasons,
         Transition(epoch, from, to, auth, who, legacy, reason),
         UNCHANGED receipts
  PROVE  OneReceiptPerReview'
  <1>1. /\ wf.state = from /\ wf'.state = to
        /\ ledger' = Append(ledger, Event(wf, wf', auth.role, who, reason))
    BY TransitionFacts
  <1> QED BY <1>1, ReceiptsKept

\* The review itself: no receipt was requested before, and the one requested now
\* has the sequence of the review event.
LEMMA DispositionReceipt ==
  ASSUME TypeOK, OneReceiptPerReview, JudgeMode, NEW m \in inflight, Disposition(m)
  PROVE  OneReceiptPerReview'
  <1> DEFINE n == Len(ledger)
             ev == Event(wf, wf', ReviewerOverUi.role, m.who, DispositionReason[m.arg])
  <1>0. m.arg \in Dispositions
    BY RequestFacts DEF TypeOK, Disposition
  <1>1. /\ wf.state = "PENDING_REVIEW" /\ wf'.state = "REVIEWED"
        /\ ledger' = Append(ledger, ev)
    <2>1. Transition(m.epoch, "PENDING_REVIEW", "REVIEWED", ReviewerOverUi, m.who, FALSE,
                     DispositionReason[m.arg])
      BY DEF Disposition
    <2> QED BY <2>1, TransitionFacts
  <1>2. ev.reason \in ReviewReasons
    BY <1>0 DEF Event, DispositionReason, Dispositions, ReviewReasons
  <1>3. ledger \in Seq(AuthorityEvent)
    BY DEF TypeOK
  <1> HIDE DEF ev
  <1>4. /\ n \in Nat /\ Len(ledger') = n + 1 /\ ledger'[n + 1] = ev
        /\ \A i \in 1 .. n : ledger'[i] = ledger[i]
    BY <1>1, <1>3
  <1>5. receipts = {}
    BY <1>1 DEF OneReceiptPerReview
  <1>6. \A i \in 1 .. n : ledger[i].reason \notin ReviewReasons
    BY <1>5 DEF OneReceiptPerReview, ReviewReasons
  <1> HIDE DEF n
  <1>7. receipts' = {n + 1}
    BY <1>4, <1>5 DEF Disposition, RequestReceipt
  <1>8. {i \in 1 .. Len(ledger') : ledger'[i].reason \in ReviewReasons} = {n + 1}
    BY <1>2, <1>4, <1>6
  <1> QED BY <1>1, <1>7, <1>8 DEF OneReceiptPerReview, ReviewReasons

\* A judge run asks for one receipt, for its review, with the review event's
\* sequence, whoever raced to review it (disposition_atomically).
THEOREM ReceiptPerReview == Spec => []OneReceiptPerReview
  <1>1. Init => OneReceiptPerReview
    BY DEF Init, OneReceiptPerReview, Genesis, InitialWorkflow, InitialState
  <1>2. TypeOK /\ OneReceiptPerReview /\ [Next]_vars => OneReceiptPerReview'
    <2> SUFFICES ASSUME TypeOK, OneReceiptPerReview, [Next]_vars, JudgeMode
                 PROVE  OneReceiptPerReview'
      BY DEF OneReceiptPerReview
    <2>r. /\ "PROPOSAL_STAGED" \notin ReviewReasons
          /\ "SANDBOX_EXECUTION_APPLIED" \notin ReviewReasons
          /\ "VERIFIED_OBSERVATION_RECORDED" \notin ReviewReasons
          /\ "POSTCHECK_ASSESSMENT_RECORDED" \notin ReviewReasons
          /\ "STATE_TRANSITION_ACCEPTED" \notin ReviewReasons
      BY DEF ReviewReasons
    <2>0. ASSUME UNCHANGED <<wf, ledger, receipts>>
          PROVE  OneReceiptPerReview'
      BY <2>0 DEF OneReceiptPerReview
    <2>1. CASE Arrive \/ ExpireRun \/ UNCHANGED vars
      BY <2>0, <2>1 DEF Arrive, ExpireRun, vars
    <2>2. ASSUME NEW m \in inflight, Handle(m)
          PROVE  OneReceiptPerReview'
      <3>0. m.route \notin LegacyRoutes
        BY RequestFacts DEF TypeOK
      <3>1. CASE Drop(m) \/ RefuseKeyed(m) \/ Revoke(m)
        BY <2>0, <3>1 DEF Drop, RefuseKeyed, Revoke
      <3>2. CASE Propose(m)
        BY <3>2, <2>r, TransitionKeepsReceipts DEF Propose
      <3>3. CASE Approve(m)
        <4>1. (IF m.arg = "approve" THEN "PROPOSAL_APPROVED" ELSE "PROPOSAL_REJECTED")
                \notin ReviewReasons
          BY DEF ReviewReasons
        <4>2. (IF m.arg = "approve" THEN "APPROVED_AWAITING_EXECUTION" ELSE "INVESTIGATING")
                # "REVIEWED"
          OBVIOUS
        <4> QED BY <3>3, <4>1, <4>2, TransitionKeepsReceipts DEF Approve
      <3>4. CASE ApplySandbox(m)
        BY <3>4, <2>r, TransitionKeepsReceipts DEF ApplySandbox
      <3>5. CASE RetryPostcheck(m)
        BY <3>5, <2>r, TransitionKeepsReceipts DEF RetryPostcheck
      <3>6. CASE AssessWebMcp(m)
        BY <3>6, <2>r, TransitionKeepsReceipts DEF AssessWebMcp
      <3>7. CASE RecordAssessment(m)
        BY <3>7, <2>r, TransitionKeepsReceipts DEF RecordAssessment
      <3>8. CASE Disposition(m)
        BY <3>8, DispositionReceipt
      <3>9. CASE ResetRun(m) \/ ResetWorkflow(m)
        <4>1. /\ wf'.state = wf.state /\ UNCHANGED receipts
              /\ ledger' = Append(ledger, Event(wf, wf', "operator", m.who,
                                               "WORKFLOW_RESET_ACCEPTED"))
          BY <3>9, InvalidateFacts DEF ResetRun, ResetWorkflow
        <4>2. "WORKFLOW_RESET_ACCEPTED" \notin ReviewReasons
          BY DEF ReviewReasons
        <4> QED BY <4>1, <4>2, ReceiptsKept
      <3>10. CASE AttestExecution(m) \/ ObserveOutcome(m) \/ GovernRoute(m)
        BY <3>0, <3>10 DEF AttestExecution, ObserveOutcome, GovernRoute, LegacyRoutes
      <3> QED BY <2>2, <3>1, <3>2, <3>3, <3>4, <3>5, <3>6, <3>7, <3>8, <3>9, <3>10 DEF Handle
    <2>3. ASSUME NEW o \in observers, ObserverStep(o) \/ CrashObserver(o)
          PROVE  OneReceiptPerReview'
      <3>1. CASE Collect(o) \/ ObservationConflict(o) \/ CrashObserver(o)
        BY <2>0, <3>1 DEF Collect, ObservationConflict, CrashObserver
      <3>2. CASE RecordObservation(o)
        BY <3>2, <2>r, TransitionKeepsReceipts DEF RecordObservation
      <3>3. CASE MarkUnavailable(o)
        BY <3>3, <2>r, TransitionKeepsReceipts DEF MarkUnavailable
      <3> QED BY <2>3, <3>1, <3>2, <3>3 DEF ObserverStep
    <2> QED BY <2>1, <2>2, <2>3 DEF Next
  <1> QED BY <1>1, <1>2, TypeCorrect, PTL DEF Spec
====
