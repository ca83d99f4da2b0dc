----------------------- MODULE ReceiptBinding_proofs -----------------------
(***************************************************************************)
(* Every prefix a receipt is requested for passes the worker's checks, if  *)
(* its assessment came over WebMCP, and fails them otherwise.  The ledger  *)
(* is first shown to be a story of known moves by known subjects; what the *)
(* checks demand then follows from the story alone.                        *)
(***************************************************************************)
EXTENDS ReceiptBinding, AuthorityHistory_proofs, SequenceTheorems, WellFoundedInduction

Describes(ev, mv) ==
  /\ ev.state_before = mv.from /\ ev.state_after = mv.to
  /\ ev.role = mv.role /\ ev.reason = mv.reason

Signed(ev) ==
  /\ ev.role = "operator" => ev.subject \in Operators
  /\ ev.role = "reviewer" => ev.subject \in Subjects \ Operators

\* The ledger starts with genesis; every other event is the reset or a handler's
\* move, by a subject of the role it names.
StoryInv ==
  JudgeMode =>
    /\ Len(ledger) >= 1 /\ ledger[1] = Genesis
    /\ \A i \in 2 .. Len(ledger) :
         /\ Signed(ledger[i])
         /\ ledger[i].reason = "WORKFLOW_RESET_ACCEPTED"
              \/ \E mv \in JudgeMoves : Describes(ledger[i], mv)

\* Receipts are asked for in judge runs only.
RequestInv == ~JudgeMode => receipts = {}

-----------------------------------------------------------------------------
(* The story of a run.                                                     *)

\* Whose subject a request carries.
LEMMA RequestSubjects ==
  ASSUME NEW m \in Request
  PROVE  /\ m.route \in {"approval", "sandbox_execution", "postcheck_retry",
                         "workflow_reset", "run_reset"} => m.who \in Operators
         /\ m.route = "disposition" => JudgeMode /\ m.who \in Subjects
  <1> DEFINE e == m.epoch
  <1>1. m \in RequestsAt(e) /\ m.who \in Subjects
    BY DEF Request
  <1> HIDE DEF e
  <1>2. m \in CommonRequests(e) \/ (JudgeMode /\ m \in JudgeRequests(e))
          \/ (~JudgeMode /\ m \in LegacyRequests(e))
    BY <1>1, ModeAssumption DEF RequestsAt
  <1>3. CASE m \in CommonRequests(e)
    BY <1>3 DEF CommonRequests
  <1>4. CASE JudgeMode /\ m \in JudgeRequests(e)
    BY <1>1, <1>4 DEF JudgeRequests
  <1>5. CASE ~JudgeMode /\ m \in LegacyRequests(e)
    BY <1>5 DEF LegacyRequests
  <1> QED BY <1>2, <1>3, <1>4, <1>5

\* What a step appends is signed.
LEMMA SignedStep ==
  ASSUME TypeOK, JudgeMode, [Next]_vars
  PROVE  \/ ledger' = ledger
         \/ \E role, who, reason :
              /\ ledger' = Append(ledger, Event(wf, wf', role, who, reason))
              /\ role = "operator" => who \in Operators
              /\ role = "reviewer" => who \in Subjects \ Operators
  <1> DEFINE Appends(role, who, reason) ==
               ledger' = Append(ledger, Event(wf, wf', role, who, reason))
             Shape == \/ ledger' = ledger
                      \/ \E role, who, reason :
                           /\ Appends(role, who, reason)
                           /\ role = "operator" => who \in Operators
                           /\ role = "reviewer" => who \in Subjects \ Operators
  <1>a. ASSUME NEW epoch, NEW from, NEW to, NEW who, NEW reason,
               Transition(epoch, from, to, AgentOverWebMcp, who, FALSE, reason)
        PROVE  Appends("agent", who, reason)
    <2>1. ledger' = Append(ledger, Event(wf, wf', AgentOverWebMcp.role, who, reason))
      BY <1>a, TransitionFacts
    <2> QED BY <2>1, CoordinatorConstants
  <1>o. ASSUME NEW epoch, NEW from, NEW to, NEW who, NEW reason,
               Transition(epoch, from, to, OperatorOverUi, who, FALSE, reason)
        PROVE  Appends("operator", who, reason)
    <2>1. ledger' = Append(ledger, Event(wf, wf', OperatorOverUi.role, who, reason))
      BY <1>o, TransitionFacts
    <2> QED BY <2>1, CoordinatorConstants
  <1>r. ASSUME NEW epoch, NEW from, NEW to, NEW who, NEW reason,
               Transition(epoch, from, to, ReviewerOverUi, who, FALSE, reason)
        PROVE  Appends("reviewer", who, reason)
    <2>1. ledger' = Append(ledger, Event(wf, wf', ReviewerOverUi.role, who, reason))
      BY <1>r, TransitionFacts
    <2> QED BY <2>1, CoordinatorConstants
  <1>s. ASSUME NEW epoch, NEW from, NEW to, NEW who, NEW reason,
               Transition(epoch, from, to, SystemAuthority, who, FALSE, reason)
        PROVE  Appends("system", who, reason)
    <2>1. ledger' = Append(ledger, Event(wf, wf', SystemAuthority.role, who, reason))
      BY <1>s, TransitionFacts
    <2> QED BY <2>1, CoordinatorConstants
  <1>i. \A epoch, who : Invalidate(epoch, who) =>
                          Appends("operator", who, "WORKFLOW_RESET_ACCEPTED")
    BY InvalidateFacts
  <1> HIDE DEF Appends
  <1>2. ASSUME NEW m \in inflight, Handle(m)
        PROVE  Shape
    <2>0. /\ m.route \in {"approval", "sandbox_execution", "postcheck_retry",
                          "workflow_reset", "run_reset"} => m.who \in Operators
          /\ m.route = "disposition" => m.who \in Subjects
          /\ m.route \notin LegacyRoutes
      BY RequestFacts, RequestSubjects DEF TypeOK
    <2>1. CASE Drop(m) \/ RefuseKeyed(m) \/ Revoke(m)
      <3>1. ledger' = ledger
        BY <2>1 DEF Drop, RefuseKeyed, Revoke
      <3> QED BY <3>1
    <2>2. CASE Propose(m) \/ AssessWebMcp(m) \/ RecordAssessment(m)
      <3>1. \E epoch, from, to, reason :
              Transition(epoch, from, to, AgentOverWebMcp, m.who, FALSE, reason)
        BY <2>2, Zenon DEF Propose, AssessWebMcp, RecordAssessment
      <3>2. \E reason : Appends("agent", m.who, reason)
        BY <1>a, <3>1, Zenon
      <3> QED BY <3>2
    <2>3. CASE Approve(m) \/ ApplySandbox(m) \/ RetryPostcheck(m)
      <3>1. \E epoch, from, to, reason :
              Transition(epoch, from, to, OperatorOverUi, m.who, FALSE, reason)
        BY <2>3, Zenon DEF Approve, ApplySandbox, RetryPostcheck
      <3>2. \E reason : Appends("operator", m.who, reason)
        BY <1>o, <3>1, Zenon
      <3>3. m.who \in Operators
        BY <2>0, <2>3 DEF Approve, ApplySandbox, RetryPostcheck
      <3> QED BY <3>2, <3>3
    <2>4. CASE Disposition(m)
      <3>1. \E epoch, from, to, reason :
              Transition(epoch, from, to, ReviewerOverUi, m.who, FALSE, reason)
        BY <2>4, Zenon DEF Disposition
      <3>2. \E reason : Appends("reviewer", m.who, reason)
        BY <1>r, <3>1, Zenon
      <3>3. m.who \in Subjects \ Operators
        BY <2>0, <2>4 DEF Disposition, IndependentReviewer
      <3> QED BY <3>2, <3>3
    <2>5. CASE ResetRun(m) \/ ResetWorkflow(m)
      <3>1. Appends("operator", m.who, "WORKFLOW_RESET_ACCEPTED")
        BY <1>i, <2>5 DEF ResetRun, ResetWorkflow
      <3>2. m.who \in Operators
        BY <2>0, <2>5 DEF ResetRun, ResetWorkflow
      <3> QED BY <3>1, <3>2
    <2>6. CASE AttestExecution(m) \/ ObserveOutcome(m) \/ GovernRoute(m)
      <3>1. m.route \in LegacyRoutes
        BY <2>6 DEF AttestExecution, ObserveOutcome, GovernRoute, LegacyRoutes
      <3> QED BY <2>0, <3>1
    <2> HIDE DEF Shape
    <2> QED BY <1>2, <2>1, <2>2, <2>3, <2>4, <2>5, <2>6, Zenon DEF Handle
  <1>3. ASSUME NEW ob \in observers, ObserverStep(ob) \/ CrashObserver(ob)
        PROVE  Shape
    <2>1. CASE Collect(ob) \/ ObservationConflict(ob) \/ CrashObserver(ob)
      <3>1. ledger' = ledger
        BY <2>1 DEF Collect, ObservationConflict, CrashObserver
      <3> QED BY <3>1
    <2>2. CASE RecordObservation(ob) \/ MarkUnavailable(ob)
      <3>1. \E epoch, from, to, who, reason :
              Transition(epoch, from, to, SystemAuthority, who, FALSE, reason)
        BY <2>2, Zenon DEF RecordObservation, MarkUnavailable
      <3>2. \E who, reason : Appends("system", who, reason)
        BY <1>s, <3>1, Zenon
      <3> QED BY <3>2
    <2> HIDE DEF Shape
    <2> QED BY <1>3, <2>1, <2>2, Zenon DEF ObserverStep
  <1>4. Shape
    <2>1. Arrive \/ ExpireRun \/ UNCHANGED vars
            \/ (\E m \in inflight : Handle(m))
            \/ (\E ob \in observers : ObserverStep(ob) \/ CrashObserver(ob))
      BY Zenon DEF Next
    <2>2. ASSUME Arrive \/ ExpireRun \/ UNCHANGED vars PROVE Shape
      <3>1. ledger' = ledger
        BY <2>2 DEF Arrive, ExpireRun, vars
      <3> QED BY <3>1
    <2> HIDE DEF Shape
    <2> QED BY <1>2, <1>3, <2>1, <2>2, Zenon
  <1> QED BY <1>4 DEF Appends

\* A step keeps the story.
LEMMA StoryStep ==
  ASSUME TypeOK, LedgerMirrorsWorkflow, StoryInv, [Next]_vars
  PROVE  StoryInv'
  <1> SUFFICES ASSUME JudgeMode
               PROVE  /\ Len(ledger') >= 1 /\ ledger'[1] = Genesis
                      /\ \A i \in 2 .. Len(ledger') :
                           /\ Signed(ledger'[i])
                           /\ ledger'[i].reason = "WORKFLOW_RESET_ACCEPTED"
                                \/ \E mv \in JudgeMoves : Describes(ledger'[i], mv)
    BY DEF StoryInv
  <1>0. /\ Len(ledger) >= 1 /\ ledger[1] = Genesis
        /\ \A i \in 2 .. Len(ledger) :
             /\ Signed(ledger[i])
             /\ ledger[i].reason = "WORKFLOW_RESET_ACCEPTED"
                  \/ \E mv \in JudgeMoves : Describes(ledger[i], mv)
    BY DEF StoryInv
  <1>1. CASE ledger' = ledger
    BY <1>0, <1>1
  <1>2. ASSUME NEW role, NEW who, NEW reason,
               ledger' = Append(ledger, Event(wf, wf', role, who, reason)),
               role = "operator" => who \in Operators,
               role = "reviewer" => who \in Subjects \ Operators
        PROVE  /\ Len(ledger') >= 1 /\ ledger'[1] = Genesis
               /\ \A i \in 2 .. Len(ledger') :
                    /\ Signed(ledger'[i])
                    /\ ledger'[i].reason = "WORKFLOW_RESET_ACCEPTED"
                         \/ \E mv \in JudgeMoves : Describes(ledger'[i], mv)
    <2> DEFINE n == Len(ledger)
               ev == Event(wf, wf', role, who, reason)
    <2>1. /\ ev.state_before = wf.state /\ ev.state_after = wf'.state
          /\ ev.role = role /\ ev.subject = who /\ ev.reason = reason
      BY DEF Event
    <2>2. /\ n \in Nat /\ Len(ledger') = n + 1 /\ ledger'[n + 1] = ev
          /\ \A i \in 1 .. n : ledger'[i] = ledger[i]
      <3> HIDE DEF ev
      <3>1. ledger' = Append(ledger, ev) /\ ledger \in Seq(AuthorityEvent)
        BY <1>2 DEF ev, TypeOK
      <3> QED BY <3>1
    <2>3. Signed(ev)
      BY <1>2, <2>1 DEF Signed
    <2> HIDE DEF ev
    <2>4. ev.reason = "WORKFLOW_RESET_ACCEPTED" \/ \E mv \in JudgeMoves : Describes(ev, mv)
      <3>0. ledger' # ledger
        BY <2>2
      <3>1. CASE LedgerStays
        BY <3>0, <3>1 DEF LedgerStays
      <3>2. CASE LedgerCloses
        <4>1. PICK w : ledger' = Append(ledger, Event(wf, wf', "operator", w,
                                                      "WORKFLOW_RESET_ACCEPTED"))
          BY <3>2 DEF LedgerCloses
        <4>2. ledger'[n + 1].reason = "WORKFLOW_RESET_ACCEPTED"
          BY <4>1, AppendFacts
        <4> QED BY <2>2, <4>2
      <3>3. ASSUME NEW mv \in JudgeMoves, LedgerTakes(mv) PROVE Describes(ev, mv)
        <4>1. PICK w : ledger' = Append(ledger, Event(wf, wf', mv.role, w, mv.reason))
          BY <3>3 DEF LedgerTakes
        <4>2. ledger'[n + 1].reason = mv.reason /\ ledger'[n + 1].role = mv.role
          BY <4>1, AppendFacts
        <4>3. wf.state = mv.from /\ wf'.state = mv.to
          BY <3>3 DEF LedgerTakes
        <4> QED BY <2>1, <2>2, <4>2, <4>3 DEF Describes
      <3> QED BY <3>1, <3>2, <3>3, JudgeStep
    <2> HIDE DEF n
    <2>5. Len(ledger') >= 1 /\ ledger'[1] = Genesis
      BY <1>0, <2>2 DEF n
    <2>6. ASSUME NEW i \in 2 .. n + 1
          PROVE  /\ Signed(ledger'[i])
                 /\ ledger'[i].reason = "WORKFLOW_RESET_ACCEPTED"
                      \/ \E mv \in JudgeMoves : Describes(ledger'[i], mv)
      <3>1. CASE i = n + 1
        BY <2>2, <2>3, <2>4, <3>1
      <3>2. CASE i # n + 1
        <4>1. i \in 2 .. n /\ i \in 1 .. n
          BY <2>2, <3>2
        <4> QED BY <1>0, <2>2, <4>1 DEF n
      <3> QED BY <3>1, <3>2
    <2> QED BY <2>2, <2>5, <2>6
  <1> QED BY <1>1, <1>2, SignedStep

\* Without a judge run nobody asks for a receipt.
LEMMA RequestStep ==
  ASSUME TypeOK, RequestInv, [Next]_vars
  PROVE  RequestInv'
  <1> SUFFICES ASSUME ~JudgeMode PROVE receipts' = receipts
    BY DEF RequestInv
  <1>1. CASE Arrive \/ ExpireRun \/ UNCHANGED vars
    BY <1>1 DEF Arrive, ExpireRun, vars
  <1>2. ASSUME NEW m \in inflight, Handle(m) PROVE receipts' = receipts
    <2>1. m.route # "disposition"
      BY RequestSubjects DEF TypeOK
    <2> QED
      BY <1>2, <2>1
         DEF Handle, Drop, RefuseKeyed, Propose, Approve, ApplySandbox, RetryPostcheck,
             AssessWebMcp, RecordAssessment, AttestExecution, ObserveOutcome, Disposition,
             Revoke, GovernRoute, ResetRun, ResetWorkflow
  <1>3. ASSUME NEW o \in observers, ObserverStep(o) \/ CrashObserver(o)
        PROVE  receipts' = receipts
    BY <1>3 DEF ObserverStep, CrashObserver, Collect, RecordObservation, MarkUnavailable,
                ObservationConflict
  <1> QED BY <1>1, <1>2, <1>3 DEF Next

\* In a judge run the ledger always tells its story; elsewhere no receipt exists.
LEMMA StoryAlways ==
  Spec => [](/\ TypeOK /\ LedgerMirrorsWorkflow /\ OneReceiptPerReview
             /\ StoryInv /\ RequestInv)
  <1>1. Init => StoryInv /\ RequestInv
    <2> SUFFICES ASSUME Init PROVE StoryInv /\ RequestInv
      OBVIOUS
    <2>1. receipts = {} /\ (JudgeMode => ledger = <<Genesis>>)
      BY DEF Init
    <2>2. JudgeMode => Len(ledger) = 1 /\ ledger[1] = Genesis
      BY <2>1
    <2>3. 2 .. 1 = {}
      OBVIOUS
    <2> QED BY <2>1, <2>2, <2>3 DEF StoryInv, RequestInv
  <1>2. TypeOK /\ LedgerMirrorsWorkflow /\ StoryInv /\ RequestInv /\ [Next]_vars
          => StoryInv' /\ RequestInv'
    BY StoryStep, RequestStep
  <1> QED BY <1>1, <1>2, TypeCorrect, LedgerMirrors, ReceiptPerReview, PTL DEF Spec

-----------------------------------------------------------------------------
(* What the story of a reviewed run says.                                  *)

\* A prefix of a judge run's ledger that ends with its review.
ReviewedStory(events) ==
  /\ Len(events) \in Nat /\ Len(events) >= 1 /\ events[1] = Genesis
  /\ \A i \in 1 .. Len(events) : events[i].epoch_before = i - 1 /\ events[i].epoch_after = i
  /\ \A i \in 2 .. Len(events) :
       /\ events[i].state_before = events[i - 1].state_after
       /\ Signed(events[i])
       /\ \E mv \in JudgeMoves : Describes(events[i], mv)
  /\ events[Len(events)].reason \in ReviewReasons

\* What one event tells about the state it leaves.
LinkFacts(ev) ==
  /\ ev.state_after = "AWAITING_OPERATOR_APPROVAL" => ev.reason = "PROPOSAL_STAGED"
  /\ ev.state_after = "APPROVED_AWAITING_EXECUTION" =>
       /\ ev.reason = "PROPOSAL_APPROVED" /\ ev.role = "operator"
       /\ ev.state_before = "AWAITING_OPERATOR_APPROVAL"
  /\ ev.state_after = "OBSERVING_POSTCHECK" =>
       \/ ev.state_before = "POSTCHECK_UNAVAILABLE"
       \/ /\ ev.state_before = "APPROVED_AWAITING_EXECUTION"
          /\ ev.reason = "SANDBOX_EXECUTION_APPLIED"
  /\ ev.state_after = "POSTCHECK_UNAVAILABLE" => ev.state_before = "OBSERVING_POSTCHECK"
  /\ ev.state_after = "POSTCHECK_READY" =>
       ev.reason = "VERIFIED_OBSERVATION_RECORDED" /\ ev.state_before = "OBSERVING_POSTCHECK"
  /\ ev.state_after = "PENDING_REVIEW" =>
       /\ ev.reason \in {"POSTCHECK_ASSESSMENT_RECORDED", "STATE_TRANSITION_ACCEPTED"}
       /\ ev.state_before = "POSTCHECK_READY"
  /\ ev.state_after = "REVIEWED" <=> ev.role = "reviewer"
  /\ ev.state_after = "REVIEWED" <=> ev.state_before = "PENDING_REVIEW"
  /\ ev.state_after = "REVIEWED" <=> ev.reason \in ReviewReasons
  /\ ev.reason = "POSTCHECK_ASSESSMENT_RECORDED" => ev.state_after = "PENDING_REVIEW"
  /\ ev.state_before # "REVIEWED"

\* Every handler's move does.
LEMMA MovesLink ==
  ASSUME NEW mv \in JudgeMoves, NEW ev, Describes(ev, mv)
  PROVE  LinkFacts(ev)
  <1>1. ev.state_before = mv.from /\ ev.state_after = mv.to
          /\ ev.role = mv.role /\ ev.reason = mv.reason
    BY DEF Describes
  <1> QED BY <1>1 DEF JudgeMoves, Move, LinkFacts, ReviewReasons

\* Every non-empty set of positions has a first one.
LEMMA FirstPosition ==
  ASSUME NEW S, S \subseteq Nat, S # {}
  PROVE  \E x \in S : \A y \in S : x <= y
  <1> DEFINE Less == {p \in Nat \X Nat : p[1] < p[2]}
  <1>1. OpToRel(<, Nat) = Less
    BY Zenon DEF OpToRel
  <1>2. PICK x \in S : \A y \in S : ~(<<y, x>> \in Less)
    BY <1>1, NatLessThanWellFounded, WFMin
  <1>3. \A a, b \in Nat : a < b => <<a, b>> \in Less
    OBVIOUS
  <1> HIDE DEF Less
  <1>4. \A y \in S : ~(y < x)
    BY <1>2, <1>3
  <1> QED BY <1>4

\* A state some event reaches has the event that verify_causal_bindings picks.
LEMMA FirstEvent ==
  ASSUME NEW events, Len(events) \in Nat, NEW s, NEW k \in 1 .. Len(events),
         events[k].state_after = s
  PROVE  \E i \in 1 .. k : BindingEvent(events, s, i)
  <1> DEFINE S == {j \in 1 .. Len(events) : events[j].state_after = s}
  <1>1. S \subseteq Nat /\ k \in S
    OBVIOUS
  <1>2. PICK i \in S : \A j \in S : i <= j
    BY <1>1, FirstPosition
  <1>3. i \in 1 .. Len(events) /\ events[i].state_after = s /\ i <= k
    BY <1>1, <1>2
  <1>4. \A j \in 1 .. i - 1 : events[j].state_after # s
    BY <1>2, <1>3
  <1> QED BY <1>3, <1>4 DEF BindingEvent

\* The story of a reviewed run, told backwards: it ends with assessment and review
\* in this order, observation and execution came before, and the first execution
\* event is the sandbox's own.
LEMMA StoryBackwards ==
  ASSUME NEW events, ReviewedStory(events), NEW n, n = Len(events)
  PROVE  /\ n \in Nat /\ n - 2 \in 2 .. n
         /\ \A i \in 2 .. n : LinkFacts(events[i])
         /\ \A i \in 1 .. n : events[i].state_after = "REVIEWED" <=> i = n
         /\ \A i \in 1 .. n : events[i].state_after = "PENDING_REVIEW" <=> i = n - 1
         /\ events[n - 2].state_after = "POSTCHECK_READY"
         /\ \A i \in 1 .. n :
              BindingEvent(events, "OBSERVING_POSTCHECK", i) =>
                events[i].reason = "SANDBOX_EXECUTION_APPLIED"
         /\ \A s \in {"AWAITING_OPERATOR_APPROVAL", "APPROVED_AWAITING_EXECUTION",
                      "OBSERVING_POSTCHECK"} :
              \E i \in 1 .. n : events[i].state_after = s
  <1>0. /\ n \in Nat /\ n >= 1 /\ events[1] = Genesis
        /\ \A i \in 2 .. n : events[i].state_before = events[i - 1].state_after
        /\ \A i \in 2 .. n : \E mv \in JudgeMoves : Describes(events[i], mv)
        /\ events[n].reason \in ReviewReasons
    BY DEF ReviewedStory
  <1>1. \A i \in 2 .. n : LinkFacts(events[i])
    BY <1>0, MovesLink
  <1>2. /\ events[1].state_after = "INVESTIGATING"
        /\ events[1].reason \notin ReviewReasons
    BY <1>0 DEF Genesis, ReviewReasons
  <1> DEFINE After(i) == events[i].state_after
             Before(i) == events[i].state_before
  <1>3. /\ \A i \in 2 .. n : Before(i) = After(i - 1)
        /\ After(1) = "INVESTIGATING"
    BY <1>0, <1>2
  <1>4. \A i \in 2 .. n :
          /\ After(i) = "APPROVED_AWAITING_EXECUTION" =>
               Before(i) = "AWAITING_OPERATOR_APPROVAL"
          /\ After(i) = "OBSERVING_POSTCHECK" =>
               \/ Before(i) = "POSTCHECK_UNAVAILABLE"
               \/ /\ Before(i) = "APPROVED_AWAITING_EXECUTION"
                  /\ events[i].reason = "SANDBOX_EXECUTION_APPLIED"
          /\ After(i) = "POSTCHECK_UNAVAILABLE" => Before(i) = "OBSERVING_POSTCHECK"
          /\ After(i) = "POSTCHECK_READY" => Before(i) = "OBSERVING_POSTCHECK"
          /\ After(i) = "PENDING_REVIEW" => Before(i) = "POSTCHECK_READY"
          /\ After(i) = "REVIEWED" <=> Before(i) = "PENDING_REVIEW"
          /\ After(i) = "REVIEWED" <=> events[i].reason \in ReviewReasons
          /\ Before(i) # "REVIEWED"
    BY <1>1 DEF LinkFacts
  <1>5. n \in 2 .. n /\ After(n) = "REVIEWED"
    <2>1. n \in 2 .. n
      BY <1>0, <1>2
    <2> QED BY <1>0, <1>4, <2>1
  <1> HIDE DEF After, Before
  <1>6. n - 1 \in 2 .. n /\ After(n - 1) = "PENDING_REVIEW"
    <2>1. n - 1 \in 1 .. n /\ After(n - 1) = "PENDING_REVIEW"
      BY <1>0, <1>3, <1>4, <1>5
    <2> QED BY <1>0, <1>3, <2>1
  <1>7. n - 2 \in 2 .. n /\ After(n - 2) = "POSTCHECK_READY"
    <2>0. (n - 1) - 1 = n - 2 /\ n - 2 \in 1 .. n
      BY <1>0, <1>6
    <2>1. After(n - 2) = "POSTCHECK_READY"
      BY <1>3, <1>4, <1>6, <2>0
    <2> QED BY <1>0, <1>3, <2>0, <2>1
  <1>8. n - 3 \in 2 .. n /\ After(n - 3) = "OBSERVING_POSTCHECK"
    <2>0. (n - 2) - 1 = n - 3 /\ n - 3 \in 1 .. n
      BY <1>0, <1>7
    <2>1. After(n - 3) = "OBSERVING_POSTCHECK"
      BY <1>3, <1>4, <1>7, <2>0
    <2> QED BY <1>0, <1>3, <2>0, <2>1
  <1>9. ASSUME NEW i \in 1 .. n PROVE After(i) = "REVIEWED" <=> i = n
    <2>1. CASE i # n
      <3>1. i + 1 \in 2 .. n /\ (i + 1) - 1 = i
        BY <1>0, <2>1
      <3>2. Before(i + 1) = After(i) /\ Before(i + 1) # "REVIEWED"
        BY <1>3, <1>4, <3>1
      <3> QED BY <2>1, <3>2
    <2> QED BY <1>5, <2>1
  <1>10. ASSUME NEW i \in 1 .. n PROVE After(i) = "PENDING_REVIEW" <=> i = n - 1
    <2>1. CASE i # n /\ i # n - 1
      <3>1. i + 1 \in 2 .. n /\ (i + 1) - 1 = i /\ i + 1 # n /\ i + 1 \in 1 .. n
        BY <1>0, <2>1
      <3>2. Before(i + 1) = After(i) /\ After(i + 1) # "REVIEWED"
        BY <1>3, <1>9, <3>1
      <3>3. Before(i + 1) # "PENDING_REVIEW"
        BY <1>4, <3>1, <3>2
      <3> QED BY <2>1, <3>2, <3>3
    <2>2. n # n - 1
      BY <1>0
    <2> QED BY <1>5, <1>6, <2>1, <2>2
  <1>11. ASSUME NEW i \in 1 .. n, After(i) = "OBSERVING_POSTCHECK",
                \A j \in 1 .. i - 1 : After(j) # "OBSERVING_POSTCHECK"
         PROVE  /\ events[i].reason = "SANDBOX_EXECUTION_APPLIED"
                /\ i - 1 \in 2 .. n /\ After(i - 1) = "APPROVED_AWAITING_EXECUTION"
    <2>1. i \in 2 .. n /\ i - 1 \in 1 .. n
      BY <1>0, <1>3, <1>11
    <2>2. After(i - 1) # "POSTCHECK_UNAVAILABLE"
      <3> SUFFICES ASSUME After(i - 1) = "POSTCHECK_UNAVAILABLE" PROVE FALSE
        OBVIOUS
      <3>1. i - 1 \in 2 .. n /\ (i - 1) - 1 = i - 2 /\ i - 2 \in 1 .. i - 1
        BY <1>0, <1>3, <2>1
      <3>2. After(i - 2) = "OBSERVING_POSTCHECK"
        BY <1>3, <1>4, <3>1
      <3> QED BY <1>11, <3>1, <3>2
    <2>3. After(i - 1) = "APPROVED_AWAITING_EXECUTION"
            /\ events[i].reason = "SANDBOX_EXECUTION_APPLIED"
      BY <1>3, <1>4, <1>11, <2>1, <2>2
    <2> QED BY <1>0, <1>3, <2>1, <2>3
  <1>12. PICK f \in 1 .. n : BindingEvent(events, "OBSERVING_POSTCHECK", f)
    <2>1. n - 3 \in 1 .. Len(events) /\ Len(events) \in Nat
      BY <1>0, <1>8
    <2>2. \E i \in 1 .. n - 3 : BindingEvent(events, "OBSERVING_POSTCHECK", i)
      BY <1>8, <2>1, FirstEvent DEF After
    <2> QED BY <1>0, <2>1, <2>2
  <1>13. /\ After(f) = "OBSERVING_POSTCHECK"
         /\ \A j \in 1 .. f - 1 : After(j) # "OBSERVING_POSTCHECK"
    BY <1>12 DEF BindingEvent, After
  <1>14. f - 1 \in 2 .. n /\ After(f - 1) = "APPROVED_AWAITING_EXECUTION"
    BY <1>11, <1>13
  <1>15. f - 2 \in 1 .. n /\ After(f - 2) = "AWAITING_OPERATOR_APPROVAL"
    <2>1. (f - 1) - 1 = f - 2 /\ f - 2 \in 1 .. n
      BY <1>0, <1>14
    <2> QED BY <1>3, <1>4, <1>14, <2>1
  <1>16. \A s \in {"AWAITING_OPERATOR_APPROVAL", "APPROVED_AWAITING_EXECUTION",
                   "OBSERVING_POSTCHECK"} :
           \E i \in 1 .. n : After(i) = s
    <2>1. f - 1 \in 1 .. n
      BY <1>0, <1>14
    <2> QED BY <1>13, <1>14, <1>15, <2>1
  <1>17. \A i \in 1 .. n : BindingEvent(events, "OBSERVING_POSTCHECK", i) =>
                             events[i].reason = "SANDBOX_EXECUTION_APPLIED"
    BY <1>11 DEF BindingEvent, After
  <1> QED BY <1>0, <1>1, <1>7, <1>9, <1>10, <1>16, <1>17 DEF After

-----------------------------------------------------------------------------
(* What the worker's checks find.                                          *)

\* The object each state demands, and the one each reason names.
LEMMA ObjectFacts ==
  /\ DOMAIN RequiredObject =
       {"AWAITING_OPERATOR_APPROVAL", "APPROVED_AWAITING_EXECUTION", "OBSERVING_POSTCHECK",
        "POSTCHECK_READY", "PENDING_REVIEW", "REVIEWED"}
  /\ RequiredObject["AWAITING_OPERATOR_APPROVAL"] = "proposal"
  /\ RequiredObject["APPROVED_AWAITING_EXECUTION"] = "proposal"
  /\ RequiredObject["OBSERVING_POSTCHECK"] = "execution_binding"
  /\ RequiredObject["POSTCHECK_READY"] = "observation_binding"
  /\ RequiredObject["PENDING_REVIEW"] = "outcome_binding"
  /\ RequiredObject["REVIEWED"] = "review_binding"
  /\ ObjectType("PROPOSAL_STAGED") = "proposal"
  /\ ObjectType("PROPOSAL_APPROVED") = "proposal"
  /\ ObjectType("SANDBOX_EXECUTION_APPLIED") = "execution_binding"
  /\ ObjectType("VERIFIED_OBSERVATION_RECORDED") = "observation_binding"
  /\ ObjectType("POSTCHECK_ASSESSMENT_RECORDED") = "outcome_binding"
  /\ ObjectType("STATE_TRANSITION_ACCEPTED") = "none"
  /\ \A r \in ReviewReasons : ObjectType(r) = "review_binding"
  BY DEF RequiredObject, ObjectType, ReviewReasons

\* Every event that reaches a state binds the object the state demands, but for the
\* assessment over the incident route and for the retries.
LEMMA StoryBinds ==
  ASSUME NEW events, ReviewedStory(events)
  PROVE  CausallyBound(events) <=>
           \E i \in 1 .. Len(events) : events[i].reason = "POSTCHECK_ASSESSMENT_RECORDED"
  <1> DEFINE n == Len(events)
             Binds(s) == \E i \in 1 .. n : /\ BindingEvent(events, s, i)
                                           /\ ObjectType(events[i].reason) = RequiredObject[s]
  <1>1. /\ n \in Nat /\ n - 2 \in 2 .. n
        /\ \A i \in 2 .. n : LinkFacts(events[i])
        /\ \A i \in 1 .. n : events[i].state_after = "REVIEWED" <=> i = n
        /\ \A i \in 1 .. n : events[i].state_after = "PENDING_REVIEW" <=> i = n - 1
        /\ events[n - 2].state_after = "POSTCHECK_READY"
        /\ \A i \in 1 .. n :
             BindingEvent(events, "OBSERVING_POSTCHECK", i) =>
               events[i].reason = "SANDBOX_EXECUTION_APPLIED"
        /\ \A s \in {"AWAITING_OPERATOR_APPROVAL", "APPROVED_AWAITING_EXECUTION",
                     "OBSERVING_POSTCHECK"} :
             \E i \in 1 .. n : events[i].state_after = s
    BY StoryBackwards
  <1>2. /\ events[1].state_after = "INVESTIGATING"
        /\ events[1].reason = "RUN_GENESIS_ACCEPTED"
    BY DEF ReviewedStory, Genesis
  <1>3. /\ n \in 1 .. n /\ n - 1 \in 1 .. n /\ n - 2 \in 1 .. n
        /\ n \in 2 .. n /\ n - 1 \in 2 .. n
        /\ \A i \in 1 .. n : i # 1 => i \in 2 .. n
    BY <1>1
  <1>f. ASSUME NEW s, NEW k \in 1 .. n, events[k].state_after = s
        PROVE  \E i \in 1 .. n : BindingEvent(events, s, i)
    <2>1. \E i \in 1 .. k : BindingEvent(events, s, i)
      BY <1>1, <1>f, FirstEvent
    <2> QED BY <1>1, <2>1
  <1> HIDE DEF n
  <1>4. Binds("AWAITING_OPERATOR_APPROVAL")
    <2>1. PICK i \in 1 .. n : BindingEvent(events, "AWAITING_OPERATOR_APPROVAL", i)
      BY <1>1, <1>f
    <2>2. events[i].state_after = "AWAITING_OPERATOR_APPROVAL" /\ i \in 2 .. n
      BY <1>2, <1>3, <2>1 DEF BindingEvent
    <2>3. events[i].reason = "PROPOSAL_STAGED"
      BY <1>1, <2>2 DEF LinkFacts
    <2> QED BY <2>1, <2>3, ObjectFacts
  <1>5. Binds("APPROVED_AWAITING_EXECUTION")
    <2>1. PICK i \in 1 .. n : BindingEvent(events, "APPROVED_AWAITING_EXECUTION", i)
      BY <1>1, <1>f
    <2>2. events[i].state_after = "APPROVED_AWAITING_EXECUTION" /\ i \in 2 .. n
      BY <1>2, <1>3, <2>1 DEF BindingEvent
    <2>3. events[i].reason = "PROPOSAL_APPROVED"
      BY <1>1, <2>2 DEF LinkFacts
    <2> QED BY <2>1, <2>3, ObjectFacts
  <1>6. Binds("OBSERVING_POSTCHECK")
    <2>1. PICK i \in 1 .. n : BindingEvent(events, "OBSERVING_POSTCHECK", i)
      BY <1>1, <1>f
    <2> QED BY <1>1, <2>1, ObjectFacts
  <1>7. Binds("POSTCHECK_READY")
    <2>1. PICK i \in 1 .. n : BindingEvent(events, "POSTCHECK_READY", i)
      BY <1>1, <1>3, <1>f
    <2>2. events[i].state_after = "POSTCHECK_READY" /\ i \in 2 .. n
      BY <1>2, <1>3, <2>1 DEF BindingEvent
    <2>3. events[i].reason = "VERIFIED_OBSERVATION_RECORDED"
      BY <1>1, <2>2 DEF LinkFacts
    <2> QED BY <2>1, <2>3, ObjectFacts
  <1>8. Binds("REVIEWED")
    <2>1. PICK i \in 1 .. n : BindingEvent(events, "REVIEWED", i)
      BY <1>1, <1>3, <1>f
    <2>2. events[i].state_after = "REVIEWED" /\ i \in 2 .. n
      BY <1>2, <1>3, <2>1 DEF BindingEvent
    <2>3. events[i].reason \in ReviewReasons
      BY <1>1, <2>2 DEF LinkFacts
    <2> QED BY <2>1, <2>3, ObjectFacts
  <1>9. Binds("PENDING_REVIEW") <=> events[n - 1].reason = "POSTCHECK_ASSESSMENT_RECORDED"
    <2>1. events[n - 1].state_after = "PENDING_REVIEW"
      BY <1>1, <1>3
    <2>2. \A i \in 1 .. n : BindingEvent(events, "PENDING_REVIEW", i) => i = n - 1
      BY <1>1 DEF BindingEvent
    <2>3. BindingEvent(events, "PENDING_REVIEW", n - 1)
      BY <1>3, <1>f, <2>1, <2>2
    <2>4. events[n - 1].reason \in {"POSTCHECK_ASSESSMENT_RECORDED", "STATE_TRANSITION_ACCEPTED"}
      BY <1>1, <1>3, <2>1 DEF LinkFacts
    <2>5. ObjectType(events[n - 1].reason) = RequiredObject["PENDING_REVIEW"]
            <=> events[n - 1].reason = "POSTCHECK_ASSESSMENT_RECORDED"
      BY <2>4, ObjectFacts
    <2> QED BY <1>3, <2>2, <2>3, <2>5
  <1>10. (\E i \in 1 .. n : events[i].reason = "POSTCHECK_ASSESSMENT_RECORDED")
           <=> events[n - 1].reason = "POSTCHECK_ASSESSMENT_RECORDED"
    <2>1. ASSUME NEW i \in 1 .. n, events[i].reason = "POSTCHECK_ASSESSMENT_RECORDED"
          PROVE  i = n - 1
      <3>1. i \in 2 .. n
        BY <1>2, <1>3, <2>1
      <3>2. events[i].state_after = "PENDING_REVIEW"
        BY <1>1, <2>1, <3>1 DEF LinkFacts
      <3> QED BY <1>1, <3>2
    <2> QED BY <1>3, <2>1
  <1>11. CausallyBound(events) <=> \A s \in DOMAIN RequiredObject : Binds(s)
    BY DEF CausallyBound, n
  <1> HIDE DEF Binds
  <1>12. CausallyBound(events) <=> Binds("PENDING_REVIEW")
    BY <1>4, <1>5, <1>6, <1>7, <1>8, <1>11, ObjectFacts
  <1> QED BY <1>9, <1>10, <1>12 DEF n

\* The chain of a reviewed run is whole, its one operator is the run's, and its one
\* reviewer is somebody else.
LEMMA StoryVerifies ==
  ASSUME JudgeMode, NEW events, ReviewedStory(events)
  PROVE  VerifiedPrefix(events)
  <1> DEFINE n == Len(events)
             TakenBy(role) == {j \in 1 .. n : events[j].role = role}
  <1>1. /\ n \in Nat /\ n - 2 \in 2 .. n
        /\ \A i \in 2 .. n : LinkFacts(events[i])
        /\ \A i \in 1 .. n : events[i].state_after = "REVIEWED" <=> i = n
        /\ \E i \in 1 .. n : events[i].state_after = "APPROVED_AWAITING_EXECUTION"
    BY StoryBackwards
  <1>2. /\ events[1] = Genesis
        /\ \A i \in 1 .. n : events[i].epoch_before = i - 1 /\ events[i].epoch_after = i
        /\ \A i \in 2 .. n : events[i].state_before = events[i - 1].state_after
        /\ \A i \in 2 .. n : Signed(events[i])
    BY DEF ReviewedStory
  <1>3. events[1].role = "system" /\ events[1].state_after = "INVESTIGATING"
    BY <1>2 DEF Genesis
  <1>4. \A i \in 1 .. n : i # 1 => i \in 2 .. n
    BY <1>1
  <1>5. PICK op \in Operators : Operators = {op}
    BY JudgeAssumption
  <1>6. SubjectsOf(events, "operator") = {op}
    <2>1. \A j \in TakenBy("operator") : events[j].subject = op
      <3>1. \A j \in TakenBy("operator") : j \in 2 .. n /\ events[j].role = "operator"
        BY <1>3, <1>4
      <3> QED BY <1>2, <1>5, <3>1 DEF Signed
    <2>2. PICK i \in 1 .. n : events[i].state_after = "APPROVED_AWAITING_EXECUTION"
      BY <1>1
    <2>3. i \in 2 .. n
      BY <1>3, <1>4, <2>2
    <2>4. i \in TakenBy("operator")
      BY <1>1, <2>2, <2>3 DEF LinkFacts
    <2>5. SubjectsOf(events, "operator") = {events[j].subject : j \in TakenBy("operator")}
      BY DEF SubjectsOf
    <2> HIDE DEF TakenBy
    <2> QED BY <2>1, <2>4, <2>5
  <1>7. SubjectsOf(events, "reviewer") = {events[n].subject}
    <2>0. n \in 2 .. n /\ n \in 1 .. n
      BY <1>1
    <2>1. \A j \in TakenBy("reviewer") : j = n
      <3>1. \A j \in TakenBy("reviewer") : j \in 2 .. n /\ j \in 1 .. n /\ events[j].role = "reviewer"
        BY <1>3, <1>4
      <3> QED BY <1>1, <3>1 DEF LinkFacts
    <2>2. n \in TakenBy("reviewer")
      BY <1>1, <2>0 DEF LinkFacts
    <2>3. SubjectsOf(events, "reviewer") = {events[j].subject : j \in TakenBy("reviewer")}
      BY DEF SubjectsOf
    <2> HIDE DEF TakenBy
    <2> QED BY <2>1, <2>2, <2>3
  <1>8. events[n].subject \in Subjects \ Operators
    <2>1. n \in 2 .. n /\ n \in 1 .. n
      BY <1>1
    <2>2. events[n].role = "reviewer"
      BY <1>1, <2>1 DEF LinkFacts
    <2> QED BY <1>2, <2>1, <2>2 DEF Signed
  <1>9. op \in Subjects /\ events[n].subject \in Subjects /\ op # events[n].subject
    BY <1>5, <1>8 DEF Subjects
  <1>10. \E operator, reviewer \in Subjects :
           /\ SubjectsOf(events, "operator") = {operator}
           /\ SubjectsOf(events, "reviewer") = {reviewer}
           /\ operator # reviewer
    BY <1>6, <1>7, <1>9
  <1>11. events # <<>>
    <2>1. Len(<<>>) = 0
      OBVIOUS
    <2> QED BY <1>1, <2>1
  <1>12. \A i \in 1 .. n : events[i].epoch_after = events[i].epoch_before + 1
    BY <1>1, <1>2
  <1>13. \A i \in 2 .. n :
           /\ events[i].epoch_before = events[i - 1].epoch_after
           /\ events[i].state_before = events[i - 1].state_after
    <2> SUFFICES ASSUME NEW i \in 2 .. n
                 PROVE  events[i].epoch_before = events[i - 1].epoch_after
      BY <1>2
    <2>1. i \in 1 .. n /\ i - 1 \in 1 .. n
      BY <1>1
    <2> QED BY <1>2, <2>1
  <1> QED BY <1>2, <1>10, <1>11, <1>12, <1>13 DEF VerifiedPrefix

\* The prefix a receipt is requested for is the story of a reviewed run.
LEMMA RequestedStory ==
  ASSUME TypeOK, LedgerMirrorsWorkflow, OneReceiptPerReview, StoryInv, JudgeMode,
         NEW n \in receipts
  PROVE  /\ Len(SubSeq(ledger, 1, n)) = n
         /\ ReviewedStory(SubSeq(ledger, 1, n))
  <1> DEFINE events == SubSeq(ledger, 1, n)
  <1>1. /\ n \in 1 .. Len(ledger) /\ ledger[n].reason \in ReviewReasons
        /\ ledger \in Seq(AuthorityEvent) /\ Len(ledger) \in Nat
    BY DEF OneReceiptPerReview, TypeOK, ReviewReasons
  <1>2. Len(events) = n /\ \A i \in 1 .. n : events[i] = ledger[i]
    BY <1>1, SubSeqProperties
  <1> HIDE DEF events
  <1>3. /\ ledger[1] = Genesis
        /\ \A i \in 2 .. Len(ledger) :
             /\ Signed(ledger[i])
             /\ ledger[i].reason = "WORKFLOW_RESET_ACCEPTED"
                  \/ \E mv \in JudgeMoves : Describes(ledger[i], mv)
    BY DEF StoryInv
  <1>4. /\ \A i \in 1 .. Len(ledger) :
             ledger[i].epoch_before = i - 1 /\ ledger[i].epoch_after = i
        /\ \A i \in 2 .. Len(ledger) : ledger[i].state_before = ledger[i - 1].state_after
        /\ \A i \in 1 .. Len(ledger) :
             ledger[i].reason = "WORKFLOW_RESET_ACCEPTED" => i = Len(ledger)
    BY DEF LedgerMirrorsWorkflow
  <1>5. \A i \in 1 .. n : ledger[i].reason # "WORKFLOW_RESET_ACCEPTED"
    <2> SUFFICES ASSUME NEW i \in 1 .. n, ledger[i].reason = "WORKFLOW_RESET_ACCEPTED"
                 PROVE  FALSE
      OBVIOUS
    <2>1. i = Len(ledger) /\ i = n
      BY <1>1, <1>4
    <2> QED BY <1>1, <2>1 DEF ReviewReasons
  <1>6. ASSUME NEW i \in 2 .. n
        PROVE  /\ events[i].state_before = events[i - 1].state_after
               /\ Signed(events[i])
               /\ \E mv \in JudgeMoves : Describes(events[i], mv)
    <2>1. i \in 1 .. n /\ i - 1 \in 1 .. n /\ i \in 2 .. Len(ledger)
      BY <1>1
    <2> QED BY <1>2, <1>3, <1>4, <1>5, <2>1
  <1>7. n \in Nat /\ n >= 1 /\ 1 \in 1 .. n /\ n \in 1 .. n
          /\ \A i \in 1 .. n : i \in 1 .. Len(ledger)
    BY <1>1
  <1>8. ReviewedStory(events)
    BY <1>1, <1>2, <1>3, <1>4, <1>6, <1>7 DEF ReviewedStory
  <1> QED BY <1>2, <1>8 DEF events

\* A receipt is requested only for a prefix the worker's ledger checks accept; it can
\* be signed exactly when the assessment came over the WebMCP route, for every set of
\* subjects and keys and however calls are repeated, raced or retried
\* (verify_causal_bindings, verify_ledger_prefix, build_manifest).
THEOREM ReviewsAreSignable == Spec => []ReviewedIsSignable
  <1>1. /\ TypeOK /\ LedgerMirrorsWorkflow /\ OneReceiptPerReview /\ StoryInv /\ RequestInv
        => ReviewedIsSignable
    <2> SUFFICES ASSUME TypeOK, LedgerMirrorsWorkflow, OneReceiptPerReview, StoryInv,
                        RequestInv, NEW n \in receipts
                 PROVE  LET events == SubSeq(ledger, 1, n) IN
                          /\ VerifiedPrefix(events)
                          /\ Signable(events) <=>
                               \E i \in 1 .. n :
                                 events[i].reason = "POSTCHECK_ASSESSMENT_RECORDED"
      BY DEF ReviewedIsSignable
    <2> DEFINE events == SubSeq(ledger, 1, n)
    <2>1. JudgeMode
      BY DEF RequestInv
    <2>2. Len(events) = n /\ ReviewedStory(events)
      BY <2>1, RequestedStory
    <2> HIDE DEF events
    <2>3. VerifiedPrefix(events)
      BY <2>1, <2>2, StoryVerifies
    <2>4. CausallyBound(events) <=>
            \E i \in 1 .. n : events[i].reason = "POSTCHECK_ASSESSMENT_RECORDED"
      BY <2>2, StoryBinds
    <2>5. Signable(events) <=> CausallyBound(events)
      BY <2>3 DEF Signable
    <2> QED BY <2>3, <2>4, <2>5 DEF events
  <1> QED BY <1>1, StoryAlways, PTL
=============================================================================
