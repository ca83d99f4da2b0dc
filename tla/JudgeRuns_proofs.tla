------------------------- MODULE JudgeRuns_proofs -------------------------
(***************************************************************************)
(* Theorems about JudgeRuns, for every number of runs, codes, visitors and *)
(* handlers.                                                               *)
(***************************************************************************)
EXTENDS JudgeRuns, FiniteSetTheorems, TLAPS

USE DEF None

\* The epoch a precondition carries is a number.
LEMMA EpochType ==
  ASSUME NEW r
  PROVE  Epoch(r) \in Nat
  BY DEF Epoch

\* Every cookie that authenticates an operator names a run.
LEMMA OperatorRun ==
  ASSUME TypeOK, NEW b \in Browsers, OperatorOf(b)
  PROVE  cookie[b] \in Runs
  BY DEF TypeOK, OperatorOf

\* An exchange that has checked its run is still an exchange.
LEMMA CheckedExchange ==
  ASSUME NEW x \in [handoff : Handoffs, checked : BOOLEAN]
  PROVE  [x EXCEPT !.checked = TRUE] \in [handoff : Handoffs, checked : BOOLEAN]
  OBVIOUS

\* Every row, cookie and handler keeps the shape its table or request gives it,
\* through every handler of a judge run.
THEOREM RunsTypeCorrect == Spec => []TypeOK
  <1> USE IdsAssumption, JudgeLimitsAssumption
  <1>1. Init => TypeOK
    BY DEF Init, TypeOK, Stage, SessionState, HandoffPurpose, NoHandoff
  <1>2. TypeOK /\ [Next]_vars => TypeOK'
    <2> SUFFICES ASSUME TypeOK, [Next]_vars PROVE TypeOK'
      OBVIOUS
    <2> USE DEF TypeOK, Stage, SessionState, HandoffPurpose, Decision,
                 runRows, sessionRows, codes, evidence, browser, handlers
    <2>1. ASSUME NEW b \in Browsers, Launch(b) PROVE TypeOK'
      BY <2>1 DEF Launch, AllocateRun
    <2>2. ASSUME NEW b \in Browsers, Logout(b) PROVE TypeOK'
      BY <2>2 DEF Logout, OperatorOf
    <2>3. ASSUME NEW b \in Browsers, RequestReset(b) PROVE TypeOK'
      <3>1. cookie[b] \in Runs /\ Epoch(cookie[b]) \in Nat
        BY <2>3, OperatorRun, EpochType DEF RequestReset
      <3> QED
        BY <2>3, <3>1 DEF RequestReset
    <2>4. ASSUME NEW b \in Browsers, ResetWorkflow(b) PROVE TypeOK'
      BY <2>4 DEF ResetWorkflow, OperatorOf
    <2>5. ASSUME NEW b \in Browsers, OpenPage(b) PROVE TypeOK'
      <3>1. cookie[b] \in Runs /\ Epoch(cookie[b]) \in Nat
        BY <2>5, OperatorRun, EpochType DEF OpenPage
      <3> QED
        BY <2>5, <3>1 DEF OpenPage
    <2>6. ASSUME NEW b \in Browsers, NEW purpose \in HandoffPurpose, RequestHandoff(b, purpose) PROVE TypeOK'
      <3>1. cookie[b] \in Runs
        BY <2>6, OperatorRun DEF RequestHandoff
      <3> QED
        BY <2>6, <3>1 DEF RequestHandoff
    <2>7. ASSUME NEW x \in starting, StartSession(x) PROVE TypeOK'
      BY <2>7 DEF StartSession
    <2>8. ASSUME NEW x \in resetting, ResetAtomically(x) PROVE TypeOK'
      <3>1. x.run \in Runs /\ x.browser \in Browsers
        OBVIOUS
      <3>2. /\ status' \in [Runs -> {"absent", "active", "reset", "expired"}]
            /\ operators' \in [Runs -> {"none", "live", "revoked", "over"}]
            /\ reviewers' \in [Handoffs -> {"none", "live", "revoked", "over"}]
            /\ withdrawn' \subseteq Handoffs
        BY <2>8, <3>1 DEF ResetAtomically, ResetRun
      <3>3. /\ open' \in [Runs -> BOOLEAN]
            /\ resetting' \subseteq [browser : Browsers, run : Runs, epoch : Nat]
            /\ allocating' \subseteq [browser : Browsers, run : Runs]
        BY <2>8, <3>1 DEF ResetAtomically
      <3> QED
        BY <2>8, <3>2, <3>3 DEF ResetAtomically
    <2>9. ASSUME NEW x \in resetting, ResetConflict(x) PROVE TypeOK'
      BY <2>9 DEF ResetConflict
    <2>10. ASSUME NEW x \in allocating, AllocateSuccessor(x) PROVE TypeOK'
      <3>0. x.run \in Runs /\ x.browser \in Browsers
        OBVIOUS
      <3>1. NextGeneration(x.run) \in Nat
        <4>1. generation[x.run] \in Nat
          BY <3>0
        <4>2. generation[x.run] + 1 \in Nat
          BY ONLY <4>1
        <4> QED
          BY ONLY <4>2 DEF NextGeneration
      <3> QED
        BY <2>10, <3>0, <3>1 DEF AllocateSuccessor, AllocateRun
    <2>11. ASSUME NEW x \in allocating, SuccessorRefused(x) PROVE TypeOK'
      BY <2>11 DEF SuccessorRefused
    <2>12. ASSUME NEW p \in pages, ClosePage(p) PROVE TypeOK'
      BY <2>12 DEF ClosePage
    <2>13. ASSUME NEW p \in pages, Propose(p) PROVE TypeOK'
      BY <2>13 DEF Propose, OperatorOf
    <2>14. ASSUME NEW x \in issuing, SaveHandoff(x) PROVE TypeOK'
      <3>1. x.run \in Runs /\ x.purpose \in HandoffPurpose
        OBVIOUS
      <3> QED
        BY <2>14, <3>1 DEF SaveHandoff
    <2>15. ASSUME NEW h \in Handoffs, ConsumeHandoff(h) PROVE TypeOK'
      <3>1. exchanging' \subseteq [handoff : Handoffs, checked : BOOLEAN]
        <4>1. [handoff |-> h, checked |-> FALSE] \in [handoff : Handoffs, checked : BOOLEAN]
          OBVIOUS
        <4>2. exchanging' = exchanging \cup {[handoff |-> h, checked |-> FALSE]}
          BY <2>15 DEF ConsumeHandoff
        <4> QED
          BY <4>1, <4>2
      <3> QED
        BY <2>15, <3>1 DEF ConsumeHandoff
    <2>16. ASSUME NEW x \in exchanging, CheckRun(x) PROVE TypeOK'
      <3>1. status' \in [Runs -> {"absent", "active", "reset", "expired"}]
        BY <2>16 DEF CheckRun, GetRun
      <3>2. [x EXCEPT !.checked = TRUE] \in [handoff : Handoffs, checked : BOOLEAN]
        BY CheckedExchange
      <3>3. exchanging' \subseteq [handoff : Handoffs, checked : BOOLEAN]
        BY <2>16, <3>2 DEF CheckRun
      <3> QED BY <2>16, <3>1, <3>3 DEF CheckRun
    <2>17. ASSUME NEW x \in exchanging, SaveReviewer(x) PROVE TypeOK'
      <3>1. status' \in [Runs -> {"absent", "active", "reset", "expired"}]
        BY <2>17 DEF SaveReviewer, GetRun
      <3>2. reviewers' \in [Handoffs -> SessionState]
        BY <2>17 DEF SaveReviewer
      <3> QED BY <2>17, <3>1, <3>2 DEF SaveReviewer
    <2>18. ASSUME NEW h \in Handoffs, NEW decision \in Decision, RequestReview(h, decision) PROVE TypeOK'
      <3>1. Epoch(handoff[h].run) \in Nat
        BY EpochType
      <3> QED
        BY <2>18, <3>1 DEF RequestReview
    <2>19. ASSUME NEW x \in reviewing, CommitReview(x) PROVE TypeOK'
      <3>1. x.handoff \in Handoffs /\ x.decision \in Stage
        OBVIOUS
      <3>2. stage' \in [Runs -> Stage]
        BY <2>19, <3>1 DEF CommitReview
      <3>3. /\ certifiedBy' \in [Runs -> Handoffs \cup {None}]
            /\ revokedBy' \in [Runs -> Handoffs \cup {None}]
        BY <2>19, <3>1 DEF CommitReview
      <3> QED
        BY <2>19, <3>2, <3>3 DEF CommitReview
    <2>20. ASSUME NEW x \in reviewing, ReviewConflict(x) PROVE TypeOK'
      BY <2>20 DEF ReviewConflict
    <2>21. ASSUME NEW r \in Runs, Assess(r) PROVE TypeOK'
      BY <2>21 DEF Assess
    <2>22. ASSUME NEW r \in Runs, RunPasses(r) PROVE TypeOK'
      BY <2>22 DEF RunPasses
    <2>23. ASSUME NEW r \in Runs, SessionPasses(r) PROVE TypeOK'
      BY <2>23 DEF SessionPasses
    <2>24. ASSUME NEW h \in Handoffs, HandoffPasses(h) PROVE TypeOK'
      BY <2>24 DEF HandoffPasses
    <2>25. CASE Crash
      BY <2>25 DEF Crash
    <2>26. CASE UNCHANGED vars
      BY <2>26 DEF vars
    <2> QED
      BY <2>1, <2>2, <2>3, <2>4, <2>5, <2>6, <2>7, <2>8, <2>9, <2>10, <2>11, <2>12, <2>13, <2>14, <2>15, <2>16, <2>17, <2>18, <2>19, <2>20, <2>21, <2>22, <2>23, <2>24, <2>25, <2>26 DEF Next
  <1> QED
    BY <1>1, <1>2, PTL DEF Spec

-----------------------------------------------------------------------------
(* Separation of the two reviewers.                                        *)

\* Who acts for a purpose holds a consumed code of that purpose: the requests
\* that passed reviewer_scope and the decisions that were committed.
CodesMatchDecisions ==
  /\ \A h \in consumed : handoff[h].run # None
  /\ \A x \in reviewing :
       x.handoff \in consumed /\ handoff[x.handoff].purpose = PurposeOf(x.decision)
  /\ \A r \in Runs : certifiedBy[r] # None =>
       certifiedBy[r] \in consumed /\ handoff[certifiedBy[r]].purpose = "initial_review"
  /\ \A r \in Runs : revokedBy[r] # None =>
       revokedBy[r] \in consumed /\ handoff[revokedBy[r]].purpose = "revocation"

\* A step that adds no reviewer's request and leaves codes and decisions alone.
LEMMA CodesKept ==
  ASSUME CodesMatchDecisions,
         UNCHANGED <<handoff, consumed, certifiedBy, revokedBy>>,
         reviewing' \subseteq reviewing
  PROVE  CodesMatchDecisions'
  BY DEF CodesMatchDecisions

\* Every handler keeps the purpose of a decision that of the code behind it.
LEMMA CodesMatchStep ==
  ASSUME TypeOK, CodesMatchDecisions, [Next]_vars
  PROVE  CodesMatchDecisions'
  <1> USE DEF runRows, sessionRows, codes, evidence, browser, handlers
  <1>1. ASSUME NEW b \in Browsers, Launch(b) \/ Logout(b) \/ RequestReset(b) \/ ResetWorkflow(b) \/ OpenPage(b)
        PROVE  CodesMatchDecisions'
    BY <1>1, CodesKept DEF Launch, Logout, RequestReset, ResetWorkflow, OpenPage
  <1>2. ASSUME NEW b \in Browsers, NEW purpose \in HandoffPurpose, RequestHandoff(b, purpose)
        PROVE  CodesMatchDecisions'
    BY <1>2, CodesKept DEF RequestHandoff
  <1>3. ASSUME NEW x \in starting, StartSession(x) PROVE CodesMatchDecisions'
    BY <1>3, CodesKept DEF StartSession
  <1>4. ASSUME NEW x \in resetting, ResetAtomically(x) \/ ResetConflict(x) PROVE CodesMatchDecisions'
    BY <1>4, CodesKept DEF ResetAtomically, ResetConflict
  <1>5. ASSUME NEW x \in allocating, AllocateSuccessor(x) \/ SuccessorRefused(x) PROVE CodesMatchDecisions'
    BY <1>5, CodesKept DEF AllocateSuccessor, SuccessorRefused
  <1>6. ASSUME NEW p \in pages, ClosePage(p) \/ Propose(p) PROVE CodesMatchDecisions'
    BY <1>6, CodesKept DEF ClosePage, Propose
  <1>7. ASSUME NEW x \in issuing, SaveHandoff(x) PROVE CodesMatchDecisions'
    <2>1. PICK g \in Handoffs :
            /\ handoff[g].run = None
            /\ handoff' = [handoff EXCEPT ![g] = [run |-> x.run, purpose |-> x.purpose]]
      BY <1>7 DEF SaveHandoff
    <2>2. UNCHANGED <<consumed, certifiedBy, revokedBy, reviewing>>
      BY <1>7 DEF SaveHandoff
    <2>3. g \notin consumed
      BY <2>1 DEF CodesMatchDecisions
    <2>4. \A h \in consumed : handoff'[h] = handoff[h]
      BY <2>1, <2>3 DEF TypeOK
    <2> QED
      BY <2>2, <2>4 DEF CodesMatchDecisions
  <1>8. ASSUME NEW h \in Handoffs, ConsumeHandoff(h) PROVE CodesMatchDecisions'
    <2>1. /\ handoff[h].run # None
          /\ consumed' = consumed \cup {h}
          /\ UNCHANGED <<handoff, certifiedBy, revokedBy, reviewing>>
      BY <1>8 DEF ConsumeHandoff, Consumable
    <2> QED
      BY <2>1 DEF CodesMatchDecisions
  <1>9. ASSUME NEW x \in exchanging, CheckRun(x) \/ SaveReviewer(x) PROVE CodesMatchDecisions'
    BY <1>9, CodesKept DEF CheckRun, SaveReviewer
  <1>10. ASSUME NEW h \in Handoffs, NEW decision \in Decision, RequestReview(h, decision)
         PROVE  CodesMatchDecisions'
    <2> DEFINE request == [handoff |-> h, epoch |-> Epoch(handoff[h].run), decision |-> decision]
    <2>1. h \in consumed /\ handoff[h].purpose = PurposeOf(decision)
      BY <1>10 DEF RequestReview, ReviewerScope
    <2>2. request.handoff = h /\ request.decision = decision
      OBVIOUS
    <2>3. /\ reviewing' = reviewing \cup {request}
          /\ UNCHANGED <<handoff, consumed, certifiedBy, revokedBy>>
      BY <1>10 DEF RequestReview
    <2> HIDE DEF request
    <2> QED
      BY <2>1, <2>2, <2>3 DEF CodesMatchDecisions
  <1>11. ASSUME NEW x \in reviewing, CommitReview(x) PROVE CodesMatchDecisions'
    <2> DEFINE r == handoff[x.handoff].run
    <2>1. x.handoff \in consumed /\ handoff[x.handoff].purpose = PurposeOf(x.decision)
      BY DEF CodesMatchDecisions
    <2>2. UNCHANGED <<handoff, consumed>> /\ reviewing' \subseteq reviewing
      BY <1>11 DEF CommitReview
    <2>3. CASE x.decision = "revoked"
      <3>1. revokedBy' = [revokedBy EXCEPT ![r] = x.handoff] /\ UNCHANGED certifiedBy
        BY <1>11, <2>3 DEF CommitReview
      <3> HIDE DEF r
      <3>2. \A s \in Runs : revokedBy'[s] = revokedBy[s] \/ revokedBy'[s] = x.handoff
        BY <3>1 DEF TypeOK
      <3>3. handoff[x.handoff].purpose = "revocation"
        BY <2>1, <2>3 DEF PurposeOf
      <3> QED
        BY <2>1, <2>2, <3>1, <3>2, <3>3 DEF CodesMatchDecisions
    <2>4. CASE x.decision # "revoked"
      <3>1. certifiedBy' = [certifiedBy EXCEPT ![r] = x.handoff] /\ UNCHANGED revokedBy
        BY <1>11, <2>4 DEF CommitReview
      <3> HIDE DEF r
      <3>2. \A s \in Runs : certifiedBy'[s] = certifiedBy[s] \/ certifiedBy'[s] = x.handoff
        BY <3>1 DEF TypeOK
      <3>3. handoff[x.handoff].purpose = "initial_review"
        BY <2>1, <2>4 DEF PurposeOf
      <3> QED
        BY <2>1, <2>2, <3>1, <3>2, <3>3 DEF CodesMatchDecisions
    <2> QED
      BY <2>3, <2>4
  <1>12. ASSUME NEW x \in reviewing, ReviewConflict(x) PROVE CodesMatchDecisions'
    BY <1>12, CodesKept DEF ReviewConflict
  <1>13. ASSUME NEW r \in Runs, Assess(r) \/ RunPasses(r) \/ SessionPasses(r) PROVE CodesMatchDecisions'
    BY <1>13, CodesKept DEF Assess, RunPasses, SessionPasses
  <1>14. ASSUME NEW h \in Handoffs, HandoffPasses(h) PROVE CodesMatchDecisions'
    BY <1>14, CodesKept DEF HandoffPasses
  <1>15. CASE Crash
    BY <1>15, CodesKept DEF Crash
  <1>16. CASE UNCHANGED vars
    BY <1>16, CodesKept DEF vars
  <1> QED
    BY <1>1, <1>2, <1>3, <1>4, <1>5, <1>6, <1>7, <1>8, <1>9, <1>10, <1>11, <1>12, <1>13,
       <1>14, <1>15, <1>16 DEF Next

\* No subject both decides on evidence and revokes it, whatever handlers are
\* between their scope check and their transaction: reviewer_scope asks for a code
\* of the purpose, save_handoff never rewrites a code that was consumed, and a code
\* has one purpose.
THEOREM ReviewersAreSeparate == Spec => []CertifierNeverRevokes
  <1>1. Init => CodesMatchDecisions
    BY DEF Init, CodesMatchDecisions
  <1>2. TypeOK /\ CodesMatchDecisions /\ [Next]_vars => CodesMatchDecisions'
    BY CodesMatchStep
  <1>3. CodesMatchDecisions => CertifierNeverRevokes
    BY DEF CodesMatchDecisions, CertifierNeverRevokes
  <1> QED
    BY <1>1, <1>2, <1>3, RunsTypeCorrect, PTL DEF Spec

-----------------------------------------------------------------------------
(* Exchanging a code.                                                      *)

\* A code that is being exchanged is consumed, has no session yet and is in the
\* hands of one handler; a session comes from a consumed code.
ExchangeInv ==
  /\ \A x \in exchanging : x.handoff \in consumed /\ reviewers[x.handoff] = "none"
  /\ \A x, y \in exchanging : x.handoff = y.handoff => x = y
  /\ \A h \in Handoffs : reviewers[h] # "none" => h \in consumed

\* The steps that touch a code's exchange or its session.
LEMMA ExchangeFrame ==
  ASSUME [Next]_vars
  PROVE  \/ UNCHANGED <<exchanging, consumed, reviewers>>
         \/ \E x \in resetting : ResetAtomically(x)
         \/ \E h \in Handoffs : ConsumeHandoff(h)
         \/ \E x \in exchanging : CheckRun(x) \/ SaveReviewer(x)
         \/ Crash
  <1> USE DEF runRows, sessionRows, codes, evidence, browser, handlers
  <1> DEFINE Same == UNCHANGED <<exchanging, consumed, reviewers>>
  <1>1. ASSUME NEW b \in Browsers,
               \/ Launch(b) \/ Logout(b) \/ RequestReset(b) \/ ResetWorkflow(b) \/ OpenPage(b)
               \/ \E purpose \in HandoffPurpose : RequestHandoff(b, purpose)
        PROVE  Same
    BY <1>1 DEF Launch, Logout, RequestReset, ResetWorkflow, OpenPage, RequestHandoff
  <1>2. ASSUME NEW x,
               \/ StartSession(x) \/ ResetConflict(x) \/ AllocateSuccessor(x)
               \/ SuccessorRefused(x) \/ ClosePage(x) \/ Propose(x) \/ SaveHandoff(x)
               \/ CommitReview(x) \/ ReviewConflict(x)
        PROVE  Same
    BY <1>2 DEF StartSession, ResetConflict, AllocateSuccessor, SuccessorRefused, ClosePage,
                Propose, SaveHandoff, CommitReview, ReviewConflict
  <1>3. ASSUME NEW x, \/ Assess(x) \/ RunPasses(x) \/ SessionPasses(x) \/ HandoffPasses(x)
                      \/ \E decision \in Decision : RequestReview(x, decision)
        PROVE  Same
    BY <1>3 DEF Assess, RunPasses, SessionPasses, HandoffPasses, RequestReview
  <1>4. CASE UNCHANGED vars
    BY <1>4 DEF vars
  <1> HIDE DEF Same
  <1> QED BY <1>1, <1>2, <1>3, <1>4 DEF Next, Same

\* Every step keeps it.
LEMMA ExchangeStep ==
  ASSUME TypeOK, ExchangeInv, [Next]_vars
  PROVE  ExchangeInv'
  <1>1. CASE UNCHANGED <<exchanging, consumed, reviewers>>
    BY <1>1 DEF ExchangeInv
  <1>2. ASSUME NEW x \in resetting, ResetAtomically(x) PROVE ExchangeInv'
    <2>1. UNCHANGED <<exchanging, consumed>>
      BY <1>2 DEF ResetAtomically
    <2>2. \A h \in Handoffs : reviewers[h] = "none" <=> reviewers'[h] = "none"
      BY <1>2 DEF ResetAtomically, ResetRun, TypeOK
    <2> QED BY <2>1, <2>2 DEF ExchangeInv, TypeOK
  <1>3. ASSUME NEW h \in Handoffs, ConsumeHandoff(h) PROVE ExchangeInv'
    <2> DEFINE new == [handoff |-> h, checked |-> FALSE]
    <2>1. /\ h \notin consumed /\ consumed' = consumed \cup {h}
          /\ exchanging' = exchanging \cup {new} /\ UNCHANGED reviewers
      BY <1>3 DEF ConsumeHandoff, Consumable
    <2>2. new.handoff = h
      OBVIOUS
    <2> HIDE DEF new
    <2> QED BY <2>1, <2>2 DEF ExchangeInv
  <1>4. ASSUME NEW x \in exchanging, CheckRun(x) PROVE ExchangeInv'
    <2> DEFINE new == [x EXCEPT !.checked = TRUE]
    <2>1. /\ UNCHANGED <<consumed, reviewers>>
          /\ exchanging' \in {exchanging \ {x}, (exchanging \ {x}) \cup {new}}
      BY <1>4 DEF CheckRun, sessionRows, codes
    <2>2. new.handoff = x.handoff
      BY DEF TypeOK
    <2> HIDE DEF new
    <2> QED BY <2>1, <2>2 DEF ExchangeInv
  <1>5. ASSUME NEW x \in exchanging, SaveReviewer(x) PROVE ExchangeInv'
    <2>1. /\ UNCHANGED consumed /\ exchanging' = exchanging \ {x}
          /\ x.handoff \in Handoffs
          /\ \A h \in Handoffs : h # x.handoff => reviewers'[h] = reviewers[h]
      BY <1>5 DEF SaveReviewer, codes, TypeOK
    <2> QED BY <2>1 DEF ExchangeInv, TypeOK
  <1>6. CASE Crash
    BY <1>6 DEF Crash, sessionRows, codes, ExchangeInv
  <1> QED BY <1>1, <1>2, <1>3, <1>4, <1>5, <1>6, ExchangeFrame

\* A reviewer code is exchanged once: one exchange in progress or one session, and
\* only of a consumed code, however often it is presented and wherever the process
\* dies in between (consume_handoff).
THEOREM CodesAreExchangedOnce == Spec => []CodeExchangedOnce
  <1>1. Init => ExchangeInv
    BY DEF Init, ExchangeInv
  <1>2. TypeOK /\ ExchangeInv /\ [Next]_vars => ExchangeInv'
    BY ExchangeStep
  <1>3. TypeOK /\ ExchangeInv => CodeExchangedOnce
    <2> DEFINE Exchanges(h) == {x \in exchanging : x.handoff = h}
               Sessions(h) == IF reviewers[h] = "none" THEN 0 ELSE 1
    <2> SUFFICES ASSUME TypeOK, ExchangeInv, NEW h \in Handoffs
                 PROVE  /\ Cardinality(Exchanges(h)) + Sessions(h) <= 1
                        /\ Cardinality(Exchanges(h)) + Sessions(h) = 1 => h \in consumed
      BY DEF CodeExchangedOnce
    <2>1. CASE Exchanges(h) = {}
      <3>1. Cardinality(Exchanges(h)) = 0
        BY <2>1, FS_EmptySet
      <3> HIDE DEF Exchanges
      <3> QED BY <3>1 DEF ExchangeInv
    <2>2. CASE Exchanges(h) # {}
      <3>1. PICK x \in exchanging : x.handoff = h
        BY <2>2
      <3>2. Exchanges(h) = {x}
        BY <3>1 DEF ExchangeInv
      <3>3. Cardinality(Exchanges(h)) = 1
        BY <3>2, FS_Singleton
      <3>4. reviewers[h] = "none" /\ h \in consumed
        BY <3>1 DEF ExchangeInv
      <3> HIDE DEF Exchanges
      <3> QED BY <3>3, <3>4
    <2> QED BY <2>1, <2>2
  <1> QED
    BY <1>1, <1>2, <1>3, RunsTypeCorrect, PTL DEF Spec

-----------------------------------------------------------------------------
(* Links and the evidence they are about.                                  *)

\* The stages a link of a purpose may meet: those its evidence can have reached
\* since it was read.
Meets(purpose) ==
  IF purpose = "initial_review" THEN Stage \ {"open", "proposed"} ELSE {"active", "revoked"}

\* A handler that has read the evidence and not saved its code is held to the same.
LinkInv ==
  /\ \A h \in Handoffs : handoff[h].run # None => stage[handoff[h].run] \in Meets(handoff[h].purpose)
  /\ \A x \in issuing : stage[x.run] \in Meets(x.purpose)

\* The steps that move evidence or touch a link.
LEMMA LinkFrame ==
  ASSUME [Next]_vars
  PROVE  \/ UNCHANGED <<handoff, stage>> /\ issuing' \subseteq issuing
         \/ \E b \in Browsers, purpose \in HandoffPurpose : RequestHandoff(b, purpose)
         \/ \E p \in pages : Propose(p)
         \/ \E x \in issuing : SaveHandoff(x)
         \/ \E x \in reviewing : CommitReview(x)
         \/ \E r \in Runs : Assess(r)
  <1> USE DEF runRows, sessionRows, codes, evidence, browser, handlers
  <1> DEFINE Same == UNCHANGED <<handoff, stage>> /\ issuing' \subseteq issuing
  <1>1. ASSUME NEW b,
               Launch(b) \/ Logout(b) \/ RequestReset(b) \/ ResetWorkflow(b) \/ OpenPage(b)
        PROVE  Same
    BY <1>1 DEF Launch, Logout, RequestReset, ResetWorkflow, OpenPage
  <1>2. ASSUME NEW x,
               \/ StartSession(x) \/ ResetAtomically(x) \/ ResetConflict(x)
               \/ AllocateSuccessor(x) \/ SuccessorRefused(x) \/ ClosePage(x)
               \/ CheckRun(x) \/ SaveReviewer(x) \/ ReviewConflict(x)
        PROVE  Same
    BY <1>2 DEF StartSession, ResetAtomically, ResetConflict, AllocateSuccessor,
                SuccessorRefused, ClosePage, CheckRun, SaveReviewer, ReviewConflict
  <1>3. ASSUME NEW x, \/ RunPasses(x) \/ SessionPasses(x) \/ HandoffPasses(x) \/ ConsumeHandoff(x)
                      \/ \E decision \in Decision : RequestReview(x, decision)
        PROVE  Same
    BY <1>3 DEF RunPasses, SessionPasses, HandoffPasses, ConsumeHandoff, RequestReview
  <1>4. CASE UNCHANGED vars \/ Crash
    BY <1>4 DEF vars, Crash
  <1> HIDE DEF Same
  <1> QED BY <1>1, <1>2, <1>3, <1>4 DEF Next, Same

\* Evidence of one run moves from one stage to the next.
LEMMA LinkMoves ==
  ASSUME TypeOK, LinkInv, NEW r, NEW s,
         UNCHANGED <<handoff, issuing>>, stage' = [stage EXCEPT ![r] = s],
         \A purpose \in HandoffPurpose : stage[r] \in Meets(purpose) => s \in Meets(purpose)
  PROVE  LinkInv'
  <1>1. \A q \in Runs : stage'[q] = IF q = r THEN s ELSE stage[q]
    BY DEF TypeOK
  <1>2. /\ \A h \in Handoffs : handoff[h].run \in Runs \cup {None}
                               /\ handoff[h].purpose \in HandoffPurpose
        /\ \A x \in issuing : x.run \in Runs /\ x.purpose \in HandoffPurpose
    BY DEF TypeOK
  <1> QED BY <1>1, <1>2 DEF LinkInv

\* Every step keeps it: a stage never moves back to one a link cannot meet.
LEMMA LinkStep ==
  ASSUME TypeOK, LinkInv, [Next]_vars
  PROVE  LinkInv'
  <1>m. /\ \A p : "open" \notin Meets(p) /\ "proposed" \notin Meets(p)
        /\ \A p : "active" \in Meets(p) /\ "revoked" \in Meets(p)
        /\ Meets("revocation") = {"active", "revoked"}
        /\ {"pending", "withheld"} \subseteq Meets("initial_review")
    BY DEF Meets, Stage
  <1>1. CASE UNCHANGED <<handoff, stage>> /\ issuing' \subseteq issuing
    BY <1>1 DEF LinkInv
  <1>2. ASSUME NEW b \in Browsers, NEW purpose \in HandoffPurpose, RequestHandoff(b, purpose)
        PROVE  LinkInv'
    <2> DEFINE new == [run |-> cookie[b], purpose |-> purpose]
    <2>1. issuing' = issuing \cup {new} /\ UNCHANGED <<handoff, stage>>
      BY <1>2 DEF RequestHandoff, sessionRows, codes, evidence
    <2>2. stage[cookie[b]] = IF purpose = "initial_review" THEN "pending" ELSE "active"
      BY <1>2 DEF RequestHandoff, ReviewTarget
    <2>3. stage[cookie[b]] \in Meets(purpose)
      BY <1>m, <2>2 DEF HandoffPurpose
    <2>4. new.run = cookie[b] /\ new.purpose = purpose
      OBVIOUS
    <2> HIDE DEF new
    <2> QED BY <2>1, <2>3, <2>4 DEF LinkInv
  <1>3. ASSUME NEW p \in pages, Propose(p) PROVE LinkInv'
    <2> DEFINE r == cookie[p.browser]
    <2>1. /\ stage[r] = "open" /\ stage' = [stage EXCEPT ![r] = "proposed"]
          /\ UNCHANGED <<handoff, issuing>>
      BY <1>3 DEF Propose, sessionRows, codes, handlers
    <2> HIDE DEF r
    <2> QED BY <1>m, <2>1, LinkMoves
  <1>4. ASSUME NEW x \in issuing, SaveHandoff(x) PROVE LinkInv'
    <2> DEFINE new == [run |-> x.run, purpose |-> x.purpose]
    <2>1. PICK g \in Handoffs : handoff' = [handoff EXCEPT ![g] = new]
      BY <1>4 DEF SaveHandoff
    <2>2. issuing' \subseteq issuing /\ UNCHANGED stage
      BY <1>4 DEF SaveHandoff, evidence
    <2>3. new.run = x.run /\ new.purpose = x.purpose /\ stage[x.run] \in Meets(x.purpose)
      BY DEF LinkInv
    <2> HIDE DEF new
    <2>4. \A h \in Handoffs : handoff'[h] = IF h = g THEN new ELSE handoff[h]
      BY <2>1 DEF TypeOK
    <2> QED BY <2>2, <2>3, <2>4 DEF LinkInv
  <1>5. ASSUME NEW x \in reviewing, CommitReview(x) PROVE LinkInv'
    <2> DEFINE r == handoff[x.handoff].run
    <2>1. /\ stage[r] = IF x.decision = "revoked" THEN "active" ELSE "pending"
          /\ stage' = [stage EXCEPT ![r] = x.decision]
          /\ UNCHANGED <<handoff, issuing>>
      BY <1>5 DEF CommitReview, ReviewStands, sessionRows, codes
    <2>2. x.decision \in {"active", "withheld", "revoked"}
      BY DEF TypeOK, Decision
    <2> HIDE DEF r
    <2>3. \A purpose \in HandoffPurpose :
            stage[r] \in Meets(purpose) => x.decision \in Meets(purpose)
      BY <1>m, <2>1, <2>2 DEF HandoffPurpose
    <2> QED BY <2>1, <2>3, LinkMoves
  <1>6. ASSUME NEW r \in Runs, Assess(r) PROVE LinkInv'
    <2>1. /\ stage[r] = "proposed" /\ stage' = [stage EXCEPT ![r] = "pending"]
          /\ UNCHANGED <<handoff, issuing>>
      BY <1>6 DEF Assess, sessionRows, codes, handlers
    <2> QED BY <1>m, <2>1, LinkMoves
  <1> QED BY <1>1, <1>2, <1>3, <1>4, <1>5, <1>6, LinkFrame

\* No review code exists before the evidence is pending, and no revocation code for
\* evidence that was never certified, although the evidence is read in one
\* transaction and the code saved in another (create_reviewer_handoff).
THEOREM LinksFollowEvidence == Spec => []LinkFollowsEvidence
  <1>1. Init => LinkInv
    BY DEF Init, LinkInv, NoHandoff
  <1>2. TypeOK /\ LinkInv /\ [Next]_vars => LinkInv'
    BY LinkStep
  <1>3. LinkInv => LinkFollowsEvidence
    BY DEF LinkInv, LinkFollowsEvidence, Meets
  <1> QED
    BY <1>1, <1>2, <1>3, RunsTypeCorrect, PTL DEF Spec

-----------------------------------------------------------------------------
(* A step seen from the run rows.                                          *)

\* A new row: launched, or the successor of a reset run one generation later.
Allocates ==
  \E b, gen, old :
    /\ AllocateRun(b, gen, old)
    /\ allocating' \subseteq allocating /\ UNCHANGED applied
    /\ old = None \/ \E x \in allocating : old = x.run /\ gen = generation[old] + 1

\* Or the rows that exist stay, and their status only ever leaves "active"; a reset
\* in progress is of a row that exists, and a proposal that got through named the
\* generation of the run it changed.
RowsStay ==
  /\ UNCHANGED <<generation, replaces>>
  /\ \A r \in Runs : /\ status'[r] = "absent" <=> status[r] = "absent"
                     /\ status'[r] = "active" => status[r] = "active"
                     /\ status[r] = "reset" => status'[r] = "reset"
                     /\ runPast[r] => runPast'[r]
  /\ \A x \in allocating' : x \in allocating \/ status'[x.run] # "absent"
  /\ \A a \in applied' : a \in applied \/ /\ status[a[2]] # "absent"
                                          /\ generation[a[1]] = generation[a[2]]

\* Every step is one of the two.
LEMMA RunsFrame ==
  ASSUME TypeOK, [Next]_vars
  PROVE  Allocates \/ RowsStay
  <1> USE DEF runRows, sessionRows, codes, evidence, browser, handlers
  <1>1. ASSUME NEW b \in Browsers, Launch(b) PROVE Allocates
    <2>1. AllocateRun(b, 1, None) /\ UNCHANGED <<allocating, applied>>
      BY <1>1 DEF Launch
    <2> QED BY <2>1 DEF Allocates
  <1>2. ASSUME NEW x \in allocating, AllocateSuccessor(x) PROVE Allocates
    <2>1. /\ AllocateRun(x.browser, NextGeneration(x.run), x.run)
          /\ allocating' \subseteq allocating /\ UNCHANGED applied
      BY <1>2 DEF AllocateSuccessor
    <2>2. NextGeneration(x.run) = generation[x.run] + 1
      BY DEF NextGeneration
    <2> QED BY <2>1, <2>2 DEF Allocates
  <1> DEFINE Quiet == /\ UNCHANGED <<status, generation, replaces, applied, runPast>>
                      /\ allocating' \subseteq allocating
  <1>3. ASSUME NEW b,
               \/ Logout(b) \/ RequestReset(b) \/ ResetWorkflow(b) \/ OpenPage(b)
               \/ \E purpose \in HandoffPurpose : RequestHandoff(b, purpose)
        PROVE  Quiet
    BY <1>3 DEF Logout, RequestReset, ResetWorkflow, OpenPage, RequestHandoff
  <1>4. ASSUME NEW x,
               \/ StartSession(x) \/ ResetConflict(x) \/ SuccessorRefused(x) \/ ClosePage(x)
               \/ SaveHandoff(x) \/ CommitReview(x) \/ ReviewConflict(x)
        PROVE  Quiet
    BY <1>4 DEF StartSession, ResetConflict, SuccessorRefused, ClosePage, SaveHandoff,
                CommitReview, ReviewConflict
  <1>5. ASSUME NEW x, \/ Assess(x) \/ SessionPasses(x) \/ HandoffPasses(x) \/ ConsumeHandoff(x)
                      \/ \E decision \in Decision : RequestReview(x, decision)
        PROVE  Quiet
    BY <1>5 DEF Assess, SessionPasses, HandoffPasses, ConsumeHandoff, RequestReview
  <1>6. CASE UNCHANGED vars
    BY <1>6 DEF vars, RowsStay
  <1>c. CASE Crash
    <2>1. allocating' = {} /\ UNCHANGED <<runRows, browser>>
      BY <1>c DEF Crash
    <2> QED BY <2>1 DEF RowsStay
  <1>q. Quiet => RowsStay
    BY DEF RowsStay
  <1> HIDE DEF Quiet
  <1>7. ASSUME NEW x \in resetting, ResetAtomically(x) PROVE RowsStay
    <2> DEFINE new == [browser |-> x.browser, run |-> x.run]
    <2>1. /\ status' = [status EXCEPT ![x.run] = "reset"] /\ status[x.run] = "active"
          /\ allocating' = allocating \cup {new}
          /\ UNCHANGED <<runPast, generation, replaces, applied>>
      BY <1>7 DEF ResetAtomically, ResetStands, ResetRun, Current
    <2>2. new.run = x.run /\ x.run \in Runs
      BY DEF TypeOK
    <2> HIDE DEF new
    <2> QED BY <2>1, <2>2 DEF RowsStay, TypeOK
  <1>8. ASSUME NEW x \in exchanging, CheckRun(x) \/ SaveReviewer(x) PROVE RowsStay
    <2>1. /\ status' = GetRun(handoff[x.handoff].run)
          /\ UNCHANGED <<runPast, generation, replaces, applied, allocating>>
      BY <1>8 DEF CheckRun, SaveReviewer
    <2> QED BY <2>1 DEF RowsStay, GetRun, TypeOK
  <1>9. ASSUME NEW p \in pages, Propose(p) PROVE RowsStay
    <2> DEFINE r == cookie[p.browser]
    <2>1. /\ status[r] = "active" /\ generation[p.run] = generation[r]
          /\ applied' = applied \cup {<<p.run, r>>}
          /\ UNCHANGED <<status, runPast, generation, replaces, allocating>>
      BY <1>9 DEF Propose, OperatorOf, Authenticate, Current, IfMatch
    <2> HIDE DEF r
    <2> QED BY <2>1 DEF RowsStay
  <1>10. ASSUME NEW r \in Runs, RunPasses(r) PROVE RowsStay
    BY <1>10 DEF RunPasses, RowsStay, TypeOK
  <1> QED
    BY <1>1, <1>2, <1>3, <1>4, <1>5, <1>6, <1>c, <1>q, <1>7, <1>8, <1>9, <1>10 DEF Next

\* The row an allocation writes was absent, and no other row changes.
LEMMA AllocateFacts ==
  ASSUME TypeOK, NEW b, NEW gen, NEW old, AllocateRun(b, gen, old)
  PROVE  \E r \in Runs :
           /\ status[r] = "absent" /\ status'[r] = "active"
           /\ generation'[r] = gen /\ replaces'[r] = old
           /\ \A q \in Runs : q # r => /\ status'[q] = status[q]
                                       /\ generation'[q] = generation[q]
                                       /\ replaces'[q] = replaces[q]
           /\ UNCHANGED runPast /\ Capacity
  <1>1. PICK r \in Runs :
          /\ status[r] = "absent" /\ status' = [status EXCEPT ![r] = "active"]
          /\ generation' = [generation EXCEPT ![r] = gen]
          /\ replaces' = [replaces EXCEPT ![r] = old]
    BY DEF AllocateRun
  <1> QED BY <1>1 DEF AllocateRun, TypeOK

-----------------------------------------------------------------------------
(* Reset runs, generations and stale pages.                                *)

\* The workflow of a reset run is closed: both are written by one transaction.
ClosedInv == \A r \in Runs : status[r] = "reset" => ~open[r]

\* Every step keeps it.
LEMMA ClosedStep ==
  ASSUME TypeOK, ClosedInv, [Next]_vars
  PROVE  ClosedInv'
  <1> USE DEF runRows, sessionRows, codes, evidence, browser, handlers
  <1> DEFINE Same == UNCHANGED <<status, open>>
  <1>1. ASSUME NEW b, \/ Logout(b) \/ RequestReset(b) \/ OpenPage(b)
                      \/ \E purpose \in HandoffPurpose : RequestHandoff(b, purpose)
        PROVE  Same
    BY <1>1 DEF Logout, RequestReset, OpenPage, RequestHandoff
  <1>2. ASSUME NEW x,
               \/ StartSession(x) \/ ResetConflict(x) \/ SuccessorRefused(x) \/ ClosePage(x)
               \/ Propose(x) \/ SaveHandoff(x) \/ CommitReview(x) \/ ReviewConflict(x)
        PROVE  Same
    BY <1>2 DEF StartSession, ResetConflict, SuccessorRefused, ClosePage, Propose, SaveHandoff,
                CommitReview, ReviewConflict
  <1>3. ASSUME NEW x, \/ Assess(x) \/ RunPasses(x) \/ SessionPasses(x) \/ HandoffPasses(x)
                      \/ ConsumeHandoff(x)
                      \/ \E decision \in Decision : RequestReview(x, decision)
        PROVE  Same
    BY <1>3 DEF Assess, RunPasses, SessionPasses, HandoffPasses, ConsumeHandoff, RequestReview
  <1>4. CASE Crash \/ UNCHANGED vars
    BY <1>4 DEF Crash, vars, ClosedInv
  <1>5. Same => ClosedInv'
    BY DEF ClosedInv
  <1> HIDE DEF Same
  <1>6. ASSUME NEW b \in Browsers, ResetWorkflow(b) PROVE ClosedInv'
    BY <1>6 DEF ResetWorkflow, ClosedInv, TypeOK
  <1>7. ASSUME NEW b, NEW gen, NEW old, AllocateRun(b, gen, old), UNCHANGED open
        PROVE  ClosedInv'
    BY <1>7 DEF AllocateRun, ClosedInv, TypeOK
  <1>8. ASSUME NEW b \in Browsers, Launch(b) PROVE ClosedInv'
    BY <1>7, <1>8 DEF Launch
  <1>9. ASSUME NEW x \in allocating, AllocateSuccessor(x) PROVE ClosedInv'
    BY <1>7, <1>9 DEF AllocateSuccessor
  <1>10. ASSUME NEW x \in resetting, ResetAtomically(x) PROVE ClosedInv'
    <2>1. /\ status' = [status EXCEPT ![x.run] = "reset"]
          /\ open' = [open EXCEPT ![x.run] = FALSE]
      BY <1>10 DEF ResetAtomically, ResetRun
    <2> QED BY <2>1 DEF ClosedInv, TypeOK
  <1>11. ASSUME NEW x \in exchanging, CheckRun(x) \/ SaveReviewer(x) PROVE ClosedInv'
    <2>1. status' = GetRun(handoff[x.handoff].run) /\ UNCHANGED open
      BY <1>11 DEF CheckRun, SaveReviewer
    <2> QED BY <2>1 DEF GetRun, ClosedInv, TypeOK
  <1> QED
    BY <1>1, <1>2, <1>3, <1>4, <1>5, <1>6, <1>8, <1>9, <1>10, <1>11 DEF Next

\* A step that leaves codes and decisions alone and lets no request further.
LEMMA NothingNew ==
  ASSUME NEW r, UNCHANGED handoff,
         resetting' \subseteq resetting, issuing' \subseteq issuing,
         exchanging' \subseteq exchanging, reviewing' \subseteq reviewing
  PROVE  HandlersOf(r)' \subseteq HandlersOf(r)
  BY DEF HandlersOf

\* What a step leaves alone of a run that is reset.
LEMMA ResetStep ==
  ASSUME TypeOK, CodesMatchDecisions, ExchangeInv, ClosedInv, [Next]_vars,
         NEW r \in Runs, status[r] = "reset"
  PROVE  /\ UNCHANGED <<stage[r], certifiedBy[r], revokedBy[r]>>
         /\ HandlersOf(r)' \subseteq HandlersOf(r)
  <1> USE DEF runRows, sessionRows, codes, evidence, browser, handlers
  <1> DEFINE Kept == UNCHANGED <<stage[r], certifiedBy[r], revokedBy[r]>>
             Goal == Kept /\ HandlersOf(r)' \subseteq HandlersOf(r)
             Quiet == /\ UNCHANGED <<stage, certifiedBy, revokedBy, handoff>>
                      /\ resetting' \subseteq resetting /\ issuing' \subseteq issuing
                      /\ exchanging' \subseteq exchanging /\ reviewing' \subseteq reviewing
  <1>n. ~open[r] /\ ~Current(r) /\ r # None
    BY IdsAssumption DEF ClosedInv, Current, None
  <1>q. Quiet => Goal
    BY NothingNew
  <1>1. ASSUME NEW b, Launch(b) \/ Logout(b) \/ ResetWorkflow(b) \/ OpenPage(b) PROVE Quiet
    BY <1>1 DEF Launch, Logout, ResetWorkflow, OpenPage, AllocateRun
  <1>2. ASSUME NEW x,
               \/ StartSession(x) \/ ResetAtomically(x) \/ ResetConflict(x)
               \/ AllocateSuccessor(x) \/ SuccessorRefused(x) \/ ClosePage(x)
               \/ SaveReviewer(x) \/ ReviewConflict(x)
        PROVE  Quiet
    BY <1>2 DEF StartSession, ResetAtomically, ResetConflict, AllocateSuccessor,
                SuccessorRefused, ClosePage, SaveReviewer, ReviewConflict
  <1>3. ASSUME NEW x, RunPasses(x) \/ SessionPasses(x) \/ HandoffPasses(x) PROVE Quiet
    BY <1>3 DEF RunPasses, SessionPasses, HandoffPasses
  <1>4. ASSUME Crash \/ UNCHANGED vars PROVE Quiet
    BY <1>4 DEF Crash, vars
  <1>5. ASSUME NEW q \in Runs, Current(q) \/ open[q],
               \E s : stage' = [stage EXCEPT ![q] = s],
               \E h : certifiedBy' \in {certifiedBy, [certifiedBy EXCEPT ![q] = h]},
               \E h : revokedBy' \in {revokedBy, [revokedBy EXCEPT ![q] = h]}
        PROVE  Kept
    <2>1. q # r
      BY <1>n, <1>5
    <2> QED BY <1>5, <2>1 DEF TypeOK
  <1>6. ASSUME NEW p \in pages, Propose(p) PROVE Goal
    <2> DEFINE q == cookie[p.browser]
    <2>1. /\ q \in Runs /\ open[q] /\ stage' = [stage EXCEPT ![q] = "proposed"]
          /\ UNCHANGED <<certifiedBy, revokedBy, handoff, handlers>>
      BY <1>6, OperatorRun DEF Propose, TypeOK
    <2> HIDE DEF q
    <2> QED BY <1>5, <2>1, NothingNew
  <1>7. ASSUME NEW q \in Runs, Assess(q) PROVE Goal
    <2>1. /\ Current(q) /\ stage' = [stage EXCEPT ![q] = "pending"]
          /\ UNCHANGED <<certifiedBy, revokedBy, handoff, handlers>>
      BY <1>7 DEF Assess
    <2> QED BY <1>5, <2>1, NothingNew
  <1>8. ASSUME NEW b \in Browsers, RequestReset(b) PROVE Goal
    <2> DEFINE new == [browser |-> b, run |-> cookie[b], epoch |-> Epoch(cookie[b])]
    <2>1. /\ resetting' = resetting \cup {new} /\ new.run # r
          /\ UNCHANGED <<issuing, exchanging, reviewing, handoff, stage, certifiedBy, revokedBy>>
      BY <1>8, <1>n DEF RequestReset, OperatorOf, Authenticate
    <2> HIDE DEF new
    <2> QED BY <2>1 DEF HandlersOf
  <1>9. ASSUME NEW b \in Browsers, NEW purpose \in HandoffPurpose, RequestHandoff(b, purpose)
        PROVE  Goal
    <2> DEFINE new == [run |-> cookie[b], purpose |-> purpose]
    <2>1. /\ issuing' = issuing \cup {new} /\ new.run # r
          /\ UNCHANGED <<resetting, exchanging, reviewing, handoff, stage, certifiedBy, revokedBy>>
      BY <1>9, <1>n DEF RequestHandoff, OperatorOf, Authenticate
    <2> HIDE DEF new
    <2> QED BY <2>1 DEF HandlersOf
  <1>10. ASSUME NEW x \in issuing, SaveHandoff(x) PROVE Goal
    <2>1. PICK g \in Handoffs :
            /\ handoff[g].run = None
            /\ handoff' = [handoff EXCEPT ![g] = [run |-> x.run, purpose |-> x.purpose]]
      BY <1>10 DEF SaveHandoff
    <2>2. /\ UNCHANGED <<resetting, exchanging, reviewing, stage, certifiedBy, revokedBy>>
          /\ issuing' \subseteq issuing
      BY <1>10 DEF SaveHandoff
    <2>3. \A h \in consumed : handoff'[h] = handoff[h]
      BY <2>1 DEF CodesMatchDecisions, TypeOK
    <2>4. \A y \in exchanging \cup reviewing : handoff'[y.handoff] = handoff[y.handoff]
      BY <2>3 DEF CodesMatchDecisions, ExchangeInv
    <2> QED BY <2>2, <2>4 DEF HandlersOf
  <1>11. ASSUME NEW h \in Handoffs, ConsumeHandoff(h) PROVE Goal
    <2> DEFINE new == [handoff |-> h, checked |-> FALSE]
    <2>1. /\ exchanging' = exchanging \cup {new} /\ handoff[new.handoff].run # r
          /\ UNCHANGED <<resetting, issuing, reviewing, handoff, stage, certifiedBy, revokedBy>>
      BY <1>11, <1>n DEF ConsumeHandoff, Consumable
    <2> HIDE DEF new
    <2> QED BY <2>1 DEF HandlersOf
  <1>12. ASSUME NEW x \in exchanging, CheckRun(x) PROVE Goal
    <2> DEFINE new == [x EXCEPT !.checked = TRUE]
               q == handoff[x.handoff].run
    <2>1. /\ status' = GetRun(q)
          /\ exchanging' = (exchanging \ {x}) \cup (IF status'[q] = "active" THEN {new} ELSE {})
          /\ UNCHANGED <<resetting, issuing, reviewing, handoff, stage, certifiedBy, revokedBy>>
      BY <1>12 DEF CheckRun
    <2>2. new.handoff = x.handoff
      BY DEF TypeOK
    <2>3. q = r => status'[q] # "active"
      BY <2>1 DEF GetRun
    <2>4. \A y \in exchanging' : y \in exchanging \/ handoff[y.handoff].run # r
      <3> HIDE DEF new
      <3> QED BY <2>1, <2>2, <2>3
    <2> HIDE DEF new, q
    <2> QED BY <2>1, <2>4 DEF HandlersOf
  <1>13. ASSUME NEW h \in Handoffs, NEW decision \in Decision, RequestReview(h, decision)
         PROVE  Goal
    <2> DEFINE new == [handoff |-> h, epoch |-> Epoch(handoff[h].run), decision |-> decision]
    <2>1. /\ reviewing' = reviewing \cup {new} /\ handoff[new.handoff].run # r
          /\ UNCHANGED <<resetting, issuing, exchanging, handoff, stage, certifiedBy, revokedBy>>
      BY <1>13, <1>n DEF RequestReview, ReviewerScope, Authenticate
    <2> HIDE DEF new
    <2> QED BY <2>1 DEF HandlersOf
  <1>14. ASSUME NEW x \in reviewing, CommitReview(x) PROVE Goal
    <2> DEFINE q == handoff[x.handoff].run
    <2>1. q \in Runs
      BY DEF CodesMatchDecisions, TypeOK
    <2>2. /\ open[q] /\ stage' = [stage EXCEPT ![q] = x.decision]
          /\ certifiedBy' \in {certifiedBy, [certifiedBy EXCEPT ![q] = x.handoff]}
          /\ revokedBy' \in {revokedBy, [revokedBy EXCEPT ![q] = x.handoff]}
      BY <1>14 DEF CommitReview, ReviewStands
    <2>3. UNCHANGED <<handoff, resetting, issuing, exchanging>> /\ reviewing' \subseteq reviewing
      BY <1>14 DEF CommitReview
    <2> HIDE DEF q
    <2>4. Kept
      BY <1>5, <2>1, <2>2
    <2> QED BY <2>3, <2>4, NothingNew
  <1>15. Goal
    <2> HIDE DEF Goal, Quiet
    <2> QED
      BY <1>q, <1>1, <1>2, <1>3, <1>4, <1>6, <1>7, <1>8, <1>9, <1>10, <1>11, <1>12, <1>13,
         <1>14 DEF Next
  <1> QED BY <1>15

\* A reset is the end of a run: it stays reset, its evidence and the decisions on it
\* stay as they are and no request about it gets further, whatever reviews, pages and
\* exchanges were on their way when the reset committed (reset_atomically,
\* revoke_atomically, disposition_atomically, authenticate).
THEOREM ResetRunsStayClosed == Spec => ResetRunsAreOver
  <1> DEFINE Inv == CodesMatchDecisions /\ ExchangeInv /\ ClosedInv
  <1>1. Init => Inv
    BY DEF Init, CodesMatchDecisions, ExchangeInv, ClosedInv
  <1>2. TypeOK /\ Inv /\ [Next]_vars => Inv'
    BY CodesMatchStep, ExchangeStep, ClosedStep
  <1>3. TypeOK /\ Inv /\ [Next]_vars
          => [\A r \in Runs : status[r] = "reset" =>
                /\ status'[r] = "reset"
                /\ UNCHANGED <<stage[r], certifiedBy[r], revokedBy[r]>>
                /\ HandlersOf(r)' \subseteq HandlersOf(r)]_vars
    <2> SUFFICES ASSUME TypeOK, Inv, [Next]_vars, NEW r \in Runs, status[r] = "reset"
                 PROVE  /\ status'[r] = "reset"
                        /\ UNCHANGED <<stage[r], certifiedBy[r], revokedBy[r]>>
                        /\ HandlersOf(r)' \subseteq HandlersOf(r)
      OBVIOUS
    <2>1. Allocates => status'[r] = "reset"
      BY AllocateFacts DEF Allocates
    <2>2. RowsStay => status'[r] = "reset"
      BY DEF RowsStay
    <2>3. status'[r] = "reset"
      BY <2>1, <2>2, RunsFrame
    <2> QED BY <2>3, ResetStep
  <1> HIDE DEF Inv
  <1> QED
    BY <1>1, <1>2, <1>3, RunsTypeCorrect, PTL DEF Spec, ResetRunsAreOver

\* A successor is one generation after the run it replaces, and rows that exist are
\* never allocated again.
GenerationInv ==
  /\ \A x \in allocating : status[x.run] # "absent"
  /\ \A r \in Runs : replaces[r] # None =>
       /\ status[r] # "absent" /\ status[replaces[r]] # "absent"
       /\ generation[r] = generation[replaces[r]] + 1
  /\ \A a \in applied : status[a[2]] # "absent"

\* Every step keeps it, and the pairs a page has changed.
LEMMA GenerationStep ==
  ASSUME TypeOK, TypeOK', GenerationInv, StalePreconditionRefused, [Next]_vars
  PROVE  GenerationInv' /\ StalePreconditionRefused'
  <1>t. /\ \A r \in Runs : generation[r] \in Nat /\ replaces[r] \in Runs \cup {None}
        /\ \A x \in allocating : x.run \in Runs
        /\ \A x \in allocating' : x.run \in Runs
        /\ \A a \in applied : a[1] \in Runs /\ a[2] \in Runs
        /\ \A a \in applied' : a[1] \in Runs /\ a[2] \in Runs
        /\ 0 \notin Runs
    BY IdsAssumption DEF TypeOK
  <1>1. CASE Allocates
    <2>1. PICK b, gen, old :
            /\ AllocateRun(b, gen, old)
            /\ allocating' \subseteq allocating /\ UNCHANGED applied
            /\ old = None \/ \E x \in allocating : old = x.run /\ gen = generation[old] + 1
      BY <1>1 DEF Allocates
    <2>2. PICK r \in Runs :
            /\ status[r] = "absent" /\ status'[r] = "active"
            /\ generation'[r] = gen /\ replaces'[r] = old
            /\ \A q \in Runs : q # r => /\ status'[q] = status[q]
                                        /\ generation'[q] = generation[q]
                                        /\ replaces'[q] = replaces[q]
      BY <2>1, AllocateFacts
    <2>3. old # None => /\ old \in Runs /\ status[old] # "absent"
                        /\ gen = generation[old] + 1
      BY <1>t, <2>1 DEF GenerationInv
    <2>4. \A q \in Runs : status[q] # "absent" => /\ q # r /\ status'[q] # "absent"
                                                  /\ generation'[q] = generation[q]
                                                  /\ replaces'[q] = replaces[q]
      BY <2>2
    <2>5. \A x \in allocating' : status'[x.run] # "absent"
      BY <1>t, <2>1, <2>4 DEF GenerationInv
    <2>6. ASSUME NEW q \in Runs, replaces'[q] # None
          PROVE  /\ status'[q] # "absent" /\ status'[replaces'[q]] # "absent"
                 /\ generation'[q] = generation'[replaces'[q]] + 1
      <3>1. CASE q = r
        BY <2>2, <2>3, <2>4, <2>6, <3>1
      <3>2. CASE q # r
        <4>1. replaces[q] # None /\ replaces[q] = replaces'[q] /\ generation'[q] = generation[q]
          BY <2>2, <2>6, <3>2
        <4>2. /\ status[q] # "absent" /\ status[replaces[q]] # "absent"
              /\ generation[q] = generation[replaces[q]] + 1 /\ replaces[q] \in Runs
          BY <1>t, <4>1 DEF GenerationInv
        <4> QED BY <2>4, <4>1, <4>2
      <3> QED BY <3>1, <3>2
    <2>7. \A a \in applied' : status'[a[2]] # "absent" /\ replaces'[a[2]] # a[1]
      BY <1>t, <2>1, <2>4 DEF GenerationInv, StalePreconditionRefused
    <2> QED BY <2>5, <2>6, <2>7 DEF GenerationInv, StalePreconditionRefused
  <1>2. CASE RowsStay
    <2>1. GenerationInv'
      BY <1>2, <1>t DEF RowsStay, GenerationInv
    <2>2. \A a \in applied' : replaces[a[2]] # a[1]
      <3> SUFFICES ASSUME NEW a \in applied', a \notin applied, replaces[a[2]] = a[1]
                   PROVE  FALSE
        BY DEF StalePreconditionRefused
      <3>1. generation[a[1]] = generation[a[2]] /\ a[1] \in Runs /\ a[2] \in Runs
        BY <1>2, <1>t DEF RowsStay
      <3>2. generation[a[2]] = generation[a[1]] + 1 /\ generation[a[1]] \in Nat
        BY <1>t, <3>1 DEF GenerationInv
      <3> QED BY <3>1, <3>2
    <2>3. StalePreconditionRefused'
      BY <1>2, <2>2 DEF RowsStay, StalePreconditionRefused
    <2> QED BY <2>1, <2>3
  <1> QED BY <1>1, <1>2, RunsFrame

\* A page of a run that was reset changes nothing in the run that replaced it,
\* although both share the browser's cookie and the same epochs come round again
\* (require_if_match, reset_operator_run).
THEOREM StalePagesAreRefused == Spec => []StalePreconditionRefused
  <1>1. Init => GenerationInv /\ StalePreconditionRefused
    BY DEF Init, GenerationInv, StalePreconditionRefused
  <1>2. TypeOK /\ TypeOK' /\ GenerationInv /\ StalePreconditionRefused /\ [Next]_vars
          => GenerationInv' /\ StalePreconditionRefused'
    BY GenerationStep
  <1> QED
    BY <1>1, <1>2, RunsTypeCorrect, PTL DEF Spec

-----------------------------------------------------------------------------
(* Capacity.                                                               *)

\* The runs that are current are finitely many, and within the limit.
CapacityInv == IsFiniteSet(ActiveRuns) /\ Cardinality(ActiveRuns) <= ActiveLimit

\* An allocation adds one run below the limit; nothing else makes a run current.
LEMMA CapacityStep ==
  ASSUME TypeOK, TypeOK', CapacityInv, [Next]_vars
  PROVE  CapacityInv'
  <1>0. Cardinality(ActiveRuns) \in Nat /\ ActiveLimit \in Nat
    BY FS_CardinalityType, JudgeLimitsAssumption DEF CapacityInv
  <1>1. CASE RowsStay
    <2>1. ActiveRuns' \subseteq ActiveRuns
      BY <1>1 DEF RowsStay, ActiveRuns, Current
    <2>2. /\ IsFiniteSet(ActiveRuns') /\ Cardinality(ActiveRuns') \in Nat
          /\ Cardinality(ActiveRuns') <= Cardinality(ActiveRuns)
      BY <2>1, FS_Subset, FS_CardinalityType DEF CapacityInv
    <2> QED BY <1>0, <2>2 DEF CapacityInv
  <1>2. CASE Allocates
    <2>1. PICK r \in Runs :
            /\ status[r] = "absent" /\ status'[r] = "active"
            /\ \A q \in Runs : q # r => status'[q] = status[q]
            /\ UNCHANGED runPast /\ Capacity
      BY <1>2, AllocateFacts DEF Allocates
    <2>2. r \notin ActiveRuns /\ ActiveRuns' \subseteq ActiveRuns \cup {r}
      BY <2>1 DEF ActiveRuns, Current
    <2>3. /\ IsFiniteSet(ActiveRuns \cup {r})
          /\ Cardinality(ActiveRuns \cup {r}) = Cardinality(ActiveRuns) + 1
      BY <2>2, FS_AddElement DEF CapacityInv
    <2>4. /\ IsFiniteSet(ActiveRuns') /\ Cardinality(ActiveRuns') \in Nat
          /\ Cardinality(ActiveRuns') <= Cardinality(ActiveRuns \cup {r})
      BY <2>2, <2>3, FS_Subset, FS_CardinalityType
    <2>5. Cardinality(ActiveRuns) < ActiveLimit
      BY <2>1 DEF Capacity
    <2> QED BY <1>0, <2>3, <2>4, <2>5 DEF CapacityInv
  <1> QED BY <1>1, <1>2, RunsFrame

\* However launches and resets interleave, no more runs are current than the
\* configured limit (save_run counts and inserts in one transaction).
THEOREM CapacityIsHeld == Spec => []CapacityHeld
  <1>1. Init => CapacityInv
    <2> SUFFICES ASSUME Init PROVE CapacityInv
      OBVIOUS
    <2>1. ActiveRuns = {}
      BY DEF Init, ActiveRuns, Current
    <2> QED BY <2>1, FS_EmptySet, JudgeLimitsAssumption DEF CapacityInv
  <1>2. TypeOK /\ TypeOK' /\ CapacityInv /\ [Next]_vars => CapacityInv'
    BY CapacityStep
  <1>3. CapacityInv => CapacityHeld
    BY DEF CapacityInv, CapacityHeld, ActiveRuns
  <1> QED
    BY <1>1, <1>2, <1>3, RunsTypeCorrect, PTL DEF Spec
====
