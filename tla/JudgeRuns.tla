----------------------------- MODULE JudgeRuns -----------------------------
(***************************************************************************)
(* Judge runs, their sessions and their reviewer handoffs: sessions.py     *)
(* (PostgresJudgeSessionRepository), JudgeSessionAuthenticator (auth.py)   *)
(* and the handlers of api.py that launch, reset, hand over and review a   *)
(* run.                                                                    *)
(*                                                                         *)
(* None of these handlers is one transaction.  Launching commits the run   *)
(* and then the session; a reset commits the end of the old run, then the  *)
(* new run, then its session; issuing a handoff reads the evidence and     *)
(* then saves; exchanging one consumes it, reads the run and then saves    *)
(* the reviewer's session; a review authenticates and then commits.  A     *)
(* handler between two of its transactions is a member of a set.           *)
(*                                                                         *)
(* Of the workflow of a run only the stages a handoff depends on are kept; *)
(* module RunAuthority has the rest.  The operator session of a run is     *)
(* named by the run, the session and the fresh subject of a reviewer by    *)
(* the handoff they come from.                                             *)
(***************************************************************************)
EXTENDS Naturals, FiniteSets

CONSTANTS
  Runs,         \* bound: the run ids that can be allocated, 1, 2, ...
  Handoffs,     \* bound: the handoff codes that can be issued, 1, 2, ...
  Browsers,     \* visitors, each with one operator cookie
  ActiveLimit,  \* settings.judge_active_run_limit
  CrashAllowed, \* may the API process die between two transactions
  MaxPages,     \* bound: pages that remember a precondition
  MaxHandlers   \* bound: handlers between two transactions

ASSUME IdsAssumption ==
  /\ Runs \subseteq Nat \ {0}
  /\ Handoffs \subseteq Nat \ {0}

ASSUME JudgeLimitsAssumption ==
  /\ ActiveLimit \in Nat \ {0}
  /\ MaxPages \in Nat
  /\ MaxHandlers \in Nat
  /\ CrashAllowed \in BOOLEAN

VARIABLES
  status,      \* judge_runs.status, "absent" before the row exists
  runPast,     \* judge_runs.expires_at <= now()
  generation,  \* judge_runs.generation
  replaces,    \* history: the run whose reset allocated this one
  stage,       \* how far the evidence of the run has come
  open,        \* webmcp_workflows.active
  operators,   \* state of the operator session of each run
  reviewers,   \* state of the reviewer session of each handoff
  handoff,     \* run and purpose of each review_handoffs row
  consumed,    \* the handoffs with consumed_at
  withdrawn,   \* the handoffs with revoked_at
  lapsed,      \* the handoffs with expires_at <= now()
  certifiedBy, \* the reviewer who decided on the evidence of a run
  revokedBy,   \* the reviewer who revoked it
  cookie,      \* the run the operator cookie of a browser is bound to
  pages,       \* open pages with the precondition they have read
  applied,     \* history: the run a proposal was read from and the run it changed
  resetting,   \* reset_operator_run, authenticated
  allocating,  \* reset_operator_run, the old run reset
  starting,    \* allocate_run, the run committed
  issuing,     \* create_reviewer_handoff, the evidence read
  exchanging,  \* exchange_reviewer_handoff, the code consumed
  reviewing    \* a reviewer's request, scope and precondition checked

runRows == <<status, runPast, generation, replaces>>
codes == <<handoff, consumed, withdrawn, lapsed>>
sessionRows == <<operators, reviewers, codes>>
evidence == <<stage, open, certifiedBy, revokedBy>>
browser == <<cookie, pages, applied>>
handlers == <<resetting, allocating, starting, issuing, exchanging, reviewing>>
vars == <<runRows, sessionRows, evidence, browser, handlers>>

None == 0
Stage == {"open", "proposed", "pending", "active", "withheld", "revoked"}
SessionState == {"none", "live", "revoked", "over"}
HandoffPurpose == {"initial_review", "revocation"}
Decision == {"active", "withheld", "revoked"}

NoHandoff == [run |-> None, purpose |-> "initial_review"]

\* The epoch of the coordinator's row, counting only the stages kept here and the
\* invalidation.
Epoch(r) ==
  LET moves == CASE stage[r] = "open" -> 1
                 [] stage[r] = "proposed" -> 2
                 [] stage[r] = "pending" -> 3
                 [] OTHER -> 4
  IN  IF open[r] THEN moves ELSE moves + 1

Init ==
  /\ status = [r \in Runs |-> "absent"]
  /\ runPast = [r \in Runs |-> FALSE]
  /\ generation = [r \in Runs |-> 1]
  /\ replaces = [r \in Runs |-> None]
  /\ stage = [r \in Runs |-> "open"]
  /\ open = [r \in Runs |-> TRUE]
  /\ operators = [r \in Runs |-> "none"]
  /\ reviewers = [h \in Handoffs |-> "none"]
  /\ handoff = [h \in Handoffs |-> NoHandoff]
  /\ consumed = {} /\ withdrawn = {} /\ lapsed = {}
  /\ certifiedBy = [r \in Runs |-> None]
  /\ revokedBy = [r \in Runs |-> None]
  /\ cookie = [b \in Browsers |-> None]
  /\ pages = {} /\ applied = {}
  /\ resetting = {} /\ allocating = {} /\ starting = {}
  /\ issuing = {} /\ exchanging = {} /\ reviewing = {}

\* A handler is admitted while fewer than MaxHandlers are between transactions.
Admit ==
  Cardinality(resetting) + Cardinality(allocating) + Cardinality(starting)
    + Cardinality(issuing) + Cardinality(exchanging) + Cardinality(reviewing) < MaxHandlers

-----------------------------------------------------------------------------
(* Runs, sessions and authentication.                                      *)

\* A run answers while it is active and its time has not come.
Current(r) == status[r] = "active" /\ ~runPast[r]

\* Mutant: the count reads the status alone, which only get_run ever updates.
ActiveRunsByStatus == {r \in Runs : status[r] = "active"}

\* What save_run counts.
ActiveRuns == {r \in Runs : Current(r)}

\* Mutant: the limit is compared with > instead of >=.
CapacityOneMore == Cardinality(ActiveRuns) <= ActiveLimit

Capacity == Cardinality(ActiveRuns) < ActiveLimit

\* authenticate: the session is neither revoked nor over and its run is current.
Authenticate(session, r) == session = "live" /\ Current(r)

OperatorOf(b) == cookie[b] # None /\ Authenticate(operators[cookie[b]], cookie[b])

\* Mutant: get_run writes a status the table does not know.
GetRunAsPast(r) ==
  IF status[r] = "active" /\ runPast[r] THEN [status EXCEPT ![r] = "past"] ELSE status

\* get_run marks a run whose time has come before it answers.
GetRun(r) ==
  IF status[r] = "active" /\ runPast[r] THEN [status EXCEPT ![r] = "expired"] ELSE status

\* The transaction of allocate_run: run row, incident, workflow and genesis event.
AllocateRun(b, gen, old) ==
  /\ Capacity
  /\ \E r \in Runs :
       /\ status[r] = "absent"
       /\ \A s \in Runs : status[s] = "absent" => r <= s
       /\ status' = [status EXCEPT ![r] = "active"]
       /\ generation' = [generation EXCEPT ![r] = gen]
       /\ replaces' = [replaces EXCEPT ![r] = old]
       /\ starting' = starting \cup {[browser |-> b, run |-> r]}
  /\ UNCHANGED runPast

\* create_judge_run; without capacity it answers 503 and changes nothing.
Launch(b) ==
  /\ Admit
  /\ AllocateRun(b, 1, None)
  /\ UNCHANGED <<sessionRows, evidence, browser, resetting, allocating, issuing,
                 exchanging, reviewing>>

\* create_session of a started run; its answer sets the cookie, or is lost.
StartSession(x) ==
  /\ operators' = [operators EXCEPT ![x.run] = "live"]
  /\ \/ cookie' = [cookie EXCEPT ![x.browser] = x.run]
     \/ UNCHANGED cookie
  /\ starting' = starting \ {x}
  /\ UNCHANGED <<runRows, reviewers, codes, evidence, pages, applied, resetting,
                 allocating, issuing, exchanging, reviewing>>

\* logout_judge_session.
Logout(b) ==
  /\ OperatorOf(b)
  /\ operators' = [operators EXCEPT ![cookie[b]] = "revoked"]
  /\ cookie' = [cookie EXCEPT ![b] = None]
  /\ UNCHANGED <<runRows, reviewers, codes, evidence, pages, applied, handlers>>

-----------------------------------------------------------------------------
(* Reset.                                                                  *)

\* reset_operator_run up to its transaction.
RequestReset(b) ==
  /\ Admit
  /\ OperatorOf(b)
  /\ resetting' = resetting \cup {[browser |-> b, run |-> cookie[b], epoch |-> Epoch(cookie[b])]}
  /\ UNCHANGED <<runRows, sessionRows, evidence, browser, allocating, starting, issuing,
                 exchanging, reviewing>>

\* reset_workflow, the incident route: it closes the workflow and leaves the run.
ResetWorkflow(b) ==
  /\ OperatorOf(b)
  /\ open[cookie[b]]
  /\ open' = [open EXCEPT ![cookie[b]] = FALSE]
  /\ UNCHANGED <<runRows, sessionRows, stage, certifiedBy, revokedBy, browser, handlers>>

\* reset_run: the run, its sessions and its unconsumed handoffs in one transaction.
ResetRun(r) ==
  /\ status' = [status EXCEPT ![r] = "reset"]
  /\ operators' = [operators EXCEPT ![r] = IF @ = "none" THEN @ ELSE "revoked"]
  /\ reviewers' = [h \in Handoffs |->
       IF handoff[h].run = r /\ reviewers[h] # "none" THEN "revoked" ELSE reviewers[h]]
  /\ withdrawn' = withdrawn \cup {h \in Handoffs \ consumed : handoff[h].run = r}

\* reset_run finds the run current and invalidate the workflow open and unmoved.
ResetStands(x) == Current(x.run) /\ open[x.run] /\ x.epoch = Epoch(x.run)

\* reset_atomically; the request may have been sent twice.
ResetAtomically(x) ==
  /\ ResetStands(x)
  /\ ResetRun(x.run)
  /\ open' = [open EXCEPT ![x.run] = FALSE]
  /\ resetting' \in {resetting, resetting \ {x}}
  /\ allocating' = allocating \cup {[browser |-> x.browser, run |-> x.run]}
  /\ UNCHANGED <<runPast, generation, replaces, handoff, consumed, lapsed, stage, certifiedBy,
                 revokedBy, browser, starting, issuing, exchanging, reviewing>>

\* Otherwise the transaction is rolled back.
ResetConflict(x) ==
  /\ ~ResetStands(x)
  /\ resetting' = resetting \ {x}
  /\ UNCHANGED <<runRows, sessionRows, evidence, browser, allocating, starting, issuing,
                 exchanging, reviewing>>

\* Mutant: the successor keeps the generation of the run it replaces.
SameGeneration(r) == generation[r]

NextGeneration(r) == generation[r] + 1

\* The rest of reset_operator_run: the successor run.
AllocateSuccessor(x) ==
  /\ AllocateRun(x.browser, NextGeneration(x.run), x.run)
  /\ allocating' = allocating \ {x}
  /\ UNCHANGED <<sessionRows, evidence, browser, resetting, issuing, exchanging, reviewing>>

\* JudgeRunCapacityError is not caught: the request fails, the old run stays reset.
SuccessorRefused(x) ==
  /\ ~Capacity
  /\ allocating' = allocating \ {x}
  /\ UNCHANGED <<runRows, sessionRows, evidence, browser, resetting, starting, issuing,
                 exchanging, reviewing>>

-----------------------------------------------------------------------------
(* Pages and proposals.                                                    *)

\* A page reads run and epoch of the run its browser's cookie selects.
OpenPage(b) ==
  /\ OperatorOf(b)
  /\ Cardinality(pages) < MaxPages
  /\ pages' = pages \cup {[browser |-> b, run |-> cookie[b], epoch |-> Epoch(cookie[b])]}
  /\ UNCHANGED <<runRows, sessionRows, evidence, cookie, applied, handlers>>

ClosePage(p) ==
  /\ pages' = pages \ {p}
  /\ UNCHANGED <<runRows, sessionRows, evidence, cookie, applied, handlers>>

\* require_if_match: the precondition names a generation and an epoch.
IfMatch(p, r) == generation[p.run] = generation[r] /\ p.epoch = Epoch(r)

\* propose_webmcp_mitigation for a page whose cookie may have changed since it read.
Propose(p) ==
  LET r == cookie[p.browser] IN
  /\ OperatorOf(p.browser)
  /\ IfMatch(p, r)
  /\ open[r] /\ stage[r] = "open"
  /\ stage' = [stage EXCEPT ![r] = "proposed"]
  /\ applied' = applied \cup {<<p.run, r>>}
  /\ UNCHANGED <<runRows, sessionRows, open, certifiedBy, revokedBy, cookie, pages, handlers>>

\* Approval, execution, observation and assessment of the proposal (RunAuthority).
Assess(r) ==
  /\ Current(r)
  /\ open[r] /\ stage[r] = "proposed"
  /\ stage' = [stage EXCEPT ![r] = "pending"]
  /\ UNCHANGED <<runRows, sessionRows, open, certifiedBy, revokedBy, browser, handlers>>

-----------------------------------------------------------------------------
(* Handoffs and reviews.                                                   *)

\* Mutant: review_target looks at the workflow and not at the memory.
ReviewTargetByWorkflow(r, purpose) ==
  /\ open[r]
  /\ stage[r] \in IF purpose = "initial_review" THEN {"pending"}
                  ELSE {"active", "withheld", "revoked"}

\* review_target: evidence pending for a review, active for a revocation.
ReviewTarget(r, purpose) ==
  /\ open[r]
  /\ stage[r] = IF purpose = "initial_review" THEN "pending" ELSE "active"

\* create_reviewer_handoff up to save_handoff.
RequestHandoff(b, purpose) ==
  /\ Admit
  /\ OperatorOf(b)
  /\ ReviewTarget(cookie[b], purpose)
  /\ issuing' = issuing \cup {[run |-> cookie[b], purpose |-> purpose]}
  /\ UNCHANGED <<runRows, sessionRows, evidence, browser, resetting, allocating, starting,
                 exchanging, reviewing>>

\* save_handoff: a fresh code.
SaveHandoff(x) ==
  /\ \E h \in Handoffs :
       /\ handoff[h].run = None
       /\ \A g \in Handoffs : handoff[g].run = None => h <= g
       /\ handoff' = [handoff EXCEPT ![h] = [run |-> x.run, purpose |-> x.purpose]]
  /\ issuing' = issuing \ {x}
  /\ UNCHANGED <<runRows, operators, reviewers, consumed, withdrawn, lapsed, evidence, browser,
                 resetting, allocating, starting, exchanging, reviewing>>

\* Mutant: the UPDATE does not ask for consumed_at IS NULL.
ConsumableAgain(h) ==
  /\ handoff[h].run # None
  /\ h \notin withdrawn \cup lapsed
  /\ Current(handoff[h].run)

Consumable(h) ==
  /\ handoff[h].run # None
  /\ h \notin consumed \cup withdrawn \cup lapsed
  /\ Current(handoff[h].run)

\* exchange_reviewer_handoff up to consume_handoff.
ConsumeHandoff(h) ==
  /\ Admit
  /\ Consumable(h)
  /\ consumed' = consumed \cup {h}
  /\ exchanging' = exchanging \cup {[handoff |-> h, checked |-> FALSE]}
  /\ UNCHANGED <<runRows, operators, reviewers, handoff, withdrawn, lapsed, evidence, browser,
                 resetting, allocating, starting, issuing, reviewing>>

\* The handler reads the run again and goes on only if it is active.
CheckRun(x) ==
  LET r == handoff[x.handoff].run IN
  /\ ~x.checked
  /\ status' = GetRun(r)
  /\ exchanging' = (exchanging \ {x}) \cup
       (IF status'[r] = "active" THEN {[x EXCEPT !.checked = TRUE]} ELSE {})
  /\ UNCHANGED <<runPast, generation, replaces, sessionRows, evidence, browser, resetting, allocating,
                 starting, issuing, reviewing>>

\* create_session for the reviewer: it reads the run once more, but not its status;
\* a second session of one handoff violates a unique index.
SaveReviewer(x) ==
  /\ x.checked
  /\ status' = GetRun(handoff[x.handoff].run)
  /\ reviewers' = [reviewers EXCEPT ![x.handoff] = IF @ = "none" THEN "live" ELSE @]
  /\ exchanging' = exchanging \ {x}
  /\ UNCHANGED <<runPast, generation, replaces, operators, codes, evidence, browser, resetting,
                 allocating, starting, issuing, reviewing>>

\* Mutant: reviewer_scope forgets the expected purpose.
ScopeOfAnyPurpose(h, purpose) ==
  /\ Authenticate(reviewers[h], handoff[h].run)
  /\ h \in consumed \ (withdrawn \cup lapsed)

\* reviewer_scope.
ReviewerScope(h, purpose) ==
  /\ Authenticate(reviewers[h], handoff[h].run)
  /\ h \in consumed \ (withdrawn \cup lapsed)
  /\ handoff[h].purpose = purpose

PurposeOf(decision) == IF decision = "revoked" THEN "revocation" ELSE "initial_review"

\* A reviewer's disposition or revocation up to its transaction.
RequestReview(h, decision) ==
  /\ Admit
  /\ ReviewerScope(h, PurposeOf(decision))
  /\ reviewing' = reviewing \cup
       {[handoff |-> h, epoch |-> Epoch(handoff[h].run), decision |-> decision]}
  /\ UNCHANGED <<runRows, sessionRows, evidence, browser, resetting, allocating, starting,
                 issuing, exchanging>>

\* Mutant: the transaction looks at the memory again and not at the workflow.
ReviewStandsByMemory(x) ==
  stage[handoff[x.handoff].run] = IF x.decision = "revoked" THEN "active" ELSE "pending"

\* The transaction's own conditions: the workflow has not moved and is not
\* invalidated, the evidence is in the state the decision is about.
ReviewStands(x) ==
  LET r == handoff[x.handoff].run IN
  /\ open[r]
  /\ x.epoch = Epoch(r)
  /\ stage[r] = IF x.decision = "revoked" THEN "active" ELSE "pending"

\* disposition_atomically and revoke_atomically.
CommitReview(x) ==
  LET r == handoff[x.handoff].run IN
  /\ ReviewStands(x)
  /\ stage' = [stage EXCEPT ![r] = x.decision]
  /\ IF x.decision = "revoked"
       THEN revokedBy' = [revokedBy EXCEPT ![r] = x.handoff] /\ UNCHANGED certifiedBy
       ELSE certifiedBy' = [certifiedBy EXCEPT ![r] = x.handoff] /\ UNCHANGED revokedBy
  /\ reviewing' = reviewing \ {x}
  /\ UNCHANGED <<runRows, sessionRows, open, browser, resetting, allocating, starting, issuing,
                 exchanging>>

ReviewConflict(x) ==
  /\ ~ReviewStands(x)
  /\ reviewing' = reviewing \ {x}
  /\ UNCHANGED <<runRows, sessionRows, evidence, browser, resetting, allocating, starting,
                 issuing, exchanging>>

-----------------------------------------------------------------------------
(* Time and crashes.                                                       *)

RunPasses(r) ==
  /\ status[r] # "absent" /\ ~runPast[r]
  /\ runPast' = [runPast EXCEPT ![r] = TRUE]
  /\ UNCHANGED <<status, generation, replaces, sessionRows, evidence, browser, handlers>>

HandoffPasses(h) ==
  /\ handoff[h].run # None /\ h \notin lapsed
  /\ lapsed' = lapsed \cup {h}
  /\ UNCHANGED <<runRows, operators, reviewers, handoff, consumed, withdrawn, evidence, browser, handlers>>

SessionPasses(r) ==
  /\ operators[r] = "live"
  /\ operators' = [operators EXCEPT ![r] = "over"]
  /\ UNCHANGED <<runRows, reviewers, codes, evidence, browser, handlers>>

\* The process dies: every handler it was running ends where it is.
Crash ==
  /\ CrashAllowed
  /\ resetting' = {} /\ allocating' = {} /\ starting' = {}
  /\ issuing' = {} /\ exchanging' = {} /\ reviewing' = {}
  /\ handlers # handlers'
  /\ UNCHANGED <<runRows, sessionRows, evidence, browser>>

Next ==
  \/ \E b \in Browsers : Launch(b) \/ Logout(b) \/ RequestReset(b) \/ ResetWorkflow(b) \/ OpenPage(b)
  \/ \E b \in Browsers, purpose \in HandoffPurpose : RequestHandoff(b, purpose)
  \/ \E x \in starting : StartSession(x)
  \/ \E x \in resetting : ResetAtomically(x) \/ ResetConflict(x)
  \/ \E x \in allocating : AllocateSuccessor(x) \/ SuccessorRefused(x)
  \/ \E p \in pages : ClosePage(p) \/ Propose(p)
  \/ \E x \in issuing : SaveHandoff(x)
  \/ \E h \in Handoffs : ConsumeHandoff(h)
  \/ \E x \in exchanging : CheckRun(x) \/ SaveReviewer(x)
  \/ \E h \in Handoffs, decision \in Decision : RequestReview(h, decision)
  \/ \E x \in reviewing : CommitReview(x) \/ ReviewConflict(x)
  \/ \E r \in Runs : Assess(r) \/ RunPasses(r) \/ SessionPasses(r)
  \/ \E h \in Handoffs : HandoffPasses(h)
  \/ Crash

\* Only time is obliged to go on: nobody has to act on a run again.
Fairness == \A r \in Runs : WF_vars(RunPasses(r))

Spec == Init /\ [][Next]_vars /\ Fairness

-----------------------------------------------------------------------------
(* Properties.                                                             *)

\* Every row, cookie and handler has the shape its table or request gives it.
TypeOK ==
  /\ status \in [Runs -> {"absent", "active", "reset", "expired"}]
  /\ runPast \in [Runs -> BOOLEAN]
  /\ generation \in [Runs -> Nat]
  /\ replaces \in [Runs -> Runs \cup {None}]
  /\ stage \in [Runs -> Stage]
  /\ open \in [Runs -> BOOLEAN]
  /\ operators \in [Runs -> SessionState]
  /\ reviewers \in [Handoffs -> SessionState]
  /\ handoff \in [Handoffs -> [run : Runs \cup {None}, purpose : HandoffPurpose]]
  /\ consumed \subseteq Handoffs /\ withdrawn \subseteq Handoffs /\ lapsed \subseteq Handoffs
  /\ certifiedBy \in [Runs -> Handoffs \cup {None}]
  /\ revokedBy \in [Runs -> Handoffs \cup {None}]
  /\ cookie \in [Browsers -> Runs \cup {None}]
  /\ pages \subseteq [browser : Browsers, run : Runs, epoch : Nat]
  /\ applied \subseteq Runs \X Runs
  /\ resetting \subseteq [browser : Browsers, run : Runs, epoch : Nat]
  /\ allocating \subseteq [browser : Browsers, run : Runs]
  /\ starting \subseteq [browser : Browsers, run : Runs]
  /\ issuing \subseteq [run : Runs, purpose : HandoffPurpose]
  /\ exchanging \subseteq [handoff : Handoffs, checked : BOOLEAN]
  /\ reviewing \subseteq [handoff : Handoffs, epoch : Nat, decision : Decision]

\* However launches and resets interleave, no more runs are current than the
\* configured limit (save_run counts and inserts in one transaction).
CapacityHeld == Cardinality({r \in Runs : Current(r)}) <= ActiveLimit

\* A full house empties with time alone: runs nobody ever reads again, whose
\* status therefore still says active, give their places back (save_run).
CapacityReturns == ~Capacity ~> Capacity

\* A reviewer code is exchanged once: one exchange in progress or one reviewer
\* session, and only of a consumed code (consume_handoff).
CodeExchangedOnce ==
  \A h \in Handoffs :
    LET exchanges == {x \in exchanging : x.handoff = h}
        sessions == IF reviewers[h] = "none" THEN 0 ELSE 1
    IN  /\ Cardinality(exchanges) + sessions <= 1
        /\ Cardinality(exchanges) + sessions = 1 => h \in consumed

\* The requests about a run that are between two transactions.
HandlersOf(r) ==
  {x \in resetting \cup issuing : x.run = r}
    \cup {x \in exchanging \cup reviewing : handoff[x.handoff].run = r}

\* A reset is the end of a run.  Reviews that had passed reviewer_scope, pages that
\* had read the precondition and exchanges that had consumed their code may all still
\* be on their way; yet the run stays reset, its evidence and the decisions on it stay
\* as they are, and no request about it gets any further, not even through a
\* reviewer's session saved after the reset (reset_atomically, revoke_atomically,
\* disposition_atomically, authenticate).
ResetRunsAreOver ==
  [][\A r \in Runs : status[r] = "reset" =>
       /\ status'[r] = "reset"
       /\ UNCHANGED <<stage[r], certifiedBy[r], revokedBy[r]>>
       /\ HandlersOf(r)' \subseteq HandlersOf(r)]_vars

\* No subject both decides on evidence and revokes it: a code carries one purpose
\* and every code mints its own subject (reviewer_scope).
CertifierNeverRevokes == \A r \in Runs : revokedBy[r] # None => revokedBy[r] # certifiedBy[r]

\* No review code exists before the evidence is pending, and no revocation code
\* for evidence that was never certified, although the evidence is read in one
\* transaction and the code saved in another (create_reviewer_handoff).
LinkFollowsEvidence ==
  \A h \in Handoffs : handoff[h].run # None =>
    stage[handoff[h].run] \in
      IF handoff[h].purpose = "initial_review" THEN Stage \ {"open", "proposed"}
      ELSE {"active", "revoked"}

\* A page of a run that was reset changes nothing in the run that replaced it,
\* although both share the browser's cookie and the same epochs come round again:
\* the precondition names the generation (require_if_match, reset_operator_run).
StalePreconditionRefused == \A a \in applied : replaces[a[2]] # a[1]
====
