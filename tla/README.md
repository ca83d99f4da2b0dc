# RecallOps: specifications, model checking and proofs

RecallOps (`src/`) lets an agent propose a mitigation for an incident, a human
operator approve and execute it in a sandbox, the system observe the result, the
agent assess it, and an independent reviewer decide whether the outcome becomes
memory that later agents may recall. All of the authority is in the order of these
steps and in who takes them. The modules here model that order: the handlers of
`api.py`, the rows their transactions write, the workers behind them, the retrieval
that decides what is recalled, the page that offers tools to an agent, and the crashes,
repeats and late requests that real clients add.

Paths below are relative to `src/src/recallops/` unless they say otherwise.

## 1. Inventory

| Component | State | Operations | What makes it correct |
|---|---|---|---|
| Workflow coordinator (`workflow.py`) | one `webmcp_workflows` row per incident: state, epoch, active, operator and reviewer subject | `initialize`, `transition` (compare-and-set on state and epoch), `invalidate` | every move spends one epoch, follows an edge of the table, is taken by the role, channel and subject the source state demands; an inactive row is frozen |
| Authority ledger (`ledger.py`) | append-only `authority_events` per run, hash-chained, with a head | `append_transition`, `read_prefix`, `verify_events` | written in the transaction of the move it records; the prefix determines the workflow |
| Governed handlers (`api.py` 1246-2330) | none of their own; in-flight requests | proposal, approval, sandbox execution, postcheck retry, assessment, disposition, revocation, resets; in the service mode attestation, outcome, governance | a handler reads outside and writes inside one serializable transaction; what it read may be stale |
| WebMCP idempotency (`api.py` 700-780) | `webmcp_idempotency` rows | claim a key, replay, store the response | a repeated call is answered, never re-executed, never refused |
| Approval, execution, postcheck (`store.py`, `service.py`, `sandbox.py`) | `approvals`, `sandbox_executions`, `postcheck_observations`, verdicts, assessments | record once, look up | evidence exists exactly when its stage was earned, across retries and telemetry outages |
| Memory governance (`store.py`, migration 031) | `memories` row with state and `governance_version` | persist pending, certify, quarantine, reject, activate, revoke, supersede, expire | active only by an independent reviewer, never inconclusive |
| WebMCP manifest (`api.py`, `webmcp_contracts.py`) | derived | tools of a state, etag | the etag changes whenever the tools do |
| Receipt queue (`receipt_outbox.py`) | `receipt_requests`, `authority_receipts` | request, claim under a lease, finalize, release with back-off, dead-letter | the two rows agree; a settled request stays settled |
| Receipt worker (`receipt_finalizer.py`) | the step it is at | load, build and sign, upload, finalize; `--watch` polling | every request settles; attempts build the same bytes |
| Bundle archive (`authority_archive.py`) | write-once S3 objects | put if absent, reconcile | an object under a key is the one the receipt names |
| Judge sessions, runs, handoffs (`sessions.py`, `auth.py`) | sessions, runs with expiry, one-time handoffs, attempt counters | create, expire, reset, hand off, exchange | capacity, one exchange per handoff, nothing after a reset |
| Evidence outbox (`outbox.py`, `evidence.py`, `archive.py`) | `evidence_outbox` rows: attempts, availability, claim, delivered and dead-letter times, no status | enqueue with the analysis, claim under a lease, put, acknowledge, release with back-off, dead-letter | settled once and for good; delivered means archived; every message settles |
| Retrieval, ranking and abstention (`store.py`, `service.py`, `embedding.py`) | `memories` and `incidents` rows | prepare an analysis, save it under its key, recurrence view | only eligible memories, best first, safe ones not crowded out; one analysis per key |
| Receipt signing and bundle verification (`receipts.py`, `authority_bundle.py`, `canonical.py`, `public_bundles.py`) | none | check a prefix, canonicalize, sign, download, verify offline | every review that asked for a receipt can be signed |
| Browser tool registry (`static/webmcp.js`) | map of registrations, abort controllers, suspended calls | `reconcile` with the tools of a manifest | one owner per tool; no withdrawn tool stays; none is forgotten |
| Operator and reviewer pages (`static/app.js`, `static/reviewer.js`) | shown phase and epoch, tools, etag, requests in flight | poll, apply, decide, degrade, reload | the tools offered to the agent end up as the server's |
| Release evidence and evaluation, migrations, maintenance, configuration | files | batch jobs | outside the run-time authority |

How they interact: a handler authenticates, reads the workflow, and calls
`authority_transaction`, in which the coordinator row, the ledger event, the evidence
rows, the receipt request and the idempotency row are committed together. The sandbox
and retry handlers have two transactions with a telemetry call in between. A reset of
the judge run, a revocation and the run's expiry come from other requests at any time.
A review's receipt request is all that connects the API to the receipt workers, which
are separate processes that poll the queue; they re-read ledger and memory when they
load a request. Saving an analysis is, in the same way, all that connects it to the
evidence workers. The operator page learns of the workflow by polling the manifest and
from the answers of its own decisions, and hands the tools it is told of to the registry.

What is hard here: requests that commit in another order than they were authenticated
in; repeats of a call whose answer was lost; a process that dies between its two
transactions; telemetry that fails after the action was applied; leases that run out
under a live worker; a reset or a revocation that overtakes a queued receipt; answers that
reach a page out of order while the registrations of an older one are still awaited;
candidates crowded out of a bounded pool. Each is
in `PROJECT.json` under `hazards`, at its line, with the property that covers it.

## 2. Modules

| Module | Models |
|---|---|
| `AuthorityWorkflow` | the abstract promise: a stage, an epoch, an open flag and "is the evidence recallable", without transactions, requests, rows or ledger |
| `RunAuthority` | one governed workflow: coordinator, ledger, evidence rows, idempotency, receipt request, the handlers of both modes |
| `RunAuthority_proofs` | types, ledger, reset, evidence and receipt requests of `RunAuthority` |
| `AuthorityHistory_proofs` | the theorems of `RunAuthority` about histories (certification, sandbox, idempotency, recall chain, etag) and the refinement |
| `ReceiptBinding` | what the receipt worker demands of a ledger prefix, over the ledger of `RunAuthority` |
| `ReceiptBinding_proofs` | every requested prefix can be signed, if and only if its assessment is bound |
| `ReceiptFinalizer`, `ReceiptFinalizer_proofs` | receipt queue, workers and archive; their theorems |
| `EvidenceOutbox`, `EvidenceOutbox_proofs` | the evidence outbox, its workers and bucket; their theorems |
| `MemoryRecall`, `MemoryRecall_proofs` | retrieval, ranking, abstention, saving of analyses and governance over several memories; their theorems |
| `ToolRegistry` | `reconcile` of the browser tool registry |
| `OperatorPage`, `OperatorPage_proofs` | the operator page between server and registry (extends `ToolRegistry`); the theorems of both |
| `JudgeRuns` | judge runs with their expiry and capacity, operator and reviewer sessions, reviewer handoffs, and the handlers that launch, reset, hand over and review |
| `JudgeRuns_proofs` | the theorems about `JudgeRuns` |
| `MCRunAuthority`, `MCReceiptFinalizer`, `MCEvidenceOutbox`, `MCMemoryRecall`, `MCOperatorPage`, `MCJudgeRuns` | subjects, keys, workers, memories, runs, codes and symmetry for TLC |

### RunAuthority

*State.* `wf` is the coordinator's row, `ledger` its authority events (who, what,
before, after: digests and hash chain are abstracted to the sequence itself), `run` the
judge run's status, `approval`, `execution`, `verdict`, `assessment`, `memory` the rows
of `store.py`, `receipts` the target sequences of receipt requests, `idempotency` the
stored keys. `committed` is a history variable that records the keyed requests that took
effect; no guard reads it.

*Requests.* A request is `[route, epoch, who, key, arg]`. `Arrive` puts it in
`inflight` with the epoch its caller has read; `Handle` runs its transaction at any
later time and leaves it there, so that it may run again (a client repeating the call);
`Drop` removes it (a lost call, or an answer that was received). Handlers between their
two transactions are members of `observers`: `Collect` chooses what telemetry says,
`RecordObservation`, `MarkUnavailable` and `ObservationConflict` are the three ways the
second transaction ends, `CrashObserver` is the process dying there.

*Handlers.* `Propose`, `AssessWebMcp` (WebMCP, keyed), `Approve`, `ApplySandbox`,
`RetryPostcheck`, `RecordAssessment`, `Disposition`, `Revoke`, `ResetRun`,
`ResetWorkflow`, and in the service mode `AttestExecution`, `ObserveOutcome`,
`GovernRoute`. Each contains the guards of its handler in the code's order together with
everything its transaction writes; the rows it writes are operators of their own
(`RecordApproval`, `DecideApproval`, `PrepareExecution`, `RecordExecution`,
`RecordSandboxExecution`, `RecordPostcheck`, `RecordPostcheckAssessment`). A keyed call that the code answers 409 is the
action `RefuseKeyed` (it changes nothing) and the predicate `Refused`, so that a
property can speak of refusals. `Transition` and `Invalidate` are the coordinator's two
writes, `ValidTransition` its authority table, `GovernMemory` the governance procedure of
migration 031 with its version check.

*Modes.* `JudgeMode` is `auth_mode = "judge"`: one operator, server-derived agent and
reviewer subjects, legacy routes gone. Without it the service mode's routes exist and
subjects may hold several roles. `ApprovalRequired` is the set of values that
`proposed_action.requires_approval` may have; `Init` chooses one.

*Abstracted.* Payloads, digests, signatures and timestamps are the values they are
compared with (`Digest` of a keyed request is its precondition and argument, because
the run id, the generation and the workflow id are constant in one run).
A serializable transaction is one atomic step, with `run_serializable`'s retries
invisible. Requests refused by authentication, CSRF or schema are never in
`inflight`. An assessment builds its memory, embedding included, before the transaction
that looks its key up (`api.py` 1552-1556), so a repeat that finds the embedding service
down is answered 503 and may be sent again; `Refused`, and with it `ReplayNeverRefused`,
is about the 409 that would tell the agent its call had lost.

### ReceiptBinding

`build_manifest` signs a prefix only if `verify_ledger_prefix` accepts it (a chain from
genesis, one operator, one other reviewer) and the first event that reaches each state
binds the object the state calls for (`verify_causal_bindings`). `Signable` says this over
`RunAuthority`'s ledger, and `ReviewedIsSignable` that it holds of exactly those reviewed
prefixes whose assessment came through WebMCP. A digest is what it is a digest of; that recomputing
it gives the same value rests on the rows being written once (`EvidenceMatchesStage`).

*Assumed.* `recorded_at` does not decrease along the ledger. It is the wall clock of the API
process that writes the event (`ledger.py` 197), and `verify_ledger_prefix` also refuses a
prefix whose timestamps regress (`receipts.py` 285-286). The model has no time and leaves
this check out, so `ReviewedIsSignable`, and the theorem `ReviewsAreSignable`, speak of runs
during which no clock is set back and the clocks of the API's processes agree; otherwise a
review may stand whose receipt is dead-lettered. The other checks left out (build and policy
of the run, capabilities, outcome, channel, hashes) follow from the run row and the state.

### ReceiptFinalizer

*State.* Per request the queue row (`status`, `claimedBy`, `lease`, `attempts`, `due`),
the receipt row (`receipt`, `signed`), the object in the archive, and `exact`: whether
the target is still the ledger head and the memory still as reviewed. Per worker the step
of `run_once` it is at and the claim it holds. Time is the lease being `held` or `over`
and the back-off being `due` or not.

*Actions.* `Claim`, `Load`, `Sign`, `Persist`, `Deliver` and `Release` are the steps;
`FinalizeLate` and `ReleaseLate` the ones that find the claim taken over (the
`claimed_by` guard fails and the row is left alone); `DocumentsUnavailable` a release
document that cannot be read (invalid material: no retry), `SigningFails`, `UploadFails`
and `PersistLost` a KMS or S3 error before and after the object was written (retried);
`Crash` a worker's death; `LeaseRunsOut` and `BackoffEnds` time; `TargetMoves` a reset or
revocation elsewhere. `Download` is what the public route serves.

### EvidenceOutbox

*State.* `rows` is the table with its nullable columns as flags (`claimed_until` in the
future, `available_at` past, delivered, dead-lettered), `jobs` what each worker's
`deliver_available` holds, `bucket` the stored objects. `losses` counts, per message, the
claims whose worker could not report back; it bounds faults and is what `SettledIsEarned`
compares with. *Actions.* `SaveAnalysis` enqueues; `Claim`, `Archive`, `MarkDelivered` and
`ReleaseFailed` are the statements of a worker, each its own transaction; a failed put
may have stored the object; `Crash` and `LeaseLapsesEarly` are the faults, `LeaseLapses`
and `BackoffElapses` time, `Quiet` an empty poll. An object is one value per incident: the
payload is frozen in the row, so every put writes the same one.

### MemoryRecall

*State.* `evidence` has the immutable columns of each memory, `lifecycle` its state,
reviewer and replacement, `age` whether it is past its half-life or its expiry; `requests`
are analyses between preparation and saving, `incident` the saved one. *Actions.*
`Prepare` and `Persist` are the two halves of an analysis, `Learn` the outcome memory of
the incident, `Govern` the governance routine with every action of the table,
`TimePasses` time. *Algorithms.* `VersionCompatibility`, `RankScore`, `Lanes` and
`FindMemories` (exact successes, policy successes and a semantic pool, each cut at its
limit), `Selected` with the abstention rules, `RecurrenceView`. A list in `ORDER BY` order is
the function from places to memories (`Place`, `Ranked`): a memory's place is one more than
the number of those that outrank it, ties going to the older one. `ReferenceFindMemories` is
the in-memory store's unbounded search, against which the lanes are checked in
every reachable state. Scores are hundredths; embeddings are the similarities they yield.
Where Python and SQL disagree about a replacement the conjunction is modelled, since both
run; see section 6.

### ToolRegistry and OperatorPage

*State.* `registrations` is the `Map` of the registry, `controllers` the abort controllers
with what the browser has of each, `waiting` the calls of `reconcile` suspended at their
`await` with the names they still have to do, `currentDesired` the latest call's set.
The page has the phase and version it shows, its tools, its etag, the polls and the
decision in flight; the server is the workflow as its manifest shows it. *Actions.*
`Reconcile` and `Resume` run to the next `await`, as JavaScript does; `Poll`, `Answer`,
`Receive`, `FetchFails`, `Press`, `Decide`, `Decided` and `Reload` are the page's;
`ServerMoves` everyone else. *Abstracted.* Epoch and etag are one version number: in a
judge run every move of the workflow changes both, and a revocation, which changes the etag only,
happens in a phase without controls. The tabs of a browser share the operator's cookie, so
after a reset in another tab the manifest leads from `CLOSED` to the first phase of the
successor run; a decision of this page, which names the incident it was loaded for, may then
be refused whatever its epoch (`Decide`). The registration of a tool in the browser is external.

### JudgeRuns

*State.* Per run the `judge_runs` row (`status`, `runPast` for an `expires_at` that has
come, `generation`), the part of its workflow that handoffs depend on (`stage`, `open`,
who certified and who revoked), and its operator session. Per handoff code the
`review_handoffs` row (`handoff`, and the sets `consumed`, `withdrawn`, `lapsed` for its
three timestamps) and the reviewer session it was exchanged for. Per browser the run its
operator cookie leads to; `pages` are open pages with the run and epoch they have read.
The repository modelled is the PostgreSQL one; a status that says `active` after the
expiry, which only `get_run` corrects, is kept as such.

*Handlers.* None of them is one transaction, so a handler between two is a member of a
set, which a `Crash` empties. Launching is `Launch` and `StartSession`; a reset
`RequestReset`, then `ResetAtomically` or `ResetConflict`, then `AllocateSuccessor` or
`SuccessorRefused`, then `StartSession`; the incident's own reset route is
`ResetWorkflow`. Issuing a code is `RequestHandoff` and `SaveHandoff`; exchanging it
`ConsumeHandoff`, `CheckRun` and `SaveReviewer`; a reviewer's decision `RequestReview`,
then `CommitReview` or `ReviewConflict`. `Propose` sends the precondition its page has
read, with whatever cookie the browser has by then. `Assess` stands for approval,
execution, observation and assessment, which `RunAuthority` has in full. `RunPasses`,
`HandoffPasses` and `SessionPasses` are time.

*Abstracted.* The operator session of a run is named by the run, the session and the
fresh subject of a reviewer by the code it came from: the code mints one identifier for
each. CSRF tokens and code digests are equality of those names. Attempt counters
(rate limits) and the OIDC and demo authenticators are not modelled. `replaces` is a
history variable, the run each run was allocated to replace; no guard reads it.

## 3. Runs

| Run | Constants | Checks | States |
|---|---|---|---|
| `judge_races` | judge mode, 2 reviewers, 2 keys, 2 requests in flight, epoch to 8, crashes | ledger, receipt, idempotency, recall chain, evidence against stage, sandbox applied once; nothing after a reset; etag | 1.65 M |
| `judge_retries` | judge mode, 1 request in flight, epoch to 11, no crash | types, an observation always ends (liveness), reviewed prefixes are signable, refinement | 120 k |
| `service_mode` | service mode, an action that needs approval or a read-only one, 2 requests in flight, crashes | certified by another, refinement | 4.65 M |
| `receipt_queue` | 2 workers, 2 requests, 2 attempts, faults, 1 crash, 1 overrun | rows agree, archive, attempts, settled is final, every request settles (liveness) | 361 k |
| `evidence_outbox` | 2 workers, 2 messages, 2 attempts, 3 lost claims, every put may fail | settled for a reason (archived, or budget spent) and for good, every message settles (liveness) | 72 k |
| `memory_recall` | 3 scenarios of two or three seeded memories and the learned one, 2 requests, 2 governance actions, 1 memory ages, limit 2, pool 2 | lanes protect, best is selected, supersession leads on, recall is reviewed, one analysis per key | 958 k |
| `operator_page` | 2 polls and 1 decision in flight, 2 suspended calls, 3 manifests, 1 fault | one owner, withdrawn is transient, none forgotten, tools settle (liveness) | 705 k |
| `judge_reviews` | 1 run, 2 codes, 1 visitor, 2 handlers, crashes | types; a code is exchanged once; a reset is the end of a run for everything still under way; certifier and revoker differ; codes follow evidence | 433 k |
| `judge_resets` | 2 runs, limit 1, 2 visitors, 1 page, 2 handlers, crashes | a page of a reset run changes nothing in its successor; capacity is held, and returns with time alone (liveness) | 458 k |
| `second_proposal`, `page_degraded`, `counterfactual` | small | one documented statement each, violated (section 6) | |

*Bounds.* A run certified without incident reaches `REVIEWED` at epoch 7. `MaxEpoch = 8` stops *new*
requests at 8, so the full path, a revocation and a reset of a reviewed run happen with
two handlers racing at every point; `MaxEpoch = 11` adds two telemetry failures with their
retries, or a rejected proposal, before the review. Two requests in flight are every
pairwise race, and because a request stays in flight after it took effect, also every repeat against
one competitor. Two keys allow the same key for two calls and two keys for one call. Two
workers, one overrun and one crash give a takeover from a live worker and from a dead one;
two attempts put the limit within reach of both.
One run with two codes has a review and a revocation, two codes of one purpose, and a code
issued while another is being exchanged; two handlers between transactions are every
pairwise race. Two runs at a limit of one are a reset with its successor, or a reset racing
another visitor's launch for the only place. Three lost claims on a budget of two let the
count of attempts leave the budget on one message while another is in dispute. Four memories with a limit
and a pool of two crowd every lane: the pool factor is a constant (4 in the code) so that
four rows do what hundreds do in production; two governance actions reach a supersession
of a replacement and a way into quarantine and back. Three manifests are two moves, so
that an answer may be older than the one before it, and two suspended calls of `reconcile`
overlap with a third that runs.

*Symmetry.* Reviewers and keys in `judge_races`, requests in `memory_recall`: none is
ever compared with a constant. Symmetry is not used in a run with a liveness property.

*Deadlock* is checked for the page and the evidence outbox, which never stop (the watching
worker's empty poll is `Quiet`). Elsewhere it is not: a workflow ends (reviewed, reset, at its
bound), a receipt queue empties.

*Fairness.* In `RunAuthority` only the handler that has started an observation is fair:
it is a running thread with a telemetry timeout, which ends in one of the three ways
unless the process dies, which removes it. Arrivals, handlers, resets and operators
are not fair: nobody is obliged to act. In `ReceiptFinalizer` each worker is weakly fair,
because `--watch` polls for ever and a crashed worker is restarted into the same loop;
time is fair; faults are not, and `MaxAttempts` alone bounds them. `EvidenceOutbox` has the
same fairness for the same reason. In `JudgeRuns` only the
expiry of a run is fair: the clock goes on, and nobody has to come back. In `OperatorPage`
the interval polls, fetches and decisions are answered (browsers time out) and the browser
settles registrations; pressing a button, faults and the moves of others are not fair, and the
liveness property does not need the server ever to stop moving except at its bound.

*Refinement.* `ImplementsAuthorityWorkflow` maps `wf.state`, `wf.epoch`, `wf.active` and
recall eligibility to the abstract variables: every handler is a legal move, a close, a
withdrawal or invisible. The abstract specification has the judge's edges or the service
mode's, and it says what neither code path states in one place: evidence becomes
recallable only on the edge into `REVIEWED`.

The type invariants of `RunAuthority` and `JudgeRuns` are also checked by runs; those of the
other modules are proved (section 4) and need none.

Every property of a passing run has a mutant under `mutants` in `PROJECT.json`: a
definition (placed before the one it alters) with a plausible bug, under which the same run reports that property violated.

## 4. Proofs

Every invariant, every action property and the refinement that a passing run checks is
also a theorem, for every value of the constants: any number of subjects, keys, requests,
workers, messages, runs, codes, tools and memories, and every bound. A theorem rests on
the named assumptions of its module and on nothing else:

| Assumptions | Say |
|---|---|
| `ModeAssumption`, `JudgeAssumption`, `SubjectAssumption`, `BoundAssumption` (`RunAuthority`) | modes are Boolean, a judge run has one operator and an action that needs approval, null is no subject and no key, bounds are naturals |
| `IdsAssumption`, `JudgeLimitsAssumption` (`JudgeRuns`) | ids are positive (zero is "none"), limits are naturals |
| `RequestsAssumption`, `WorkersAssumption`, `LimitsAssumption` (`ReceiptFinalizer`); `OutboxAssumption`, `WorkersAssumption` (`EvidenceOutbox`) | ids are numbers, `Nobody` is no worker, limits are naturals |
| `RegistryAssumption`, `ToolsAssumption`, `PageAssumption` (`ToolRegistry`, `OperatorPage`) | there are finitely many tools, each phase lists some of them, bounds are naturals |
| `RecallAssumption`, `SeedAssumption` (`MemoryRecall`) | limits are positive, scores are numbers (no range is assumed), the seeded memories are conclusive and not the observer's, "nobody" is no reviewer |

TLC evaluates each of them on the constants of the runs.

### The governed workflow

`RunAuthority_proofs`:

| Theorem | States | Argument |
|---|---|---|
| `TypeCorrect` | `TypeOK` | inductive because a request's fields are typed *by route* (`RequestFacts`): a disposition's argument is a governance action, an assessment's a classification; `TransitionType`, `InvalidateType`, `GovernMemoryType` type the three writers once |
| `LedgerMirrors` | `LedgerMirrorsWorkflow` | `TransitionFacts` and `InvalidateFacts` reduce every handler to "append one event from the row to the new row" or "leave both"; `AppendMirrors` shows the former keeps the mirror |
| `ResetIsFinal` | `NothingAfterReset` | `ResetClosesWorkflow` (a reset run has an inactive row) is the strengthening; `ClosedIsFrozen` goes through every handler: each needs an active row before it writes anything |
| `EvidenceIsEarned` | `EvidenceMatchesStage` | inductive with `TypeOK`; each handler fixes the source state, whose clause of the invariant says which rows exist before, and writes the row the target state demands |
| `ReceiptPerReview` | `OneReceiptPerReview` | a review event is appended only by `Disposition`, whose source state is `PENDING_REVIEW`, where the invariant says no request exists; every other append leaves the set of review events alone (`ReceiptsKept`) |

`AuthorityHistory_proofs` goes through the handlers twice and then never again. `AnyStep` says
what any step does to the row and the memory: leave both, withdraw the evidence, close the
row, or advance along an edge with the memory left alone, recorded or governed. `JudgeStep` says what any step of a judge run does to its ledger:
nothing, append the reset event, or append one of the twelve events of `JudgeMoves` together
with the decision, certification or idempotency row that commits with it.

| Theorem | States | Argument |
|---|---|---|
| `CertifiersAreOthers` | `CertifiedByAnother` | `ReviewedInv`: the memory leaves review with its workflow, in `REVIEWED`, and no edge leaves that state, so the row's operator stays who it was when the reviewer was compared with it |
| `EtagCovers` | `EtagCoversTools` | the tools are a function of state and activity, and every step that changes either changes what the etag is made of |
| `HandlersRefineWorkflow` | `ImplementsAuthorityWorkflow` | each of the four kinds of `AnyStep` is a step of `AuthorityWorkflow` or a stutter; `ReviewedInv` excludes evidence becoming recallable other than on the edge into `REVIEWED` |
| `SandboxRunsOnce` | `SandboxAppliedOnce` | `SandboxInv`: after the execution the workflow never returns to the states before it, and a rejection in the ledger leaves the one approval row rejected for good, so no execution follows it |
| `ReplaysAreAnswered` | `ReplayNeverRefused` | `CommittedStep`: a committed request has a row under its key with its digest, and rows are never overwritten |
| `KeyedOnce` | `KeyedExactlyOnce` | by `JudgeStep` a keyed event and its row are appended together; with `LedgerMirrorsWorkflow` no two events have one epoch, so row and event determine each other |
| `RecallIsBacked` | `RecallNeedsWholeChain` | `ChainInv` ranks the states: at rank k the first k links of the chain are in the ledger, in order; `CertificateInv` puts the certifying event behind an active memory; `MovesFit` checks the twelve events |

`ReceiptBinding_proofs` proves `ReviewsAreSignable` (`ReviewedIsSignable`). `StoryInv` says
that the ledger is genesis followed by events of `JudgeMoves` or the reset, each signed by a
subject of its role; `RequestInv` that receipts are asked for in judge runs only. From a
requested sequence number the story is then told backwards: the review needs the assessment
before it, that the observation, and so on to the proposal (`StoryBackwards`); `FirstEvent`
finds the first event that reaches each state, which is the one the worker binds, and
`StoryBinds` and `StoryVerifies` are its two checks. An assessment that did not come through
WebMCP reaches the same state without the object, and the check fails.

### Queues and workers

| Theorem (`ReceiptFinalizer_proofs`) | States | Argument |
|---|---|---|
| `QueueRowsAgree` | `TypeOK` and `RowsAgree` | inductive together; the seven steps that only move their worker on are one case (`MoveFacts`) |
| `QueueSettledIsFinal` | `SettledIsFinal` | a settled row has no claimant (`RowsAgree`), and every write of a row is guarded by its claim |
| `ArchiveAlwaysReconciles` | `ArchiveReconciles` | `ArchiveInv`: a key holds nothing or the one bundle of its request, and it holds it before any worker finalizes |
| `AttemptsAreAccounted` | `AttemptsAccounted` | `BudgetInv`: an open request whose claim is not alive has an attempt left of the budget plus the crashes and overruns so far; `JobInv`: a worker's attempt number is the row's while the row names it |

| Theorem (`EvidenceOutbox_proofs`) | States | Argument |
|---|---|---|
| `OutboxTypeCorrect` | `TypeOK` | inductive as it stands |
| `OutboxInductive` | `IndInv` | `RowInv` says what the four nullable columns mean together (a claim only on an open row, a lease only with a claim), `JobInv` that an acknowledging worker's object is stored, `BudgetInv` as above; one lemma per worker statement |
| `SettlingIsEarned`, `SettlingIsFinal` | `SettledIsEarned`, `SettledIsFinal` | from `IndInv`: a settled row is nobody's, so no late worker matches it |

### Judge runs

| Theorem (`JudgeRuns_proofs`) | States | Argument |
|---|---|---|
| `RunsTypeCorrect` | `TypeOK` | inductive as it stands; `OperatorRun` (an authenticated cookie names a run) and `EpochType` are what the handlers that read a cookie need |
| `ReviewersAreSeparate` | `CertifierNeverRevokes` | not inductive alone: a request may have passed `reviewer_scope` long before it commits. `CodesMatchDecisions` adds that such a request, and every committed decision, holds a consumed code of the purpose of its decision; `SaveHandoff` cannot disturb it because it fills only rows without a run and consumed codes have one |
| `CodesAreExchangedOnce` | `CodeExchangedOnce` | `ExchangeInv`: a code being exchanged is consumed, has no session yet and is in the hands of one handler |
| `LinksFollowEvidence` | `LinkFollowsEvidence` | `LinkInv` holds a handler that has read the evidence and not yet saved its code to the same condition, which no move of the evidence undoes |
| `ResetRunsStayClosed` | `ResetRunsAreOver` | `ClosedInv`: a reset closes the workflow in its own transaction, so a late review meets a closed one; with `CodesMatchDecisions` and `ExchangeInv` no request about the run is where it could still go on. `ResetStep` goes through the handlers, and `RunsFrame` (every step allocates an absent row or leaves the runs' fates as they are) keeps the status |
| `StalePagesAreRefused` | `StalePreconditionRefused` | `GenerationInv`: a successor is one generation after the run it replaces, so a page's generation never matches both |
| `CapacityIsHeld` | `CapacityHeld` | `CapacityInv`: an allocation adds one run below the limit, nothing else adds any |

### The page and its registry

All of `OperatorPage_proofs` rests on one invariant. `RegistryInv`: map and controllers in force
name each other (`Owned`), a controller is awaited by at most one call, and by one while it is
registering or aborted (`Held`), what the browser offers is wanted or awaited (`Wanted`), and a
wanted tool is reserved, refused or on somebody's list (`Asked`). `PageInv` types the page
and says that the tools it passes on are tools. `LoopKeeps` proves that the
loop of `reconcile`, up to its next `await`, keeps the four parts whatever map it is entered
with; `Reconcile` and `Resume` are then the entries. Controllers are taken from a pool, and
`FreeController` shows that the pool is never empty.

| Theorem | States |
|---|---|
| `PageTypeCorrect` | `TypeOK` of page and registry |
| `RegistrationsAreOwned` | `OneLifecycleOwner` |
| `WithdrawalsHold` | `WithdrawnIsTransient` |
| `WantedToolsAreKept` | `NoToolForgotten` |

### Recall

| Theorem (`MemoryRecall_proofs`) | States | Argument |
|---|---|---|
| `RecallTypeCorrect` | `TypeOK` | `RowInv`, `ScoreInv` and `StepInv`, which split it by what the actions write |
| `RecallIsReviewed` | `RecalledIsReviewed` | `RowInv`: an active memory is conclusive, and reviewed by another if the run's observer learned it |
| `SupersessionEnds` | `SupersessionLeadsOn` | `OrderInv`: some numbering grows along `superseded_by`. A superseded memory never changes again and a replacement is live when it is chosen, so the numbering can be extended; by the pigeonhole principle a path of more steps than memories does not exist (`PathsEnd`) |
| `AnalysisIsShared` | `OneAnalysisPerKey` | `AnalysisInv`: whoever was answered has the saved analysis |
| `LanesProtect` | `SafeRecallProtected` | `ScoreInv` makes the ranking a strict total order; places are then injective on a finite set, hence onto it (`PlaceFacts`), so a lane cut at a limit that its kind does not exceed holds all of its kind (`TakeFacts`, `LaneHolds`) |
| `BestIsSelected` | `SelectionIsBest` | an eligible, compatible success is in a lane that ranks by the same order, so what outranks it there is in the result before it |

`SupersessionLeadsOn` speaks of the function `Successor`, defined by recursion on the number of
steps. That it exists (`StepsExist`) is shown by taking a least number for which it does not,
since the library's induction theorems cannot be used with the installed provers.

### Only model-checked

The five liveness properties (`ObservationResolves`, `RequestsSettle`, `EveryMessageSettles`,
`NoStaleToolSettles`, `CapacityReturns`), because no prover here handles fairness, and
the three violations of section 6, which are counterexamples. Ranking by hundredths, the
abstraction of digests, clocks that do not go back and the atomicity of transactions are
modelling decisions, and no proof covers them.

## 5. What the checks show

- Whatever two handlers race, the ledger of a run is the exact history of its row, and
  no request authenticated before a reset changes anything after it.
- A repeated proposal or assessment is answered from its stored response in every later
  state, and each idempotency row stands for exactly one ledger event.
- Telemetry outages and retries never apply the sandbox action twice, never create a
  memory and never turn an outage into a verdict; the memory has the sign of the policy
  verdict and not of the agent's assessment.
- Recall is offered only over a complete chain, certified by someone who neither
  approved, operated nor observed (judge mode). In the service mode the weaker
  `CertifiedByAnother` holds; see section 6 for what does not.
- Every review whose assessment came through WebMCP has a ledger prefix the receipt worker
  can sign, whatever retries and rejected proposals lie before it.
- Two workers on one queue keep request and receipt rows in agreement, leave one archive
  object per receipt with the bytes the receipt names, and never reopen a settled request.
- A reviewer code is exchanged at most once, and nobody revokes what they certified. A reset
  ends a run: a review that was authenticated before it, and a session saved by an exchange that
  it overtook, change nothing. Capacity is never
  exceeded, and runs that nobody reads again give their places back.
- The evidence outbox settles every message exactly once although `mark_delivered` does not
  look at the dead-letter column and there is no status: the claim column alone separates a
  late worker from the current one. Delivered means archived, whoever put and whoever acknowledged.
- The exact and policy lanes keep a safe success in the result however crowded the semantic
  pool is, the selected memory is the best compatible success there is, supersession never
  leads back, and an observer cannot bring a quarantined memory back alone.
- Overlapping calls of `reconcile` leave one registration per tool, offer a withdrawn one only
  while its registration is still awaited, and forget none. Whatever the order of the answers,
  the agent's tools settle on the server's or on none.

## 6. Where code and documents disagree

Three are runs expected to find a violation; `PROJECT.json` quotes the documents.

1. `second_proposal`: after a rejection the agent may propose again, but the single
   `approvals` row of the incident makes the second proposal undecidable.
2. `page_degraded`: a failed poll withdraws every tool but keeps the etag; later polls are
   answered 304 and change nothing, so the page stays degraded until the workflow moves.
3. `counterfactual`: the recurrence view excludes the new memory from a list already cut to
   `max_memories`, so the memory it displaced is missing from the counterfactual.

The others can be read off single actions and have no run of their own. Documents are
relative to `src/docs/hackathon-build/` unless a path is given.

Workflow and runs:

4. A process that dies between the two transactions of the sandbox handler leaves the run in
   `OBSERVING_POSTCHECK` (`CrashObserver`); the retry route accepts only
   `POSTCHECK_UNAVAILABLE` (`spec.md` 1277: "enter `POSTCHECK_UNAVAILABLE`, ... allow
   operator-only retry without execution").
5. `ResetWorkflow` closes the workflow of a live run, whose own reset then ends in
   `ResetConflict` (`prd.md` 608: "Reset and refresh are safe at every stage.").
6. The precondition names generation and epoch but not the run, and every launched run has
   generation 1, so a page of an expired run may propose into the run its browser has
   started since (`prd.md` 425: "Reset, expiry, proposal replacement, or state advancement
   invalidates prior action references."). `StalePreconditionRefused` is about resets, where
   the generation does change.
7. `Revoke` writes neither a ledger event nor a receipt request (`spec.md` 189: "Revocation
   produces a successor receipt.").
8. `Transition` overwrites the one `operator_subject` of the row, so in the service mode the
   approver may review after a colleague has executed (`prd.md` 334: "The operator or
   assessment submitter cannot review or revoke their own evidence.").
9. A `Crash` between `Launch` and `StartSession` leaves an active run without a session,
   which holds a place until it expires (`spec.md` 406: "Atomically creates").
10. `SuccessorRefused`: at the limit another launch may take the place a reset has just
    freed; the reset fails after it has revoked every session of the old run (`spec.md` 430:
    "returns a fresh entry URL").

Receipts and outbox:

11. A revocation or reset before the worker has loaded the request dead-letters the receipt
    for good (`TargetMoves`, then `Load`; `spec.md` 188: "they do not rewrite the completed
    workflow or earlier receipt").
12. A failed read of a release document is invalid material and dead-letters at the first
    attempt (`DocumentsUnavailable`; `spec.md` 730: "KMS/S3 failure leaves governed domain
    state intact but Assurance incomplete and receipt retryable.").
13. The incident's assessment route, which a judge session may call, records no outcome
    binding: its review is accepted and its receipt can never be signed (`ReviewedIsSignable`
    states both halves; `spec.md` 36: judge mode "MUST return `410 Gone` for any legacy
    endpoint that bypasses verified evidence").
14. Claims lost to crashes are not limited by the retry budget (`SettledIsEarned` counts them;
    `src/docs/RESILIENCE.md` 16: "Infinite retries cannot silently consume capacity"). A
    worker whose lease lapsed but whose message nobody has taken may still acknowledge and
    release it (`outbox.py` 98: "a worker that lost its lease cannot change state"). A
    dead-lettered message may be in the bucket, if a put failed after storing.

Recall and pages:

15. The version patterns of migration 031 double their backslashes and match no version, so
    SQL refuses the policy-covered replacement that Python accepts (`src/docs/ARCHITECTURE.md`
    45-48).
16. The semantic pool is cut before the lifecycle predicates apply, so retired rows can hide
    a live warning; the protected lanes are for successes only.
17. `reembed.py` updates columns that the trigger of migration 028c refuses to change
    (`src/docs/AWS_ACCOUNT_BLOCKER.md` 48-50 tells the operator to run it).
18. The registry has no generation guard: `Kept` compares with the latest set, so a
    registration started for an older manifest is kept if the newer one wants the tool too
    (`spec.md` 227: "late registration promises from an old manifest are aborted").

## 7. Not modelled, and the plan

Done: the governed workflow with its ledger and evidence, the receipt pipeline and what it
demands of a ledger, judge runs with their sessions and handoffs, the evidence outbox,
retrieval with governance, and the operator page with its tool registry. Next, in order:

1. The attempt counters of `sessions.py` (launch and exchange rate limits).
2. A composition of `RunAuthority` and `ReceiptFinalizer` in which `exact` is derived from
   ledger and memory.
3. The offline verifier of `authority_bundle.py` over bundles built from a ledger, and the
   reviewer page's own state.
4. Proofs: every safety property of the runs is proved. What a next proof could add is the
   refinement of the receipt queue and of the evidence outbox to one abstract queue whose
   messages settle once, and that a page shows no phase its server was never in.

Left out for good: cryptography and canonical encoding (values compared for equality),
HTML and CSS, evaluation and release reports (batch computation over files), migrations
as a process, logging and metrics.
