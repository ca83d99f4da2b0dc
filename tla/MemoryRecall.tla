---------------------------- MODULE MemoryRecall ----------------------------
(***************************************************************************)
(* Retrieval, ranking and abstention over a tenant's governed memories     *)
(* (store.py, service.py, the SQL of migration 031).  An incident is       *)
(* analysed by retrieving eligible memories through three bounded lanes,   *)
(* ranking them and selecting one or abstaining; the analysis is saved     *)
(* under an idempotency key in a later transaction.  Meanwhile reviewers   *)
(* govern the memories and time passes.  Scores are in hundredths and      *)
(* ranks in ten-thousandths.                                               *)
(***************************************************************************)
EXTENDS Integers, Sequences, SequencesExt, FiniteSets, TLC

CONSTANTS
  MemoryCount,      \* how many memories there can be
  Seeds,            \* the sets of seeded memories to start from: id to evidence
  New,              \* the memory the incident's outcome is learned as
  IncidentVersion,  \* the incident's service_version
  NewSimilarity,    \* similarity of the learned memory's own symptom
  Requests,         \* requests that carry the incident's idempotency key
  Reviewers, Observer,
  Limit,            \* max_memories
  Multiplier,       \* retrieval_candidate_multiplier
  PoolFactor,       \* 4 in the code; smaller where few rows must crowd the pool
  MinSimilarity, MinConfidence, MinRankScore, MinMargin,
  MaxGovernance,    \* bound: governance actions
  MaxAged           \* bound: how many memories grow old

ASSUME RecallAssumption ==
  /\ MemoryCount \in Nat /\ New \in 1 .. MemoryCount
  /\ {Limit, Multiplier, PoolFactor} \subseteq Nat \ {0}
  /\ {MaxGovernance, MaxAged} \subseteq Nat
  /\ NewSimilarity \in Int

\* Seeded memories are scored, conclusive and observed by others than the run's
\* observer; a reviewer is somebody.
ASSUME SeedAssumption ==
  /\ "nobody" \notin Reviewers
  /\ \A seed \in Seeds : \A m \in DOMAIN seed :
       /\ {seed[m].outcome, seed[m].similarity, seed[m].confidence} \subseteq Int
       /\ seed[m].outcome # 0 /\ seed[m].observer # Observer

VARIABLES
  evidence,   \* the immutable columns of the memories
  lifecycle,  \* state, reviewed_by and superseded_by of each memory
  age,        \* 0: fresh, 1: past the half-life, 2: past expires_at
  requests,   \* per request: idle, prepared or answered, with its analysis
  incident,   \* the analysis saved under the key, or NoAnalysis
  governed    \* governance actions so far (memory_events)

vars == <<evidence, lifecycle, age, requests, incident, governed>>

\* Memories are numbered in created_at order.
Memories == 1 .. MemoryCount
ById == [m \in Memories |-> m]
NoMemory == 0
NoAnalysis == [saved |-> FALSE]
NoEvidence == [version |-> <<0, 0, 0>>, policy |-> "exact", outcome |-> 0, similarity |-> 0,
               confidence |-> 0, action |-> "none", observer |-> "nobody"]

Init ==
  /\ \E seed \in Seeds :
       /\ evidence = [m \in Memories |-> IF m \in DOMAIN seed THEN seed[m] ELSE NoEvidence]
       /\ lifecycle = [m \in Memories |->
            [state |-> IF m \in DOMAIN seed THEN "active" ELSE "absent",
             reviewedBy |-> "nobody", supersededBy |-> NoMemory]]
  /\ age = [m \in Memories |-> 0]
  /\ requests = [r \in Requests |-> [step |-> "idle"]]
  /\ incident = NoAnalysis
  /\ governed = 0

-----------------------------------------------------------------------------
(* Ranking.  A version is <<major, minor, patch>>; any other scheme is a   *)
(* tuple of another length.                                                *)

VersionCompatibility(memoryVersion, incidentVersion, policy) ==
  LET semver == Len(memoryVersion) = 3 /\ Len(incidentVersion) = 3
      sameMajor == memoryVersion[1] = incidentVersion[1]
      sameMinor == sameMajor /\ memoryVersion[2] = incidentVersion[2]
  IN  CASE memoryVersion = incidentVersion -> 100
        [] memoryVersion # incidentVersion /\ ~semver -> 20
        [] OTHER -> IF \/ policy = "semver_patch" /\ sameMinor
                       \/ policy = "semver_minor" /\ sameMajor
                    THEN 100
                    ELSE IF ~sameMajor THEN 0 ELSE IF ~sameMinor THEN 35 ELSE 80

Compatibility(m) ==
  VersionCompatibility(evidence[m].version, IncidentVersion, evidence[m].policy)

\* rank_memory: positive evidence and confidence decay, known failures do not
Freshness(m) == IF age[m] = 0 THEN 100 ELSE IF age[m] = 1 THEN 50 ELSE 25
EffectiveConfidence(m) == (evidence[m].confidence * Freshness(m)) \div 100
EffectiveOutcome(m) ==
  IF evidence[m].outcome > 0 THEN (evidence[m].outcome * Freshness(m)) \div 100
  ELSE evidence[m].outcome
RankScore(m) ==
  55 * evidence[m].similarity + 25 * EffectiveOutcome(m)
    + 15 * Compatibility(m) + 5 * EffectiveConfidence(m)

\* The sort of both stores, best first; later rows win ties.
Outranks(a, b) ==
  LET ra == RankScore(a)
      rb == RankScore(b)
  IN  \/ ra > rb
      \/ /\ ra = rb
         /\ \/ evidence[a].similarity > evidence[b].similarity
            \/ evidence[a].similarity = evidence[b].similarity /\ a > b

Place(S, m) == Cardinality({x \in S : Outranks(x, m)}) + 1
Ranked(S) == [i \in 1 .. Cardinality(S) |-> CHOOSE m \in S : Place(S, m) = i]

Closer(a, b) ==
  \/ evidence[a].similarity > evidence[b].similarity
  \/ evidence[a].similarity = evidence[b].similarity /\ a < b
Nearest(S, n) == {m \in S : Cardinality({x \in S : Closer(x, m)}) < n}

Take(n, seq) == SubSeq(seq, 1, IF Len(seq) < n THEN Len(seq) ELSE n)

-----------------------------------------------------------------------------
(* Retrieval.                                                              *)

Stored == {m \in Memories : lifecycle[m].state # "absent"}

\* the predicates of find_memories; valid holds exactly in the active state
Eligible ==
  {m \in Stored : lifecycle[m].state = "active" /\ evidence[m].outcome # 0 /\ age[m] < 2}

CandidateLimit == Limit * Multiplier
Successes == {m \in Eligible : evidence[m].outcome > 0}
ExactSuccesses == {m \in Successes : evidence[m].version = IncidentVersion}
PolicySuccesses == {m \in Successes : evidence[m].policy # "exact"}

\* Mutant: retrieval by similarity alone.
SemanticLane ==
  Nearest(Nearest(Stored, CandidateLimit * PoolFactor) \cap Eligible, CandidateLimit)

\* The three queries: the semantic pool is cut before the lifecycle predicates.
Lanes ==
  Nearest(ExactSuccesses, CandidateLimit) \cup Nearest(PolicySuccesses, CandidateLimit)
    \cup Nearest(Nearest(Stored, CandidateLimit * PoolFactor) \cap Eligible, CandidateLimit)

FindMemories == Take(Limit, Ranked(Lanes))

\* InMemoryStore.find_memories: the same without lanes
ReferenceFindMemories == Take(Limit, Ranked(Eligible))

-----------------------------------------------------------------------------
(* Selection.                                                              *)

\* What is found is ranked, and filtering keeps the order.
Positive(found) == Ranked({m \in ToSet(found) : evidence[m].outcome > 0})

TopCandidatesConflict(found) ==
  /\ Len(found) >= 2
  /\ RankScore(found[1]) - RankScore(found[2]) < MinMargin
  /\ evidence[found[1]].action # evidence[found[2]].action

Weaknesses(m) ==
  {reason \in {"similarity_below_threshold", "evidence_confidence_below_threshold",
               "rank_score_below_threshold", "service_version_incompatible"} :
     CASE reason = "similarity_below_threshold" -> evidence[m].similarity < MinSimilarity
       [] reason = "evidence_confidence_below_threshold" -> EffectiveConfidence(m) < MinConfidence
       [] reason = "rank_score_below_threshold" -> RankScore(m) < MinRankScore
       [] reason = "service_version_incompatible" -> Compatibility(m) < 100}

Ambiguity(found) ==
  IF TopCandidatesConflict(found) THEN {"top_candidates_ambiguous"} ELSE {}

\* _abstention_reasons, applied by prepare_analysis to the positive memories
AbstentionReasons(found) ==
  LET positive == Positive(found)
  IN  CASE found # <<>> /\ positive = <<>> -> {"outcome_not_positive"}
        [] found = <<>> -> {"no_governed_memory"}
        [] OTHER -> Weaknesses(positive[1]) \cup Ambiguity(positive)

Selected(found) ==
  IF AbstentionReasons(found) = {} THEN Positive(found)[1] ELSE NoMemory

\* _candidate_decisions; here the conflict is looked for among all candidates
CandidateReasons(found, i) ==
  Weaknesses(found[i])
    \cup (IF evidence[found[i]].outcome <= 0 THEN {"outcome_not_positive"} ELSE {})
    \cup (IF i = 1 THEN Ambiguity(found) ELSE {})
Disposition(found, i) ==
  IF Selected(found) = found[i] THEN "selected"
  ELSE IF CandidateReasons(found, i) # {} THEN "rejected" ELSE "eligible_not_selected"

\* The analysis of an incident; without an embedding nothing is retrieved.
Analysis(found) ==
  [saved |-> TRUE, memories |-> found, selected |-> Selected(found),
   reasons |-> AbstentionReasons(found),
   decisions |-> [i \in DOMAIN found |-> Disposition(found, i)]]

\* recurrence_view with newly_reviewed_memory_id = new: the recommendation, and the
\* one it reports for the time before the review
CompatiblePositive(found) ==
  Ranked({m \in ToSet(found) : evidence[m].outcome > 0 /\ Compatibility(m) = 100})
FirstOf(found) == IF found = <<>> THEN NoMemory ELSE found[1]
RecurrenceView(new) ==
  LET compatible == CompatiblePositive(FindMemories)
      before == Ranked(ToSet(compatible) \ {new})
  IN  [governed |-> FirstOf(compatible), preReview |-> FirstOf(before),
       changed |-> new # NoMemory /\ FirstOf(compatible) = new]

-----------------------------------------------------------------------------
(* The analysis of an incident, in two transactions.                       *)

\* prepare_analysis: reads only; the embedding provider may be unavailable
Prepare(r) ==
  /\ requests[r].step = "idle"
  /\ \E found \in {FindMemories, <<>>} :
       requests' = [requests EXCEPT ![r] = [step |-> "prepared", analysis |-> Analysis(found)]]
  /\ UNCHANGED <<evidence, lifecycle, age, incident, governed>>

\* Mutant: the conflicting insert updates the saved analysis.
SaveOver(analysis) == analysis

\* save_analysis: the first analysis under the key stays
Save(analysis) == IF incident = NoAnalysis THEN analysis ELSE incident

\* persist_analysis answers with the saved row, whosever it is
Persist(r) ==
  /\ requests[r].step = "prepared"
  /\ incident' = Save(requests[r].analysis)
  /\ requests' = [requests EXCEPT ![r] =
       [step |-> "answered", analysis |-> incident']]
  /\ UNCHANGED <<evidence, lifecycle, age, governed>>

\* prepare_outcome, prepare_verified_outcome and save_outcome_memory: the outcome of
\* the action the incident's analysis proposed, pending review; one memory per
\* incident.
Learn ==
  /\ incident # NoAnalysis
  /\ lifecycle[New].state = "absent"
  /\ \E outcome \in {100, 0, -100} :
       evidence' = [evidence EXCEPT ![New] =
         [version |-> IncidentVersion, policy |-> "exact", outcome |-> outcome,
          similarity |-> NewSimilarity, confidence |-> 100,
          action |-> IF incident.selected = NoMemory THEN "collect_diagnostics"
                     ELSE evidence[incident.selected].action,
          observer |-> Observer]]
  /\ lifecycle' = [lifecycle EXCEPT ![New].state = "pending_review"]
  /\ UNCHANGED <<age, requests, incident, governed>>

TimePasses(m) ==
  /\ m \in Stored
  /\ Cardinality({n \in Memories : age[n] > 0} \cup {m}) <= MaxAged
  /\ \E later \in age[m] + 1 .. 2 : age' = [age EXCEPT ![m] = later]
  /\ UNCHANGED <<evidence, lifecycle, requests, incident, governed>>

-----------------------------------------------------------------------------
(* Governance: _governance_target, then recallops_govern_memory, in one    *)
(* transaction.                                                            *)

Target ==
  [certify |-> "active", activate |-> "active", quarantine |-> "quarantined",
   reject |-> "rejected", supersede |-> "superseded", revoke |-> "revoked",
   expire |-> "expired"]

Terminal == {"rejected", "superseded", "revoked", "expired"}

Allowed(state) ==
  CASE state = "pending_review" -> {"active", "quarantined", "rejected"}
    [] state = "active" -> {"quarantined", "superseded", "revoked", "expired"}
    [] state = "quarantined" -> {"active", "rejected", "revoked", "expired"}
    [] OTHER -> {}

\* Mutant: the replacement's state is not looked at.
ReplacementInAnyState(m, replacement) ==
  /\ replacement # m /\ replacement \in Stored
  /\ evidence[replacement].outcome # 0 /\ age[replacement] < 2
  /\ evidence[replacement].version = evidence[m].version

\* What Python and SQL both accept.  Python also accepts a replacement whose policy
\* covers the version; the patterns of the SQL routine double their backslashes
\* inside a dollar-quoted body, match no version, and leave the identical one.
Replacement(m, replacement) ==
  /\ replacement # m /\ replacement \in Eligible
  /\ VersionCompatibility(evidence[replacement].version, evidence[m].version,
                          evidence[replacement].policy) = 100
  /\ evidence[replacement].version = evidence[m].version

\* Mutant: activation out of quarantine does not ask who observed the outcome.
IndependentUnlessQuarantined(m, actor) ==
  evidence[m].observer # actor \/ lifecycle[m].state = "quarantined"

Independent(m, actor) == evidence[m].observer # actor

\* The routine asks this of certify; for activate it is the table's check constraint.
Conclusive(m) == evidence[m].outcome # 0

\* recallops_govern_memory; the reason codes it compares are data of the request.
Govern(m, actor, action, replacement) ==
  LET target == Target[action]
  IN  /\ governed < MaxGovernance
      /\ m \in Stored
      /\ target \in Allowed(lifecycle[m].state)
      /\ target = "active" => Conclusive(m) /\ Independent(m, actor)
      /\ IF target = "superseded" THEN Replacement(m, replacement) ELSE replacement = NoMemory
      /\ lifecycle' = [lifecycle EXCEPT ![m] =
           [state |-> target, reviewedBy |-> actor, supersededBy |-> replacement]]
      /\ governed' = governed + 1
      /\ UNCHANGED <<evidence, age, requests, incident>>

Next ==
  \/ \E r \in Requests : Prepare(r) \/ Persist(r)
  \/ Learn
  \/ \E m \in Memories : TimePasses(m)
  \/ \E m \in Memories, actor \in Reviewers, action \in DOMAIN Target,
        replacement \in Memories \cup {NoMemory} : Govern(m, actor, action, replacement)

Spec == Init /\ [][Next]_vars

-----------------------------------------------------------------------------
(* Properties.                                                             *)

\* Every row and request has the shape its table gives it; superseded_by is set with
\* its state, and the check constraint of the table keeps active evidence conclusive
\* through every way out of quarantine (recallops_govern_memory).
TypeOK ==
  /\ \A m \in Memories :
       /\ lifecycle[m].state \in {"absent", "pending_review", "active", "quarantined"} \cup Terminal
       /\ lifecycle[m].supersededBy \in Memories \cup {NoMemory}
       /\ lifecycle[m].supersededBy # NoMemory <=> lifecycle[m].state = "superseded"
       /\ lifecycle[m].state = "active" => evidence[m].outcome # 0
  /\ age \in [Memories -> 0 .. 2]
  /\ \A r \in Requests : requests[r].step \in {"idle", "prepared", "answered"}
  /\ governed \in 0 .. MaxGovernance

\* The lanes protect safe candidates: however many failures, obsolete versions and
\* retired rows crowd the semantic pool, a success for the exact version or under a
\* version policy that the in-memory store would return is returned, as long as its
\* lane holds all of its kind (find_memories).
SafeRecallProtected ==
  Cardinality(ExactSuccesses) <= CandidateLimit /\ Cardinality(PolicySuccesses) <= CandidateLimit
  => (ExactSuccesses \cup PolicySuccesses) \cap ToSet(ReferenceFindMemories)
       \subseteq ToSet(FindMemories)

\* What is selected is the best: no eligible success compatible with the incident
\* outranks it, whatever lanes and limits cut away (prepare_analysis).
SelectionIsBest ==
  LET selected == Selected(FindMemories)
  IN  selected # NoMemory =>
        /\ selected \in Successes /\ Compatibility(selected) = 100
        /\ (/\ Cardinality(ExactSuccesses) <= CandidateLimit
            /\ Cardinality(PolicySuccesses) <= CandidateLimit)
           => \A m \in Successes : Compatibility(m) = 100 => RankScore(m) <= RankScore(selected)

\* Where following superseded_by n times leads.
Successor[n \in 0 .. MemoryCount] ==
  IF n = 0 THEN ById
  ELSE [m \in Memories |->
          IF Successor[n - 1][m] = NoMemory THEN NoMemory
          ELSE lifecycle[Successor[n - 1][m]].supersededBy]

\* Supersession leads somewhere: following superseded_by never comes back, and a
\* superseded memory's version is covered by its replacement's (govern_memory).
SupersessionLeadsOn ==
  \A m \in Memories :
    /\ Successor[MemoryCount][m] = NoMemory
    /\ lifecycle[m].supersededBy # NoMemory =>
         evidence[lifecycle[m].supersededBy].version = evidence[m].version

\* Nothing an agent learned is recalled without a second person: an eligible memory
\* is conclusive, and its last review is another's than its observer's, through
\* quarantine and back (recallops_govern_memory and the table's check constraint).
RecalledIsReviewed ==
  \A m \in Eligible :
    /\ lifecycle[m].supersededBy = NoMemory
    /\ evidence[m].outcome # 0
    /\ evidence[m].observer = Observer => lifecycle[m].reviewedBy \notin {Observer, "nobody"}

\* Requests that carry the same key are all answered with the one saved analysis,
\* though they may have been prepared before and after a review (save_analysis).
OneAnalysisPerKey ==
  \A r \in Requests : requests[r].step = "answered" => requests[r].analysis = incident

\* Documented, and not what the code does: "computes the exact pre-review governed
\* counterfactual by excluding only the newly reviewed memory from the otherwise
\* identical admissible candidate set".  recurrence_view excludes it from a list that
\* find_memories has already cut to its limit.
ExactCounterfactual ==
  LET without == Take(Limit, Ranked(Eligible \ {New}))
  IN  New \in Eligible =>
        RecurrenceView(New).preReview = FirstOf(CompatiblePositive(without))
=============================================================================
