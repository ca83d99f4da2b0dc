-------------------------- MODULE AuthorityWorkflow --------------------------
(***************************************************************************)
(* What a governed workflow promises its observers, without transactions,  *)
(* requests, rows or ledger: authority moves along the legal edges only,   *)
(* every move spends one epoch, a closed workflow is frozen, and evidence  *)
(* can become recallable only by a review and stop being so only by a      *)
(* withdrawal after that review.                                           *)
(***************************************************************************)
EXTENDS Naturals

CONSTANTS
  Legacy,       \* the service mode, with its manual execution and outcome routes
  InitialStages \* where the workflow may start

VARIABLES stage, epoch, open, recallable

absVars == <<stage, epoch, open, recallable>>

GovernedEdges ==
  {<<"AWAITING_OPERATOR_APPROVAL", "APPROVED_AWAITING_EXECUTION">>,
   <<"AWAITING_OPERATOR_APPROVAL", "INVESTIGATING">>,
   <<"APPROVED_AWAITING_EXECUTION", "OBSERVING_POSTCHECK">>,
   <<"OBSERVING_POSTCHECK", "POSTCHECK_READY">>,
   <<"OBSERVING_POSTCHECK", "POSTCHECK_UNAVAILABLE">>,
   <<"POSTCHECK_UNAVAILABLE", "OBSERVING_POSTCHECK">>,
   <<"POSTCHECK_READY", "PENDING_REVIEW">>,
   <<"PENDING_REVIEW", "REVIEWED">>}

\* The agent's proposal belongs to a judge run; attesting a read-only action
\* and reporting its outcome by hand belong to the service mode.
ProposalEdge == <<"INVESTIGATING", "AWAITING_OPERATOR_APPROVAL">>

LegacyEdges ==
  {<<"INVESTIGATING", "OBSERVING_POSTCHECK">>, <<"OBSERVING_POSTCHECK", "PENDING_REVIEW">>}

Edges == GovernedEdges \cup (IF Legacy THEN LegacyEdges ELSE {ProposalEdge})

AbsInit ==
  /\ stage \in InitialStages
  /\ epoch = 1
  /\ open = TRUE
  /\ recallable = FALSE

Advance ==
  /\ open
  /\ <<stage, stage'>> \in Edges
  /\ epoch' = epoch + 1
  /\ recallable' = TRUE => recallable \/ stage' = "REVIEWED"
  /\ recallable' \in BOOLEAN
  /\ recallable => recallable'
  /\ UNCHANGED open

Close ==
  /\ open
  /\ open' = FALSE
  /\ epoch' = epoch + 1
  /\ UNCHANGED <<stage, recallable>>

Withdraw ==
  /\ open
  /\ stage = "REVIEWED"
  /\ recallable
  /\ recallable' = FALSE
  /\ UNCHANGED <<stage, epoch, open>>

AbsNext == Advance \/ Close \/ Withdraw

AbsSpec == AbsInit /\ [][AbsNext]_absVars
=============================================================================
