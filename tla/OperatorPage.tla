---------------------------- MODULE OperatorPage ----------------------------
(***************************************************************************)
(* The operator page of a judge run (static/app.js) between the server and *)
(* the tool registry.  The page polls the capability manifest with         *)
(* If-None-Match, applies the answers in the order they arrive, sends the  *)
(* operator's decisions with the epoch it shows and applies the workflow   *)
(* row their answers carry.  The server is the workflow seen through       *)
(* webmcp_manifest; other tabs, the agent and the reviewer move it too.    *)
(***************************************************************************)
EXTENDS ToolRegistry, FiniteSets

CONSTANTS
  Fetches,     \* bound: refreshWorkflow calls in flight at the same time
  MaxVersion,  \* bound: manifests of the run
  MaxFaults    \* bound: failed fetches, refused registrations and reloads

ASSUME PageAssumption == MaxVersion \in Nat \ {0} /\ MaxFaults \in Nat

VARIABLES
  server,     \* the manifest: version (its etag) and phase
  shown,      \* state.webmcpPhase and state.workflowEpoch
  tools,      \* state.webmcpTools
  etag,       \* state.manifestEtag: a version, or NoEtag
  fetches,    \* per refreshWorkflow call: idle, sent or answered
  decisions,  \* operator requests on their way and answers on their way back
  faults      \* how many faults have happened

pageVars == <<shown, tools, etag, fetches, decisions>>
vars == <<registryVars, server, pageVars, faults>>

NoEtag == 0

\* The phases with the tools webmcp_manifest offers; WITHHELD stands for REVIEWED
\* without a recallable memory and CLOSED for an inactive workflow.
ToolsOf ==
  [p \in {"INVESTIGATING", "AWAITING_OPERATOR_APPROVAL", "APPROVED_AWAITING_EXECUTION",
          "OBSERVING_POSTCHECK", "POSTCHECK_READY", "POSTCHECK_UNAVAILABLE", "PENDING_REVIEW",
          "REVIEWED", "WITHHELD", "CLOSED", "SYNC_UNAVAILABLE"} |->
     CASE p \in {"CLOSED", "SYNC_UNAVAILABLE"} -> <<>>
       [] p = "INVESTIGATING" -> <<"inspect_incident", "propose_mitigation">>
       [] p = "POSTCHECK_READY" -> <<"inspect_incident", "record_postcheck_assessment">>
       [] p = "REVIEWED" -> <<"inspect_incident", "recall_reviewed_memory">>
       [] OTHER -> <<"inspect_incident">>]

\* Every tool a manifest can offer has a definition in webmcp.js.
ASSUME ToolsAssumption == \A p \in DOMAIN ToolsOf : ToolsOf[p] \in Seq(Tools)

Phases == DOMAIN ToolsOf \ {"SYNC_UNAVAILABLE"}

\* How the manifest the cookie selects may move: along the workflow, to its end and,
\* as the tabs of a browser share the cookie, from there to the first phase of the run
\* that a reset in another tab allocates next.
Edges ==
  {<<"INVESTIGATING", "AWAITING_OPERATOR_APPROVAL">>,
   <<"AWAITING_OPERATOR_APPROVAL", "APPROVED_AWAITING_EXECUTION">>,
   <<"AWAITING_OPERATOR_APPROVAL", "INVESTIGATING">>,
   <<"APPROVED_AWAITING_EXECUTION", "OBSERVING_POSTCHECK">>,
   <<"OBSERVING_POSTCHECK", "POSTCHECK_READY">>,
   <<"OBSERVING_POSTCHECK", "POSTCHECK_UNAVAILABLE">>,
   <<"POSTCHECK_UNAVAILABLE", "OBSERVING_POSTCHECK">>,
   <<"POSTCHECK_READY", "PENDING_REVIEW">>, <<"PENDING_REVIEW", "REVIEWED">>,
   <<"PENDING_REVIEW", "WITHHELD">>, <<"REVIEWED", "WITHHELD">>}
  \cup {<<p, "CLOSED">> : p \in Phases \ {"CLOSED"}}
  \cup {<<"CLOSED", "INVESTIGATING">>}

\* What the buttons approve, reject, apply and retry ask for, by the phase in which
\* syncProtectedControls enables them: the phase their answer reports.
Controls ==
  {<<"AWAITING_OPERATOR_APPROVAL", "APPROVED_AWAITING_EXECUTION">>,
   <<"AWAITING_OPERATOR_APPROVAL", "INVESTIGATING">>,
   <<"APPROVED_AWAITING_EXECUTION", "POSTCHECK_READY">>,
   <<"POSTCHECK_UNAVAILABLE", "POSTCHECK_READY">>}

Manifest == [version : 1 .. MaxVersion, phase : Phases]
Degraded == [version |-> 0, phase |-> "SYNC_UNAVAILABLE"]
Idle == [status |-> "idle"]

PageInit ==
  /\ shown = Degraded
  /\ tools = <<>>
  /\ etag = NoEtag
  /\ fetches = [f \in Fetches |-> Idle]
  /\ decisions = {}

Init ==
  /\ server \in [version : {1}, phase : Phases]
  /\ PageInit
  /\ RegistryInit
  /\ faults = 0

-----------------------------------------------------------------------------
(* The server.                                                             *)

\* Another actor, or another tab of the operator, moves the workflow.
ServerMoves ==
  /\ server.version < MaxVersion
  /\ \E p \in Phases :
       /\ <<server.phase, p>> \in Edges
       /\ server' = [version |-> server.version + 1, phase |-> p]
  /\ UNCHANGED <<registryVars, pageVars, faults>>

\* Mutant: any If-None-Match header counts as a match.
MatchesAny(sent) == sent # NoEtag

Matches(sent) == sent = server.version

\* webmcp_capabilities: 304 when If-None-Match is the current etag
Answer(f) ==
  /\ fetches[f].status = "sent"
  /\ fetches' = [fetches EXCEPT ![f] =
       IF Matches(fetches[f].etag) THEN [status |-> "not_modified"]
       ELSE [status |-> "ok", manifest |-> server]]
  /\ UNCHANGED <<registryVars, server, shown, tools, etag, decisions, faults>>

\* approve, apply_sandbox_mitigation, retry_postcheck: the epoch decides; applying
\* and retrying take the workflow through OBSERVING_POSTCHECK to the answer's phase.
\* A decision may be refused all the same: the page names the incident of the run it
\* was loaded for, which may have been replaced, and its session may be over.
Decide(d) ==
  /\ d.status = "sent"
  /\ \E admitted \in BOOLEAN :
     LET target == [version |-> server.version + IF d.target = "POSTCHECK_READY" THEN 2 ELSE 1,
                    phase |-> d.target]
         accepted == admitted /\ d.epoch = server.version /\ server.phase = d.phase
                     /\ target.version <= MaxVersion
     IN  /\ server' = IF accepted THEN target ELSE server
         /\ decisions' = (decisions \ {d}) \cup
              {IF accepted THEN [status |-> "ok", manifest |-> target]
               ELSE [status |-> "refused", phase |-> d.phase]}
  /\ UNCHANGED <<registryVars, shown, tools, etag, fetches, faults>>

-----------------------------------------------------------------------------
(* The page.                                                               *)

Room == Cardinality(waiting) < MaxCalls

\* refreshWorkflow, from the 5 s interval, focus, visibility, the review channel
\* or the end of a tool invocation, up to its await
Poll(f) ==
  /\ fetches[f] = Idle
  /\ fetches' = [fetches EXCEPT ![f] = [status |-> "sent", etag |-> etag]]
  /\ UNCHANGED <<registryVars, server, shown, tools, etag, decisions, faults>>

\* applyWorkflowManifest and setWebMcpPhase: whatever arrives is shown, and the
\* registry is reconciled with the tools the page then holds.
Apply(manifest, offered) ==
  /\ shown' = manifest
  /\ tools' = offered
  /\ Reconcile(offered)

\* refreshWorkflow after its await: 304 changes nothing, 200 is applied.
Receive(f) ==
  /\ Room
  /\ \/ /\ fetches[f].status = "not_modified"
        /\ UNCHANGED <<registryVars, shown, tools, etag>>
     \/ /\ fetches[f].status = "ok"
        /\ etag' = fetches[f].manifest.version
        /\ Apply(fetches[f].manifest, ToolsOf[fetches[f].manifest.phase])
  /\ fetches' = [fetches EXCEPT ![f] = Idle]
  /\ UNCHANGED <<server, decisions, faults>>

\* The fetch fails: enterReadOnlyDegraded withdraws every tool and keeps the etag.
FetchFails(f) ==
  /\ Room
  /\ faults < MaxFaults
  /\ fetches[f] # Idle
  /\ Apply(Degraded, <<>>)
  /\ fetches' = [fetches EXCEPT ![f] = Idle]
  /\ faults' = faults + 1
  /\ UNCHANGED <<server, etag, decisions>>

\* approve, rejectProposal, execute, retryObservation up to their await
Press ==
  /\ decisions = {}
  /\ \E target \in Phases :
       /\ <<shown.phase, target>> \in Controls
       /\ decisions' = {[status |-> "sent", phase |-> shown.phase, target |-> target,
                         epoch |-> shown.version]}
  /\ UNCHANGED <<registryVars, server, shown, tools, etag, fetches, faults>>

\* The answer of a decision: a WorkflowSnapshot carries phase and epoch but neither
\* tools nor etag, so the page keeps those; a refusal only shows an error, after
\* which execute polls (one of the polls Poll allows at any time).
Decided(d) ==
  /\ Room
  /\ \/ /\ d.status = "ok"
        /\ Apply(d.manifest, tools)
     \/ /\ d.status = "refused"
        /\ UNCHANGED <<registryVars, shown, tools>>
  /\ decisions' = decisions \ {d}
  /\ UNCHANGED <<server, etag, fetches, faults>>

\* resetWorkflow, startJudgeScenario and the browser's own reload: the page starts
\* again, with no tool and no etag, and its registrations end with it.
Reload ==
  /\ faults < MaxFaults
  /\ faults' = faults + 1
  /\ shown' = Degraded /\ tools' = <<>> /\ etag' = NoEtag
  /\ fetches' = [f \in Fetches |-> Idle]
  /\ decisions' = {}
  /\ registrations' = [t \in Tools |-> NoController]
  /\ controllers' = [c \in ControllerIds |-> Unused]
  /\ waiting' = {} /\ currentDesired' = {} /\ refused' = {}
  /\ UNCHANGED server

Register(c) == BrowserRegisters(c) /\ UNCHANGED <<server, pageVars, faults>>

Continue(call) == Resume(call) /\ UNCHANGED <<server, pageVars, faults>>

Refuse(call) ==
  /\ faults < MaxFaults
  /\ RegistrationFails(call)
  /\ faults' = faults + 1
  /\ UNCHANGED <<server, pageVars>>

Next ==
  \/ ServerMoves
  \/ \E f \in Fetches : Poll(f) \/ Answer(f) \/ Receive(f) \/ FetchFails(f)
  \/ Press
  \/ \E d \in decisions : Decide(d) \/ Decided(d)
  \/ Reload
  \/ \E c \in ControllerIds : Register(c)
  \/ \E call \in waiting : Continue(call) \/ Refuse(call)

\* The page is visible and the network answers: the interval polls, every fetch
\* and decision is answered, the browser settles every registration.  Decisions,
\* faults and the moves of others owe nothing.
Fairness ==
  /\ \A f \in Fetches : WF_vars(Poll(f)) /\ WF_vars(Answer(f)) /\ WF_vars(Receive(f))
  /\ WF_vars(\E d \in decisions : Decide(d) \/ Decided(d))
  /\ \A c \in ControllerIds :
       /\ WF_vars(Register(c))
       /\ WF_vars(\E call \in waiting : call.awaiting = c /\ Continue(call))

Spec == Init /\ [][Next]_vars /\ Fairness

-----------------------------------------------------------------------------
(* Properties.                                                             *)

\* The page shows a manifest of the server or none, and the tools it last handed to
\* the registry are those of one state, never a mixture (applyWorkflowManifest).
TypeOK ==
  /\ RegistryTypeOK
  /\ server \in Manifest
  /\ shown \in Manifest \cup {Degraded}
  /\ tools \in {ToolsOf[p] : p \in DOMAIN ToolsOf}
  /\ etag \in 0 .. MaxVersion
  /\ faults \in 0 .. MaxFaults

\* However answers are reordered, fetches fail and decisions come back late, the
\* agent's tools settle on the server's tools, less those the browser refuses, or on
\* none at all: the page never rests on a tool the server has withdrawn
\* (refreshWorkflow, reconcile).
NoStaleToolSettles ==
  LET offered == ToSet(ToolsOf[server.phase])
  IN  <>[](LiveTools \subseteq offered /\ (LiveTools = {} \/ offered \ refused \subseteq LiveTools))

\* Documented, and not what the code does: "Agent and protected controls are
\* withdrawn until reconciliation succeeds" (authorityExplanation).  With the
\* network back and the interval polling, a page without tools gets them again.
DegradedRecovers ==
  (shown = Degraded /\ server.version = MaxVersion) ~> (shown # Degraded)
=============================================================================
