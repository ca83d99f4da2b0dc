---------------------------- MODULE ToolRegistry ----------------------------
(***************************************************************************)
(* The WebMCP tool registry of the operator page (static/webmcp.js).       *)
(* reconcile withdraws the tools the manifest no longer offers and then    *)
(* registers the missing ones one after the other, awaiting the browser    *)
(* after each.  Every manifest the page applies starts another reconcile,  *)
(* so calls overlap at their awaits; between awaits JavaScript runs a call *)
(* without interruption, which makes one action of each stretch.           *)
(***************************************************************************)
EXTENDS Naturals, Sequences, SequencesExt

CONSTANTS
  Tools,     \* names with a definition in webmcp.js
  MaxCalls   \* bound: reconcile calls that await the browser at the same time

ASSUME RegistryAssumption == MaxCalls \in Nat \ {0} /\ IsFiniteSet(Tools)

VARIABLES
  registrations,   \* the Map `registrations': tool to AbortController, or NoController
  controllers,     \* the AbortControllers in use and what the browser has of each
  waiting,         \* reconcile calls at their await: controller and names still to do
  currentDesired,  \* the Set of the latest reconcile call
  refused          \* tools the browser has refused since the latest reconcile

registryVars == <<registrations, controllers, waiting, currentDesired, refused>>

NoController == 0
ControllerIds == 1 .. MaxCalls + Cardinality(Tools)

\* "registering": registerTool has been called; "live": the browser offers the
\* tool to agents; "aborted": withdrawn while its call still awaits the browser.
Unused == [name |-> "none", status |-> "unused"]

Live == {c \in ControllerIds : controllers[c].status = "live"}
LiveTools == {controllers[c].name : c \in Live}
Awaited(c) == \E call \in waiting : call.awaiting = c

RegistryInit ==
  /\ registrations = [t \in Tools |-> NoController]
  /\ controllers = [c \in ControllerIds |-> Unused]
  /\ waiting = {}
  /\ currentDesired = {}
  /\ refused = {}

\* Mutant: the tool is entered in the map only once the browser has answered.
LoopWithoutReserving(regs, ctls, calls, names) ==
  LET missing == {i \in DOMAIN names : regs[names[i]] = NoController}
  IN  /\ registrations' = regs
      /\ IF missing = {}
         THEN controllers' = ctls /\ waiting' = calls
         ELSE LET i == Min(missing)
                  c == Min({d \in ControllerIds : ctls[d] = Unused})
              IN  /\ controllers' = [ctls EXCEPT ![c] = [name |-> names[i], status |-> "registering"]]
                  /\ waiting' = calls \cup
                       {[awaiting |-> c, rest |-> SubSeq(names, i + 1, Len(names))]}

\* The registration loop over `names', from the map and controllers it finds: names
\* that are reserved are passed over; the first other one is reserved and awaited.
Loop(regs, ctls, calls, names) ==
  LET missing == {i \in DOMAIN names : regs[names[i]] = NoController}
  IN  IF missing = {}
      THEN registrations' = regs /\ controllers' = ctls /\ waiting' = calls
      ELSE LET i == Min(missing)
               c == Min({d \in ControllerIds : ctls[d] = Unused})
           IN  /\ registrations' = [regs EXCEPT ![names[i]] = c]
               /\ controllers' = [ctls EXCEPT ![c] = [name |-> names[i], status |-> "registering"]]
               /\ waiting' = calls \cup
                    {[awaiting |-> c, rest |-> SubSeq(names, i + 1, Len(names))]}

\* reconcile up to its first await
Reconcile(names) ==
  LET desired == ToSet(names)
      withdrawn == {registrations[t] : t \in Tools \ desired}
  IN  /\ currentDesired' = desired
      /\ refused' = {}
      /\ Loop([t \in Tools |-> IF t \in desired THEN registrations[t] ELSE NoController],
              [c \in ControllerIds |->
                 IF c \notin withdrawn THEN controllers[c]
                 ELSE IF Awaited(c) THEN [controllers[c] EXCEPT !.status = "aborted"]
                 ELSE Unused],
              waiting, names)

\* The browser takes the tool (external); the promise resolves later.
BrowserRegisters(c) ==
  /\ controllers[c].status = "registering"
  /\ controllers' = [controllers EXCEPT ![c].status = "live"]
  /\ UNCHANGED <<registrations, waiting, currentDesired, refused>>

\* The map after controller c of tool t is given up: another owner's entry stays.
Discard(c, t) ==
  [registrations EXCEPT ![t] = IF @ = c THEN NoController ELSE @]

\* Mutant: a registration that resolves late is kept if it was not aborted.
KeptUnlessAborted(c) == controllers[c].status = "live"

\* A registration that resolves is kept only if it was not aborted meanwhile and
\* the latest reconcile still wants the tool.
Kept(c) == controllers[c].status = "live" /\ controllers[c].name \in currentDesired

\* The await of a reconcile call ends and the call goes on with its own names.
Resume(call) ==
  LET c == call.awaiting
      t == controllers[c].name
  IN  /\ controllers[c].status \in {"live", "aborted"}
      /\ IF Kept(c)
         THEN Loop(registrations, controllers, waiting \ {call}, call.rest)
         ELSE Loop(Discard(c, t), [controllers EXCEPT ![c] = Unused], waiting \ {call}, call.rest)
      /\ UNCHANGED <<currentDesired, refused>>

\* Mutant: the failed registration's entry is left in the map.
LeaveReserved(call) ==
  LET c == call.awaiting
      t == controllers[c].name
  IN  /\ controllers[c].status = "registering"
      /\ Loop(registrations, [controllers EXCEPT ![c] = [name |-> t, status |-> "aborted"]],
              waiting \ {call}, call.rest)
      /\ refused' = refused \cup ({t} \cap currentDesired)
      /\ UNCHANGED currentDesired

\* registerTool rejects: the registration fails closed and the call goes on.
RegistrationFails(call) ==
  LET c == call.awaiting
      t == controllers[c].name
  IN  /\ controllers[c].status = "registering"
      /\ Loop(Discard(c, t), [controllers EXCEPT ![c] = Unused], waiting \ {call}, call.rest)
      /\ refused' = refused \cup ({t} \cap currentDesired)
      /\ UNCHANGED currentDesired

-----------------------------------------------------------------------------
(* Properties of the registry, whatever manifests it is given.             *)

\* The map, the abort controllers and the suspended calls of reconcile have their
\* shape.
RegistryTypeOK ==
  /\ registrations \in [Tools -> ControllerIds \cup {NoController}]
  /\ controllers \in [ControllerIds ->
       [name : Tools \cup {"none"}, status : {"unused", "registering", "live", "aborted"}]]
  /\ \A call \in waiting : call.awaiting \in ControllerIds /\ ToSet(call.rest) \subseteq Tools
  /\ currentDesired \subseteq Tools
  /\ refused \subseteq Tools

\* Concurrent refreshes never leave two native registrations of one tool, and
\* every live registration that no call awaits any more is the one in the map, so
\* the next manifest can withdraw it ("one lifecycle owner", reconcile).
OneLifecycleOwner ==
  \A c \in Live :
    /\ \A d \in Live : controllers[c].name = controllers[d].name => c = d
    /\ registrations[controllers[c].name] = c \/ Awaited(c)

\* An older call that resumes late may offer a withdrawn tool only while it still
\* awaits that very registration: the tool is discarded when the call resumes, and
\* once no call waits the agent sees wanted tools only.
WithdrawnIsTransient ==
  \A c \in Live : controllers[c].name \in currentDesired \/ Awaited(c)

\* Whatever overlaps, a wanted tool is reserved, still on the list of a waiting
\* call, or was refused by the browser after it was last asked for.
NoToolForgotten ==
  \A t \in currentDesired :
    \/ /\ registrations[t] # NoController
       /\ controllers[registrations[t]].status \in {"registering", "live"}
    \/ t \in refused
    \/ \E call \in waiting : t \in ToSet(call.rest)
=============================================================================
