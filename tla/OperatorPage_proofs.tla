------------------------ MODULE OperatorPage_proofs ------------------------
(***************************************************************************)
(* Theorems about the tool registry under the operator page, for any tools *)
(* and any number of overlapping reconcile calls, polls and manifests.     *)
(***************************************************************************)
EXTENDS OperatorPage, FiniteSetTheorems, SequenceTheorems, WellFoundedInduction, TLAPS

USE DEF NoController

Used == {"registering", "live", "aborted"}
Call == [awaiting : ControllerIds, rest : Seq(Tools)]
Controller == [name : Tools \cup {"none"}, status : Used \cup {"unused"}]

-----------------------------------------------------------------------------
(* The registry's invariant, of a map, controllers and suspended calls: the *)
(* loop is entered with ones that reconcile or a resumed call has changed.  *)

Shaped(regs, ctls, calls) ==
  /\ regs \in [Tools -> ControllerIds \cup {NoController}]
  /\ ctls \in [ControllerIds -> Controller]
  /\ calls \subseteq Call

\* The map and the controllers in force name each other.
Owned(regs, ctls) ==
  /\ \A t \in Tools : regs[t] # NoController =>
       ctls[regs[t]].name = t /\ ctls[regs[t]].status \in {"registering", "live"}
  /\ \A c \in ControllerIds : ctls[c].status \in {"registering", "live"} =>
       ctls[c].name \in Tools /\ regs[ctls[c].name] = c
  /\ \A c \in ControllerIds : ctls[c].status = "unused" => ctls[c] = Unused

\* A controller is awaited by one call at most, and by one while it registers or
\* after it was aborted.
Held(ctls, calls) ==
  /\ \A call \in calls : ctls[call.awaiting].status # "unused"
  /\ \A x, y \in calls : x.awaiting = y.awaiting => x = y
  /\ \A c \in ControllerIds :
       ctls[c].status \in {"registering", "aborted"} => \E call \in calls : call.awaiting = c

\* What the browser offers is wanted or still awaited.
Wanted(ctls, calls, desired) ==
  \A c \in ControllerIds : ctls[c].status = "live" =>
    ctls[c].name \in desired \/ \E call \in calls : call.awaiting = c

\* A wanted tool is reserved, refused, or on a list: a suspended call's, or the one
\* being worked on.
Asked(regs, calls, desired, gone, names) ==
  \A t \in desired :
    \/ regs[t] # NoController
    \/ t \in gone
    \/ \E call \in calls : t \in ToSet(call.rest)
    \/ t \in ToSet(names)

Counted(calls) == IsFiniteSet(calls) /\ Cardinality(calls) <= MaxCalls

RegistryInv ==
  /\ Shaped(registrations, controllers, waiting)
  /\ Owned(registrations, controllers)
  /\ Held(controllers, waiting)
  /\ Wanted(controllers, waiting, currentDesired)
  /\ Asked(registrations, waiting, currentDesired, refused, <<>>)
  /\ Counted(waiting)
  /\ currentDesired \subseteq Tools /\ refused \subseteq Tools

-----------------------------------------------------------------------------
(* Minima, lists and counting.                                             *)

\* A non-empty set of numbers has the minimum the loop picks.
LEMMA MinFacts ==
  ASSUME NEW S, S \subseteq Nat, S # {}
  PROVE  Min(S) \in S /\ \A y \in S : Min(S) <= y
  <1> DEFINE Less == {p \in Nat \X Nat : p[1] < p[2]}
  <1>1. OpToRel(<, Nat) = Less
    BY Zenon DEF OpToRel
  <1>2. PICK x \in S : \A y \in S : ~(<<y, x>> \in Less)
    BY <1>1, NatLessThanWellFounded, WFMin
  <1>3. \A a, b \in Nat : a < b => <<a, b>> \in Less
    OBVIOUS
  <1> HIDE DEF Less
  <1>4. \A y \in S : ~(y < x)
    BY <1>2, <1>3
  <1>5. \A y \in S : x <= y
    BY <1>4
  <1> QED BY <1>5 DEF Min

\* The names a call has still to do after position i.
LEMMA RestFacts ==
  ASSUME NEW names \in Seq(Tools), NEW i \in DOMAIN names
  PROVE  /\ SubSeq(names, i + 1, Len(names)) \in Seq(Tools)
         /\ \A j \in DOMAIN names : j > i => names[j] \in ToSet(SubSeq(names, i + 1, Len(names)))
  <1> DEFINE rest == SubSeq(names, i + 1, Len(names))
  <1>1. /\ i \in Nat /\ Len(names) \in Nat /\ DOMAIN names = 1 .. Len(names)
        /\ \A j \in i + 1 .. Len(names) : names[j] \in Tools
    OBVIOUS
  <1>2. /\ rest \in Seq(Tools)
        /\ Len(rest) = IF i + 1 <= Len(names) THEN Len(names) - (i + 1) + 1 ELSE 0
        /\ \A k \in 1 .. Len(names) - (i + 1) + 1 : rest[k] = names[(i + 1) + k - 1]
    BY <1>1, SubSeqProperties
  <1> HIDE DEF rest
  <1>3. ASSUME NEW j \in DOMAIN names, j > i PROVE names[j] \in ToSet(rest)
    <2>1. /\ j - i \in 1 .. Len(names) - (i + 1) + 1 /\ j - i \in 1 .. Len(rest)
          /\ (i + 1) + (j - i) - 1 = j
      BY <1>1, <1>2, <1>3
    <2>2. rest[j - i] = names[j]
      BY <1>2, <2>1
    <2>3. DOMAIN rest = 1 .. Len(rest)
      BY <1>2
    <2> QED BY <2>1, <2>2, <2>3 DEF ToSet
  <1> QED BY <1>2, <1>3 DEF rest

\* The image of a finite set is no larger.
LEMMA ImageBound ==
  ASSUME NEW S, IsFiniteSet(S), NEW f, f = [x \in S |-> f[x]]
  PROVE  /\ IsFiniteSet({f[x] : x \in S})
         /\ Cardinality({f[x] : x \in S}) <= Cardinality(S)
  <1> DEFINE T == {f[x] : x \in S}
  <1>1. f \in Surjection(S, T)
    BY DEF Surjection
  <1> HIDE DEF T
  <1>2. IsFiniteSet(T) /\ Cardinality(T) <= Cardinality(S)
    BY <1>1, FS_Surjection
  <1> QED BY <1>2 DEF T

\* With fewer than MaxCalls calls at their await a controller is free: the others
\* are in the map or awaited.
LEMMA FreeController ==
  ASSUME NEW regs, NEW ctls, NEW calls,
         Shaped(regs, ctls, calls), Owned(regs, ctls), Held(ctls, calls),
         IsFiniteSet(calls), Cardinality(calls) < MaxCalls
  PROVE  \E d \in ControllerIds : ctls[d] = Unused
  <1> SUFFICES ASSUME \A d \in ControllerIds : ctls[d] # Unused PROVE FALSE
    OBVIOUS
  <1> DEFINE InMap == {regs[t] : t \in Tools}
             awaited == [call \in calls |-> call.awaiting]
             Waited == {awaited[call] : call \in calls}
             total == MaxCalls + Cardinality(Tools)
  <1>1. ControllerIds \subseteq InMap \cup Waited
    BY DEF Shaped, Owned, Held, Controller, Used
  <1>2. IsFiniteSet(InMap) /\ Cardinality(InMap) <= Cardinality(Tools)
    BY ImageBound, RegistryAssumption DEF Shaped
  <1>3. IsFiniteSet(Waited) /\ Cardinality(Waited) <= Cardinality(calls)
    <2>1. awaited = [call \in calls |-> awaited[call]]
      OBVIOUS
    <2> HIDE DEF awaited
    <2> QED BY <2>1, ImageBound
  <1> HIDE DEF InMap, Waited
  <1>4. /\ Cardinality(InMap) \in Nat /\ Cardinality(Waited) \in Nat
        /\ Cardinality(InMap \cap Waited) \in Nat
        /\ Cardinality(Tools) \in Nat /\ Cardinality(calls) \in Nat /\ MaxCalls \in Nat
    <2>1. IsFiniteSet(InMap \cap Waited)
      BY <1>2, FS_Subset
    <2> QED BY <1>2, <1>3, <2>1, FS_CardinalityType, RegistryAssumption
  <1>5. /\ IsFiniteSet(InMap \cup Waited)
        /\ Cardinality(InMap \cup Waited)
             = Cardinality(InMap) + Cardinality(Waited) - Cardinality(InMap \cap Waited)
    BY <1>2, <1>3, FS_Union
  <1>6. Cardinality(ControllerIds) <= Cardinality(InMap \cup Waited)
    BY <1>1, <1>5, FS_Subset
  <1>7. Cardinality(ControllerIds) = total
    <2>1. total \in Int /\ 1 \in Int /\ total >= 1
      BY <1>4, RegistryAssumption
    <2>2. Cardinality(1 .. total) = total - 1 + 1
      BY <2>1, FS_Interval
    <2> QED BY <2>1, <2>2 DEF ControllerIds
  <1> QED BY <1>2, <1>3, <1>4, <1>5, <1>6, <1>7

-----------------------------------------------------------------------------
(* The registration loop.                                                  *)

\* From a consistent map and fewer than MaxCalls suspended calls the loop leaves a
\* consistent registry: it ends with every name reserved, or reserves the first one
\* that is not, awaits it and keeps the names after it.
LEMMA LoopKeeps ==
  ASSUME NEW regs, NEW ctls, NEW calls, NEW desired, NEW gone, NEW names \in Seq(Tools),
         Shaped(regs, ctls, calls), Owned(regs, ctls), Held(ctls, calls),
         Wanted(ctls, calls, desired), Asked(regs, calls, desired, gone, names),
         IsFiniteSet(calls), Cardinality(calls) < MaxCalls, desired \subseteq Tools,
         Loop(regs, ctls, calls, names)
  PROVE  /\ Shaped(registrations', controllers', waiting')
         /\ Owned(registrations', controllers')
         /\ Held(controllers', waiting')
         /\ Wanted(controllers', waiting', desired)
         /\ Asked(registrations', waiting', desired, gone, <<>>)
         /\ Counted(waiting')
  <1> DEFINE missing == {i \in DOMAIN names : regs[names[i]] = NoController}
  <1>n. /\ DOMAIN names \subseteq Nat /\ \A j \in DOMAIN names : names[j] \in Tools
        /\ Cardinality(calls) \in Nat /\ MaxCalls \in Nat
    BY FS_CardinalityType, RegistryAssumption
  <1>1. CASE missing = {}
    <2>1. registrations' = regs /\ controllers' = ctls /\ waiting' = calls
      BY <1>1 DEF Loop
    <2>2. \A t \in ToSet(names) : regs[t] # NoController
      BY <1>1 DEF ToSet
    <2>3. Asked(regs, calls, desired, gone, <<>>)
      BY <2>2 DEF Asked
    <2>4. Counted(calls)
      BY <1>n DEF Counted
    <2> QED BY <2>1, <2>3, <2>4
  <1>2. CASE missing # {}
    <2> DEFINE free == {d \in ControllerIds : ctls[d] = Unused}
               i == Min(missing)
               c == Min(free)
               t == names[i]
               rest == SubSeq(names, i + 1, Len(names))
               new == [awaiting |-> c, rest |-> rest]
               ctl == [name |-> t, status |-> "registering"]
    <2>1. i \in DOMAIN names /\ regs[t] = NoController /\ t \in Tools
          /\ \A j \in DOMAIN names : regs[names[j]] = NoController => i <= j
      <3>1. missing \subseteq Nat
        BY <1>n
      <3>2. i \in missing /\ \A j \in missing : i <= j
        BY <1>2, <3>1, MinFacts
      <3> HIDE DEF i
      <3> QED BY <1>n, <3>2
    <2>2. c \in ControllerIds /\ ctls[c] = Unused
      <3>1. free \subseteq Nat
        BY RegistryAssumption, FS_CardinalityType DEF ControllerIds
      <3>2. free # {}
        BY FreeController
      <3>3. c \in free
        BY <3>1, <3>2, MinFacts
      <3> QED BY <3>3
    <2>3. /\ rest \in Seq(Tools)
          /\ \A j \in DOMAIN names : j > i => names[j] \in ToSet(rest)
      BY <2>1, RestFacts
    <2>4. /\ registrations' = [regs EXCEPT ![t] = c]
          /\ controllers' = [ctls EXCEPT ![c] = ctl]
          /\ waiting' = calls \cup {new}
      BY <1>2 DEF Loop
    <2>n. t = names[i]
      OBVIOUS
    <2> HIDE DEF missing, free, i, c, t, rest
    <2>5. /\ new.awaiting = c /\ new.rest = rest /\ new \in Call
          /\ ctl.name = t /\ ctl.status = "registering" /\ ctl \in Controller
          /\ ctls[c].status = "unused"
      BY <2>1, <2>2, <2>3 DEF Call, Controller, Used, Unused
    <2>c. c # NoController
      BY <2>2, RegistryAssumption, FS_CardinalityType DEF ControllerIds
    <2>6. \A j \in DOMAIN names : names[j] = t \/ regs[names[j]] # NoController
                                  \/ names[j] \in ToSet(rest)
      <3> SUFFICES ASSUME NEW j \in DOMAIN names, names[j] # t, regs[names[j]] = NoController
                   PROVE  names[j] \in ToSet(rest)
        OBVIOUS
      <3>1. j \in Nat /\ i \in Nat /\ i <= j /\ j # i
        BY <1>n, <2>1, <2>n
      <3>2. j > i
        BY <3>1
      <3> QED BY <2>3, <3>2
    <2> HIDE DEF new, ctl
    <2>7. /\ \A s \in Tools : registrations'[s] = IF s = t THEN c ELSE regs[s]
          /\ \A d \in ControllerIds : controllers'[d] = IF d = c THEN ctl ELSE ctls[d]
      BY <2>1, <2>2, <2>4 DEF Shaped
    <2>8. Shaped(registrations', controllers', waiting')
      BY <2>1, <2>2, <2>4, <2>5 DEF Shaped
    <2>9. Owned(registrations', controllers')
      <3>1. ASSUME NEW s \in Tools, registrations'[s] # NoController
            PROVE  /\ controllers'[registrations'[s]].name = s
                   /\ controllers'[registrations'[s]].status \in {"registering", "live"}
        <4>1. CASE s = t
          BY <2>2, <2>5, <2>7, <4>1
        <4>2. CASE s # t
          <5>1. /\ registrations'[s] = regs[s] /\ regs[s] \in ControllerIds
                /\ ctls[regs[s]].name = s /\ ctls[regs[s]].status \in {"registering", "live"}
            BY <2>7, <3>1, <4>2 DEF Shaped, Owned
          <5> QED BY <2>5, <2>7, <5>1
        <4> QED BY <4>1, <4>2
      <3>2. ASSUME NEW d \in ControllerIds, controllers'[d].status \in {"registering", "live"}
            PROVE  /\ controllers'[d].name \in Tools
                   /\ registrations'[controllers'[d].name] = d
        <4>1. CASE d = c
          BY <2>1, <2>5, <2>7, <4>1
        <4>2. CASE d # c
          <5>1. /\ controllers'[d] = ctls[d] /\ ctls[d].name \in Tools
                /\ regs[ctls[d].name] = d
            BY <2>7, <3>2, <4>2 DEF Owned
          <5>2. ctls[d].name # t
            BY <2>1, <5>1, RegistryAssumption, FS_CardinalityType DEF ControllerIds
          <5> QED BY <2>7, <5>1, <5>2
        <4> QED BY <4>1, <4>2
      <3>3. \A d \in ControllerIds : controllers'[d].status = "unused" => controllers'[d] = Unused
        BY <2>5, <2>7 DEF Owned
      <3> QED BY <3>1, <3>2, <3>3 DEF Owned
    <2>10. \A call \in calls : call.awaiting \in ControllerIds /\ call.awaiting # c
      BY <2>5 DEF Shaped, Call, Held
    <2>11. Held(controllers', waiting')
      BY <2>2, <2>4, <2>5, <2>7, <2>10 DEF Held
    <2>12. Wanted(controllers', waiting', desired)
      BY <2>4, <2>5, <2>7 DEF Wanted
    <2>13. Asked(registrations', waiting', desired, gone, <<>>)
      <3> SUFFICES ASSUME NEW s \in desired, registrations'[s] = NoController, s \notin gone
                   PROVE  \E call \in waiting' : s \in ToSet(call.rest)
        BY DEF Asked
      <3>1. s # t /\ regs[s] = NoController
        BY <2>7, <2>c
      <3>2. (\E call \in calls : s \in ToSet(call.rest)) \/ s \in ToSet(names)
        BY <3>1 DEF Asked
      <3>3. s \in ToSet(names) => s \in ToSet(rest)
        BY <2>6, <3>1 DEF ToSet
      <3> QED BY <2>4, <2>5, <3>2, <3>3
    <2>14. Counted(waiting')
      <3>1. IsFiniteSet(calls \cup {new})
            /\ Cardinality(calls \cup {new}) \in {Cardinality(calls), Cardinality(calls) + 1}
        BY FS_AddElement
      <3> QED BY <1>n, <2>4, <3>1 DEF Counted
    <2> QED BY <2>8, <2>9, <2>11, <2>12, <2>13, <2>14
  <1> QED BY <1>1, <1>2

-----------------------------------------------------------------------------
(* The operations of the registry.                                         *)

\* reconcile: what it withdraws leaves the map, and a controller a call still awaits
\* is aborted, not reused.
LEMMA ReconcileKeeps ==
  ASSUME RegistryInv, Room, NEW names \in Seq(Tools), Reconcile(names)
  PROVE  RegistryInv'
  <1> DEFINE desired == ToSet(names)
             withdrawn == {registrations[t] : t \in Tools \ desired}
             regs == [t \in Tools |-> IF t \in desired THEN registrations[t] ELSE NoController]
             ctls == [c \in ControllerIds |->
                        IF c \notin withdrawn THEN controllers[c]
                        ELSE IF Awaited(c) THEN [controllers[c] EXCEPT !.status = "aborted"]
                        ELSE Unused]
  <1>1. currentDesired' = desired /\ refused' = {} /\ Loop(regs, ctls, waiting, names)
    BY DEF Reconcile
  <1>2. desired \subseteq Tools
    BY DEF ToSet
  <1>3. /\ Shaped(registrations, controllers, waiting) /\ Owned(registrations, controllers)
        /\ Held(controllers, waiting) /\ Counted(waiting)
    BY DEF RegistryInv
  <1>4. \A t \in Tools : regs[t] = IF t \in desired THEN registrations[t] ELSE NoController
    OBVIOUS
  <1>5. \A c \in ControllerIds : c \in withdrawn => \E t \in Tools \ desired : registrations[t] = c
    OBVIOUS
  <1>6. \A t \in Tools \ desired : registrations[t] \in withdrawn
    OBVIOUS
  <1>7. \A c \in ControllerIds :
          /\ c \notin withdrawn => ctls[c] = controllers[c]
          /\ c \in withdrawn /\ Awaited(c) =>
               ctls[c] \in Controller /\ ctls[c].status = "aborted"
          /\ c \in withdrawn /\ ~Awaited(c) => ctls[c] = Unused
    BY <1>3 DEF Shaped, Controller, Used
  <1>8. Shaped(regs, ctls, waiting)
    <2>1. regs \in [Tools -> ControllerIds \cup {NoController}]
      BY <1>3 DEF Shaped
    <2>2. ASSUME NEW c \in ControllerIds PROVE ctls[c] \in Controller
      <3>1. controllers[c] \in Controller /\ Unused \in Controller
        BY <1>3 DEF Shaped, Controller, Used, Unused
      <3> HIDE DEF ctls, withdrawn
      <3> QED BY <1>7, <3>1
    <2> QED BY <1>3, <2>1, <2>2 DEF Shaped
  <1> HIDE DEF desired, withdrawn, regs, ctls
  <1>9. Unused.status = "unused"
    BY DEF Unused
  <1>10. Owned(regs, ctls)
    <2>1. ASSUME NEW t \in Tools, regs[t] # NoController
          PROVE  ctls[regs[t]].name = t /\ ctls[regs[t]].status \in {"registering", "live"}
      <3>1. t \in desired /\ regs[t] = registrations[t] /\ regs[t] \in ControllerIds
        BY <1>3, <1>4, <2>1 DEF Shaped
      <3>2. /\ controllers[regs[t]].name = t
            /\ controllers[regs[t]].status \in {"registering", "live"}
        BY <1>3, <2>1, <3>1 DEF Owned
      <3>3. regs[t] \notin withdrawn
        BY <1>3, <1>5, <2>1, <3>1, <3>2 DEF Owned
      <3> QED BY <1>7, <3>1, <3>2, <3>3
    <2>2. ASSUME NEW c \in ControllerIds, ctls[c].status \in {"registering", "live"}
          PROVE  ctls[c].name \in Tools /\ regs[ctls[c].name] = c
      <3>1. c \notin withdrawn /\ ctls[c] = controllers[c]
        BY <1>7, <1>9, <2>2
      <3>2. controllers[c].name \in Tools /\ registrations[controllers[c].name] = c
        BY <1>3, <2>2, <3>1 DEF Owned
      <3>3. controllers[c].name \in desired
        BY <1>6, <3>1, <3>2
      <3> QED BY <1>4, <3>1, <3>2, <3>3
    <2>3. \A c \in ControllerIds : ctls[c].status = "unused" => ctls[c] = Unused
      BY <1>3, <1>7 DEF Owned
    <2> QED BY <2>1, <2>2, <2>3 DEF Owned
  <1>11. Held(ctls, waiting)
    <2>1. \A call \in waiting : call.awaiting \in ControllerIds /\ Awaited(call.awaiting)
      BY <1>3 DEF Shaped, Call, Awaited
    <2>2. \A call \in waiting : ctls[call.awaiting].status # "unused"
      BY <1>3, <1>7, <2>1 DEF Held
    <2>3. \A c \in ControllerIds :
            ctls[c].status \in {"registering", "aborted"} => \E call \in waiting : call.awaiting = c
      BY <1>3, <1>7, <1>9 DEF Held, Awaited
    <2> QED BY <1>3, <2>2, <2>3 DEF Held
  <1>12. Wanted(ctls, waiting, desired)
    <2> SUFFICES ASSUME NEW c \in ControllerIds, ctls[c].status = "live"
                 PROVE  ctls[c].name \in desired
      BY DEF Wanted
    <2>1. c \notin withdrawn /\ ctls[c] = controllers[c]
      BY <1>7, <1>9
    <2> QED BY <1>3, <1>6, <2>1 DEF Owned
  <1>13. Asked(regs, waiting, desired, {}, names)
    BY DEF Asked, desired
  <1>14. IsFiniteSet(waiting) /\ Cardinality(waiting) < MaxCalls
    BY <1>3 DEF Counted, Room
  <1>15. /\ Shaped(registrations', controllers', waiting')
         /\ Owned(registrations', controllers')
         /\ Held(controllers', waiting')
         /\ Wanted(controllers', waiting', desired)
         /\ Asked(registrations', waiting', desired, {}, <<>>)
         /\ Counted(waiting')
    BY <1>1, <1>2, <1>8, <1>10, <1>11, <1>12, <1>13, <1>14, LoopKeeps
  <1> QED BY <1>1, <1>2, <1>15 DEF RegistryInv

\* The browser takes a tool whose call awaits it.
LEMMA BrowserKeeps ==
  ASSUME RegistryInv, NEW c \in ControllerIds, BrowserRegisters(c)
  PROVE  RegistryInv'
  <1> DEFINE new == [controllers[c] EXCEPT !.status = "live"]
  <1>1. /\ controllers[c] \in Controller /\ controllers[c].status = "registering"
        /\ controllers' = [controllers EXCEPT ![c] = new]
        /\ controllers \in [ControllerIds -> Controller]
    BY DEF RegistryInv, Shaped, BrowserRegisters
  <1>2. /\ new \in Controller /\ new.name = controllers[c].name /\ new.status = "live"
    BY <1>1 DEF Controller, Used
  <1> HIDE DEF new
  <1>3. /\ \A d \in ControllerIds : controllers'[d] = IF d = c THEN new ELSE controllers[d]
        /\ controllers' \in [ControllerIds -> Controller]
    BY <1>1, <1>2
  <1>4. UNCHANGED <<registrations, waiting, currentDesired, refused>>
    BY DEF BrowserRegisters
  <1>5. Shaped(registrations', controllers', waiting')
    BY <1>3, <1>4 DEF RegistryInv, Shaped
  <1>6. Owned(registrations', controllers')
    BY <1>1, <1>2, <1>3, <1>4 DEF RegistryInv, Shaped, Owned
  <1>7. Held(controllers', waiting')
    BY <1>1, <1>2, <1>3, <1>4 DEF RegistryInv, Shaped, Call, Held
  <1>8. Wanted(controllers', waiting', currentDesired')
    BY <1>1, <1>2, <1>3, <1>4 DEF RegistryInv, Held, Wanted
  <1> QED BY <1>4, <1>5, <1>6, <1>7, <1>8 DEF RegistryInv

\* A call that leaves its await counts no more.
LEMMA CallLeaves ==
  ASSUME RegistryInv, NEW call \in waiting
  PROVE  IsFiniteSet(waiting \ {call}) /\ Cardinality(waiting \ {call}) < MaxCalls
  <1>1. IsFiniteSet(waiting) /\ Cardinality(waiting) <= MaxCalls /\ MaxCalls \in Nat
    BY RegistryAssumption DEF RegistryInv, Counted
  <1>2. /\ IsFiniteSet(waiting \ {call})
        /\ Cardinality(waiting \ {call}) = Cardinality(waiting) - 1
    BY <1>1, FS_RemoveElement
  <1> QED BY <1>1, <1>2, FS_CardinalityType

\* A registration given up: its controller is free again, and its tool leaves the
\* map if the controller still owned it, so the tool was refused or is not wanted.
LEMMA DiscardKeeps ==
  ASSUME RegistryInv, NEW call \in waiting, NEW gone, refused \subseteq gone,
         LET c == call.awaiting
             t == controllers[c].name
         IN  /\ t \in currentDesired /\ registrations[t] = c => t \in gone
             /\ Loop(Discard(c, t), [controllers EXCEPT ![c] = Unused], waiting \ {call}, call.rest)
  PROVE  /\ Shaped(registrations', controllers', waiting')
         /\ Owned(registrations', controllers')
         /\ Held(controllers', waiting')
         /\ Wanted(controllers', waiting', currentDesired)
         /\ Asked(registrations', waiting', currentDesired, gone, <<>>)
         /\ Counted(waiting')
  <1> DEFINE c == call.awaiting
             t == controllers[c].name
             regs == Discard(c, t)
             ctls == [controllers EXCEPT ![c] = Unused]
             calls == waiting \ {call}
  <1>1. Loop(regs, ctls, calls, call.rest) /\ (t \in currentDesired /\ registrations[t] = c => t \in gone)
    OBVIOUS
  <1>2. /\ c \in ControllerIds /\ call.rest \in Seq(Tools) /\ currentDesired \subseteq Tools
        /\ registrations \in [Tools -> ControllerIds \cup {NoController}]
        /\ controllers \in [ControllerIds -> Controller]
        /\ Unused \in Controller /\ Unused.status = "unused"
    BY DEF RegistryInv, Shaped, Call, Controller, Used, Unused
  <1>3. /\ \A s \in Tools : regs[s] = IF s = t /\ registrations[s] = c THEN NoController
                                     ELSE registrations[s]
        /\ regs \in [Tools -> ControllerIds \cup {NoController}]
    BY <1>2 DEF Discard
  <1>4. /\ \A d \in ControllerIds : ctls[d] = IF d = c THEN Unused ELSE controllers[d]
        /\ ctls \in [ControllerIds -> Controller]
    BY <1>2
  <1>5. \A x \in calls : x \in waiting /\ x.awaiting # c /\ x.awaiting \in ControllerIds
    BY DEF RegistryInv, Shaped, Call, Held
  <1>6. \A x \in waiting : x.awaiting # c => x \in calls
    OBVIOUS
  <1>7. calls \subseteq waiting /\ waiting \subseteq calls \cup {call}
    OBVIOUS
  <1>t. t = controllers[c].name
    OBVIOUS
  <1> HIDE DEF c, t, regs, ctls, calls
  <1>8. Shaped(regs, ctls, calls)
    BY <1>3, <1>4, <1>7 DEF RegistryInv, Shaped
  <1>9. Owned(regs, ctls)
    <2>1. ASSUME NEW s \in Tools, regs[s] # NoController
          PROVE  ctls[regs[s]].name = s /\ ctls[regs[s]].status \in {"registering", "live"}
      <3>1. /\ regs[s] = registrations[s] /\ regs[s] \in ControllerIds
            /\ controllers[regs[s]].name = s
            /\ controllers[regs[s]].status \in {"registering", "live"}
        BY <1>3, <2>1 DEF RegistryInv, Owned
      <3>2. regs[s] # c
        BY <1>3, <1>t, <2>1, <3>1
      <3> QED BY <1>4, <3>1, <3>2
    <2>2. ASSUME NEW d \in ControllerIds, ctls[d].status \in {"registering", "live"}
          PROVE  ctls[d].name \in Tools /\ regs[ctls[d].name] = d
      <3>1. d # c /\ ctls[d] = controllers[d]
        BY <1>2, <1>4, <2>2
      <3>2. controllers[d].name \in Tools /\ registrations[controllers[d].name] = d
        BY <2>2, <3>1 DEF RegistryInv, Owned
      <3> QED BY <1>3, <3>1, <3>2
    <2>3. \A d \in ControllerIds : ctls[d].status = "unused" => ctls[d] = Unused
      BY <1>4 DEF RegistryInv, Owned
    <2> QED BY <2>1, <2>2, <2>3 DEF Owned
  <1>10. Held(ctls, calls)
    <2>1. \A x \in calls : ctls[x.awaiting].status # "unused"
      BY <1>4, <1>5 DEF RegistryInv, Held
    <2>2. \A x, y \in calls : x.awaiting = y.awaiting => x = y
      BY <1>7 DEF RegistryInv, Held
    <2>3. \A d \in ControllerIds :
            ctls[d].status \in {"registering", "aborted"} => \E x \in calls : x.awaiting = d
      BY <1>2, <1>4, <1>6 DEF RegistryInv, Held
    <2> QED BY <2>1, <2>2, <2>3 DEF Held
  <1>11. Wanted(ctls, calls, currentDesired)
    BY <1>2, <1>4, <1>6 DEF RegistryInv, Wanted
  <1>12. Asked(regs, calls, currentDesired, gone, call.rest)
    <2> SUFFICES ASSUME NEW s \in currentDesired, regs[s] = NoController, s \notin gone
                 PROVE  (\E x \in calls : s \in ToSet(x.rest)) \/ s \in ToSet(call.rest)
      BY DEF Asked
    <2>1. registrations[s] = NoController
      BY <1>1, <1>2, <1>3
    <2>2. s \notin ToSet(<<>>)
      BY DEF ToSet
    <2>3. \E x \in waiting : s \in ToSet(x.rest)
      BY <2>1, <2>2 DEF RegistryInv, Asked
    <2> QED BY <1>7, <2>3
  <1>13. IsFiniteSet(calls) /\ Cardinality(calls) < MaxCalls
    BY CallLeaves DEF calls
  <1> QED BY <1>1, <1>2, <1>8, <1>9, <1>10, <1>11, <1>12, <1>13, LoopKeeps

\* A call resumes: its registration is kept, or given up.
LEMMA ResumeKeeps ==
  ASSUME RegistryInv, NEW call \in waiting, Resume(call)
  PROVE  RegistryInv'
  <1> DEFINE c == call.awaiting
             t == controllers[c].name
             calls == waiting \ {call}
  <1>1. /\ c \in ControllerIds /\ call.rest \in Seq(Tools) /\ currentDesired \subseteq Tools
        /\ controllers[c].status \in {"live", "aborted"}
        /\ UNCHANGED <<currentDesired, refused>>
    BY DEF RegistryInv, Shaped, Call, Resume
  <1>2. /\ Shaped(registrations', controllers', waiting')
        /\ Owned(registrations', controllers')
        /\ Held(controllers', waiting')
        /\ Wanted(controllers', waiting', currentDesired)
        /\ Asked(registrations', waiting', currentDesired, refused, <<>>)
        /\ Counted(waiting')
    <2>1. CASE Kept(c)
      <3>1. Loop(registrations, controllers, calls, call.rest)
        BY <2>1 DEF Resume
      <3>2. controllers[c].status = "live" /\ controllers[c].name \in currentDesired
        BY <2>1 DEF Kept
      <3>3. IsFiniteSet(calls) /\ Cardinality(calls) < MaxCalls
        BY CallLeaves
      <3>4. calls \subseteq waiting /\ waiting \subseteq calls \cup {call}
        OBVIOUS
      <3>5. \A x \in waiting : x.awaiting # c => x \in calls
        OBVIOUS
      <3> HIDE DEF calls, c
      <3>6. Shaped(registrations, controllers, calls) /\ Owned(registrations, controllers)
        BY <3>4 DEF RegistryInv, Shaped
      <3>7. Held(controllers, calls)
        BY <3>2, <3>4, <3>5 DEF RegistryInv, Held
      <3>8. Wanted(controllers, calls, currentDesired)
        BY <3>2, <3>5 DEF RegistryInv, Wanted
      <3>9. Asked(registrations, calls, currentDesired, refused, call.rest)
        <4>1. ToSet(<<>>) = {}
          BY DEF ToSet
        <4> QED BY <3>4, <4>1 DEF RegistryInv, Asked
      <3> QED BY <1>1, <3>1, <3>3, <3>6, <3>7, <3>8, <3>9, LoopKeeps
    <2>2. CASE ~Kept(c)
      <3>1. Loop(Discard(c, t), [controllers EXCEPT ![c] = Unused], calls, call.rest)
        BY <2>2 DEF Resume
      <3>2. t \in currentDesired => registrations[t] # c
        BY <1>1, <2>2 DEF Kept, RegistryInv, Owned, Shaped, ControllerIds
      <3> QED BY <3>1, <3>2, DiscardKeeps
    <2> QED BY <2>1, <2>2
  <1> QED BY <1>1, <1>2 DEF RegistryInv

\* The browser refuses a tool.
LEMMA FailureKeeps ==
  ASSUME RegistryInv, NEW call \in waiting, RegistrationFails(call)
  PROVE  RegistryInv'
  <1> DEFINE c == call.awaiting
             t == controllers[c].name
             gone == refused \cup ({t} \cap currentDesired)
  <1>1. /\ Loop(Discard(c, t), [controllers EXCEPT ![c] = Unused], waiting \ {call}, call.rest)
        /\ refused' = gone /\ currentDesired' = currentDesired
    BY DEF RegistrationFails
  <1>2. refused \subseteq gone /\ (t \in currentDesired => t \in gone)
    OBVIOUS
  <1>3. gone \subseteq Tools /\ currentDesired \subseteq Tools
    BY DEF RegistryInv
  <1> HIDE DEF gone
  <1>4. /\ Shaped(registrations', controllers', waiting')
        /\ Owned(registrations', controllers')
        /\ Held(controllers', waiting')
        /\ Wanted(controllers', waiting', currentDesired)
        /\ Asked(registrations', waiting', currentDesired, gone, <<>>)
        /\ Counted(waiting')
    BY <1>1, <1>2, DiscardKeeps
  <1> QED BY <1>1, <1>3, <1>4 DEF RegistryInv

-----------------------------------------------------------------------------
(* The page: what is on its way carries manifests and phases of the run.   *)

PageInv ==
  /\ server \in Manifest
  /\ shown \in Manifest \cup {Degraded}
  /\ tools \in {ToolsOf[p] : p \in DOMAIN ToolsOf}
  /\ etag \in 0 .. MaxVersion
  /\ faults \in 0 .. MaxFaults
  /\ fetches = [f \in Fetches |-> fetches[f]]
  /\ \A f \in Fetches : fetches[f].status = "ok" => fetches[f].manifest \in Manifest
  /\ \A d \in decisions :
       /\ d.status = "sent" => d.target \in Phases
       /\ d.status = "ok" => d.manifest \in Manifest

\* A manifest's tools are names of webmcp.js.
LEMMA OfferedTools ==
  /\ \A m \in Manifest : /\ m.phase \in DOMAIN ToolsOf
                         /\ m.version \in Nat /\ 1 <= m.version /\ m.version <= MaxVersion
  /\ \A offered \in {ToolsOf[p] : p \in DOMAIN ToolsOf} : offered \in Seq(Tools)
  /\ <<>> \in {ToolsOf[p] : p \in DOMAIN ToolsOf}
  /\ MaxVersion \in Nat /\ MaxFaults \in Nat
  <1>1. \A m \in Manifest : m.phase \in DOMAIN ToolsOf /\ m.version \in 1 .. MaxVersion
    BY DEF Manifest, Phases
  <1>2. \A offered \in {ToolsOf[p] : p \in DOMAIN ToolsOf} : offered \in Seq(Tools)
    BY ToolsAssumption
  <1>3. "CLOSED" \in DOMAIN ToolsOf /\ ToolsOf["CLOSED"] = <<>>
    BY DEF ToolsOf
  <1>4. MaxVersion \in Nat /\ MaxFaults \in Nat
    BY PageAssumption
  <1> HIDE DEF Manifest
  <1> QED BY <1>1, <1>2, <1>3, <1>4

\* The initial state.
LEMMA PageStarts == Init => PageInv /\ RegistryInv
  <1> SUFFICES ASSUME Init PROVE PageInv /\ RegistryInv
    OBVIOUS
  <1>1. PageInv
    <2>1. server \in Manifest
      BY PageAssumption DEF Init, Manifest
    <2>2. fetches = [f \in Fetches |-> Idle] /\ decisions = {} /\ faults = 0
      BY DEF Init, PageInit
    <2>3. fetches = [f \in Fetches |-> fetches[f]]
          /\ \A f \in Fetches : fetches[f].status = "idle"
      BY <2>2 DEF Idle
    <2>4. shown = Degraded /\ tools = <<>> /\ etag = 0
      BY DEF Init, PageInit, NoEtag
    <2> QED BY <2>1, <2>2, <2>3, <2>4, OfferedTools DEF PageInv
  <1>2. RegistryInv
    <2>1. RegistryInit
      BY DEF Init
    <2>2. Cardinality({}) = 0 /\ IsFiniteSet({})
      BY FS_EmptySet
    <2>3. Shaped(registrations, controllers, waiting)
      BY <2>1 DEF RegistryInit, Shaped, Controller, Used, Unused
    <2>4. Owned(registrations, controllers) /\ Held(controllers, waiting)
          /\ Wanted(controllers, waiting, currentDesired)
      BY <2>1 DEF RegistryInit, Owned, Held, Wanted, Unused
    <2>5. Asked(registrations, waiting, currentDesired, refused, <<>>)
      BY <2>1 DEF RegistryInit, Asked
    <2>6. Counted(waiting)
      BY <2>1, <2>2, RegistryAssumption DEF RegistryInit, Counted
    <2> QED BY <2>1, <2>3, <2>4, <2>5, <2>6 DEF RegistryInv, RegistryInit
  <1> QED BY <1>1, <1>2

\* A reload empties the registry as page load does.
LEMMA ReloadKeeps == Reload => RegistryInv'
  <1> SUFFICES ASSUME Reload PROVE RegistryInv'
    OBVIOUS
  <1>1. /\ registrations' = [t \in Tools |-> NoController]
        /\ controllers' = [c \in ControllerIds |-> Unused]
        /\ waiting' = {} /\ currentDesired' = {} /\ refused' = {}
    BY DEF Reload
  <1>2. Cardinality({}) = 0 /\ IsFiniteSet({})
    BY FS_EmptySet
  <1>3. Shaped(registrations', controllers', waiting')
    BY <1>1 DEF Shaped, Controller, Used, Unused
  <1>4. Owned(registrations', controllers') /\ Held(controllers', waiting')
        /\ Wanted(controllers', waiting', currentDesired')
    BY <1>1 DEF Owned, Held, Wanted, Unused
  <1>5. Asked(registrations', waiting', currentDesired', refused', <<>>)
    BY <1>1 DEF Asked
  <1>6. Counted(waiting')
    BY <1>1, <1>2, RegistryAssumption DEF Counted
  <1> QED BY <1>1, <1>3, <1>4, <1>5, <1>6 DEF RegistryInv

\* A step leaves the registry alone or is one of its operations, given names that
\* are tools and room for another call.
LEMMA RegistrySteps ==
  ASSUME PageInv, [Next]_vars
  PROVE  \/ UNCHANGED registryVars
         \/ Room /\ \E names \in Seq(Tools) : Reconcile(names)
         \/ Reload
         \/ \E c \in ControllerIds : BrowserRegisters(c)
         \/ \E call \in waiting : Resume(call) \/ RegistrationFails(call)
  <1>1. CASE UNCHANGED vars \/ ServerMoves \/ Press
    BY <1>1 DEF vars, ServerMoves, Press
  <1>2. ASSUME NEW f \in Fetches, Poll(f) \/ Answer(f) PROVE UNCHANGED registryVars
    BY <1>2 DEF Poll, Answer
  <1>3. ASSUME NEW f \in Fetches, Receive(f)
        PROVE  UNCHANGED registryVars \/ (Room /\ \E names \in Seq(Tools) : Reconcile(names))
    <2>1. CASE fetches[f].status = "ok" /\ Reconcile(ToolsOf[fetches[f].manifest.phase])
      <3>1. ToolsOf[fetches[f].manifest.phase] \in Seq(Tools)
        BY <2>1, OfferedTools DEF PageInv
      <3> QED BY <1>3, <2>1, <3>1 DEF Receive
    <2> QED BY <1>3, <2>1 DEF Receive, Apply
  <1>4. ASSUME NEW f \in Fetches, FetchFails(f)
        PROVE  Room /\ \E names \in Seq(Tools) : Reconcile(names)
    BY <1>4, OfferedTools DEF FetchFails, Apply
  <1>5. ASSUME NEW d \in decisions, Decide(d) PROVE UNCHANGED registryVars
    BY <1>5 DEF Decide
  <1>6. ASSUME NEW d \in decisions, Decided(d)
        PROVE  UNCHANGED registryVars \/ (Room /\ \E names \in Seq(Tools) : Reconcile(names))
    BY <1>6, OfferedTools DEF Decided, Apply, PageInv
  <1>7. ASSUME NEW c \in ControllerIds, Register(c) PROVE BrowserRegisters(c)
    BY <1>7 DEF Register
  <1>8. ASSUME NEW call \in waiting, Continue(call) \/ Refuse(call)
        PROVE  Resume(call) \/ RegistrationFails(call)
    BY <1>8 DEF Continue, Refuse
  <1> QED BY <1>1, <1>2, <1>3, <1>4, <1>5, <1>6, <1>7, <1>8 DEF Next

\* A step keeps the registry's invariant.
LEMMA RegistryStep ==
  ASSUME PageInv, RegistryInv, [Next]_vars
  PROVE  RegistryInv'
  <1>1. CASE UNCHANGED registryVars
    BY <1>1 DEF registryVars, RegistryInv
  <1>2. CASE Room /\ \E names \in Seq(Tools) : Reconcile(names)
    BY <1>2, ReconcileKeeps
  <1>3. CASE Reload
    BY <1>3, ReloadKeeps
  <1>4. CASE \E c \in ControllerIds : BrowserRegisters(c)
    BY <1>4, BrowserKeeps
  <1>5. CASE \E call \in waiting : Resume(call) \/ RegistrationFails(call)
    BY <1>5, ResumeKeeps, FailureKeeps
  <1> QED BY <1>1, <1>2, <1>3, <1>4, <1>5, RegistrySteps

\* A step keeps what the page, its fetches and its decisions carry.
LEMMA PageStep ==
  ASSUME PageInv, [Next]_vars
  PROVE  PageInv'
  <1>i. /\ Idle.status = "idle"
        /\ Degraded \in Manifest \cup {Degraded}
        /\ MaxVersion \in Nat /\ MaxFaults \in Nat /\ NoEtag = 0
        /\ <<>> \in {ToolsOf[p] : p \in DOMAIN ToolsOf}
    BY OfferedTools DEF Idle, NoEtag
  <1>1. CASE UNCHANGED vars
    BY <1>1 DEF vars, pageVars, PageInv
  <1>2. CASE ServerMoves
    <2>1. server' \in Manifest
      <3>1. PICK p \in Phases : server' = [version |-> server.version + 1, phase |-> p]
        BY <1>2 DEF ServerMoves
      <3>2. server.version + 1 \in 1 .. MaxVersion
        BY <1>2, OfferedTools DEF ServerMoves, PageInv
      <3> QED BY <3>1, <3>2 DEF Manifest
    <2> QED BY <1>2, <2>1 DEF ServerMoves, pageVars, PageInv
  <1>3. ASSUME NEW f \in Fetches, Poll(f) PROVE PageInv'
    <2> DEFINE new == [status |-> "sent", etag |-> etag]
    <2>1. fetches' = [fetches EXCEPT ![f] = new] /\ new.status = "sent"
      BY <1>3 DEF Poll
    <2> HIDE DEF new
    <2>2. /\ fetches' = [g \in Fetches |-> fetches'[g]]
          /\ \A g \in Fetches : fetches'[g] = IF g = f THEN new ELSE fetches[g]
      BY <2>1 DEF PageInv
    <2> QED BY <1>3, <2>1, <2>2 DEF Poll, PageInv
  <1>4. ASSUME NEW f \in Fetches, Answer(f) PROVE PageInv'
    <2> DEFINE new == IF Matches(fetches[f].etag) THEN [status |-> "not_modified"]
                      ELSE [status |-> "ok", manifest |-> server]
    <2>1. fetches' = [fetches EXCEPT ![f] = new] /\ (new.status = "ok" => new.manifest = server)
      BY <1>4 DEF Answer
    <2> HIDE DEF new
    <2>2. /\ fetches' = [g \in Fetches |-> fetches'[g]]
          /\ \A g \in Fetches : fetches'[g] = IF g = f THEN new ELSE fetches[g]
      BY <2>1 DEF PageInv
    <2> QED BY <1>4, <2>1, <2>2 DEF Answer, PageInv
  <1>5. ASSUME NEW f \in Fetches, Receive(f) \/ FetchFails(f) PROVE PageInv'
    <2>1. /\ fetches' = [fetches EXCEPT ![f] = Idle]
          /\ UNCHANGED <<server, decisions>>
      BY <1>5 DEF Receive, FetchFails
    <2>2. /\ fetches' = [g \in Fetches |-> fetches'[g]]
          /\ \A g \in Fetches : fetches'[g] = IF g = f THEN Idle ELSE fetches[g]
      BY <2>1 DEF PageInv
    <2>3. /\ shown' \in Manifest \cup {Degraded}
          /\ tools' \in {ToolsOf[p] : p \in DOMAIN ToolsOf}
          /\ etag' \in 0 .. MaxVersion
          /\ faults' \in 0 .. MaxFaults
      <3>1. CASE FetchFails(f)
        BY <1>i, <3>1 DEF FetchFails, Apply, PageInv
      <3>2. CASE Receive(f) /\ fetches[f].status = "ok"
                 /\ etag' = fetches[f].manifest.version
                 /\ Apply(fetches[f].manifest, ToolsOf[fetches[f].manifest.phase])
        <4>1. /\ fetches[f].manifest \in Manifest
              /\ fetches[f].manifest.phase \in DOMAIN ToolsOf
              /\ fetches[f].manifest.version \in 0 .. MaxVersion
          BY <3>2, OfferedTools DEF PageInv
        <4> QED BY <3>2, <4>1 DEF Receive, Apply, PageInv
      <3>3. CASE Receive(f) /\ UNCHANGED <<shown, tools, etag>>
        BY <3>3 DEF Receive, PageInv
      <3> QED BY <1>5, <3>1, <3>2, <3>3 DEF Receive
    <2> QED BY <1>i, <2>1, <2>2, <2>3 DEF PageInv
  <1>6. CASE Press
    <2>1. PICK target \in Phases :
            decisions' = {[status |-> "sent", phase |-> shown.phase, target |-> target,
                           epoch |-> shown.version]}
      BY <1>6 DEF Press
    <2>2. \A d \in decisions' : d.status = "sent" /\ d.target \in Phases
      BY <2>1
    <2> QED BY <1>6, <2>2 DEF Press, PageInv
  <1>7. ASSUME NEW d \in decisions, Decide(d) PROVE PageInv'
    <2> DEFINE target == [version |-> server.version + IF d.target = "POSTCHECK_READY" THEN 2 ELSE 1,
                          phase |-> d.target]
               Accepts(admitted) == admitted /\ d.epoch = server.version
                                    /\ server.phase = d.phase /\ target.version <= MaxVersion
    <2>0. PICK admitted \in BOOLEAN :
            /\ server' = IF Accepts(admitted) THEN target ELSE server
            /\ decisions' = (decisions \ {d}) \cup
                 {IF Accepts(admitted) THEN [status |-> "ok", manifest |-> target]
                  ELSE [status |-> "refused", phase |-> d.phase]}
      BY <1>7 DEF Decide
    <2> DEFINE accepted == Accepts(admitted)
               new == IF accepted THEN [status |-> "ok", manifest |-> target]
                      ELSE [status |-> "refused", phase |-> d.phase]
    <2>1. /\ server' = IF accepted THEN target ELSE server
          /\ decisions' = (decisions \ {d}) \cup {new}
          /\ d.status = "sent"
      BY <1>7, <2>0 DEF Decide
    <2>2. accepted => target \in Manifest
      <3>1. server.version \in Nat /\ 1 <= server.version /\ d.target \in Phases
        BY <2>1, OfferedTools DEF PageInv
      <3>2. target.version \in Nat /\ 1 <= target.version
        BY <3>1
      <3> QED BY <1>i, <3>1, <3>2 DEF Manifest
    <2> HIDE DEF target, accepted
    <2>3. new.status # "sent" /\ (new.status = "ok" => new.manifest \in Manifest)
      BY <2>2
    <2> HIDE DEF new
    <2> QED BY <1>7, <2>1, <2>2, <2>3 DEF Decide, PageInv
  <1>8. ASSUME NEW d \in decisions, Decided(d) PROVE PageInv'
    BY <1>8 DEF Decided, Apply, PageInv
  <1>9. CASE Reload
    <2>1. /\ fetches' = [f \in Fetches |-> Idle] /\ decisions' = {} /\ server' = server
          /\ shown' = Degraded /\ tools' = <<>> /\ etag' = NoEtag
          /\ faults' \in 0 .. MaxFaults
      BY <1>9, <1>i DEF Reload, PageInv
    <2>2. /\ fetches' = [f \in Fetches |-> fetches'[f]]
          /\ \A f \in Fetches : fetches'[f].status = "idle"
      BY <1>i, <2>1
    <2> QED BY <1>i, <2>1, <2>2 DEF PageInv
  <1>10. ASSUME NEW c \in ControllerIds, Register(c) PROVE PageInv'
    BY <1>10 DEF Register, pageVars, PageInv
  <1>11. ASSUME NEW call \in waiting, Continue(call) \/ Refuse(call) PROVE PageInv'
    BY <1>11, <1>i DEF Continue, Refuse, pageVars, PageInv
  <1> QED BY <1>1, <1>2, <1>3, <1>4, <1>5, <1>6, <1>7, <1>8, <1>9, <1>10, <1>11 DEF Next

-----------------------------------------------------------------------------
(* The theorems.                                                           *)

\* The registry's and the page's invariants, under any interleaving of polls,
\* decisions, registrations, refusals and reloads.
LEMMA PageAlways == Spec => [](PageInv /\ RegistryInv)
  <1>1. PageInv /\ RegistryInv /\ [Next]_vars => (PageInv /\ RegistryInv)'
    BY PageStep, RegistryStep
  <1> QED BY PageStarts, <1>1, PTL DEF Spec

\* The page and the registry keep their shape: manifests of the run, tools of one
\* manifest, controllers and lists of known names (app.js, webmcp.js).
THEOREM PageTypeCorrect == Spec => []TypeOK
  <1>1. PageInv /\ RegistryInv => TypeOK
    <2> SUFFICES ASSUME PageInv, RegistryInv PROVE TypeOK
      OBVIOUS
    <2>1. \A call \in waiting : call.awaiting \in ControllerIds /\ ToSet(call.rest) \subseteq Tools
      BY DEF RegistryInv, Shaped, Call, ToSet
    <2>2. RegistryTypeOK
      BY <2>1 DEF RegistryInv, Shaped, Controller, Used, RegistryTypeOK
    <2> QED BY <2>2 DEF PageInv, TypeOK
  <1> QED BY <1>1, PageAlways, PTL

\* However reconcile calls overlap, no tool has two native registrations and every
\* one in force is in the map or awaited by the call that made it, so that the next
\* manifest can withdraw it (reconcile).
THEOREM RegistrationsAreOwned == Spec => []OneLifecycleOwner
  <1>1. RegistryInv => OneLifecycleOwner
    BY DEF RegistryInv, Owned, OneLifecycleOwner, Live
  <1> QED BY <1>1, PageAlways, PTL

\* A tool the latest manifest withdrew is offered only while the call that
\* registered it still awaits the browser (the check after the await in reconcile).
THEOREM WithdrawalsHold == Spec => []WithdrawnIsTransient
  <1>1. RegistryInv => WithdrawnIsTransient
    BY DEF RegistryInv, Wanted, WithdrawnIsTransient, Live, Awaited
  <1> QED BY <1>1, PageAlways, PTL

\* A wanted tool is reserved by a controller in force, refused by the browser, or
\* still on the list of a suspended call, whichever calls overlap (reconcile).
THEOREM WantedToolsAreKept == Spec => []NoToolForgotten
  <1>1. RegistryInv => NoToolForgotten
    <2>1. ToSet(<<>>) = {}
      BY DEF ToSet
    <2> QED BY <2>1 DEF RegistryInv, Owned, Asked, NoToolForgotten
  <1> QED BY <1>1, PageAlways, PTL
=============================================================================
