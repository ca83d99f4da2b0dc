------------------------ MODULE MemoryRecall_proofs ------------------------
(***************************************************************************)
(* Theorems about governed memories and saved analyses, for any seeds,     *)
(* reviewers, requests and interleaving of reviews with analyses.          *)
(***************************************************************************)
EXTENDS MemoryRecall, FiniteSetTheorems, SequenceTheorems, WellFoundedInduction, TLAPS

States == {"absent", "pending_review", "active", "quarantined"} \cup Terminal
Lifecycle == [state : States, reviewedBy : Reviewers \cup {"nobody"},
              supersededBy : Memories \cup {NoMemory}]

\* The rows: what is active was reviewed, what is superseded has a stored
\* replacement of its version.
RowInv ==
  /\ evidence = [m \in Memories |-> evidence[m]]
  /\ lifecycle \in [Memories -> Lifecycle]
  /\ \A m \in Memories : lifecycle[m].state = "active" =>
       /\ evidence[m].outcome # 0
       /\ evidence[m].observer = Observer => lifecycle[m].reviewedBy \notin {Observer, "nobody"}
  /\ \A m \in Memories : lifecycle[m].supersededBy # NoMemory =>
       /\ lifecycle[m].state = "superseded"
       /\ lifecycle[lifecycle[m].supersededBy].state # "absent"
       /\ evidence[lifecycle[m].supersededBy].version = evidence[m].version

\* A numbering of the memories that grows along superseded_by.
Climbs(f) ==
  \A m \in Memories :
    lifecycle[m].supersededBy # NoMemory => f[m] < f[lifecycle[m].supersededBy]
OrderInv == \E f \in [Memories -> Nat] : Climbs(f)

\* Whoever was answered, was answered with the analysis that is saved.
AnalysisInv ==
  /\ requests = [r \in Requests |-> requests[r]]
  /\ \A r \in Requests :
       /\ requests[r].step = "prepared" => requests[r].analysis # NoAnalysis
       /\ requests[r].step = "answered" =>
            requests[r].analysis = incident /\ incident # NoAnalysis

-----------------------------------------------------------------------------
(* Following superseded_by.                                                *)

\* Every non-empty set of numbers has a least one.
LEMMA LeastNumber ==
  ASSUME NEW S, S \subseteq Nat, S # {}
  PROVE  \E x \in S : \A y \in S : x <= y
  <1> DEFINE Less == {p \in Nat \X Nat : p[1] < p[2]}
  <1>1. OpToRel(<, Nat) = Less
    BY Zenon DEF OpToRel
  <1>2. PICK x \in S : \A y \in S : ~(<<y, x>> \in Less)
    BY <1>1, NatLessThanWellFounded, WFMin
  <1>3. \A a, b \in Nat : a < b => <<a, b>> \in Less
    OBVIOUS
  <1> HIDE DEF Less
  <1>4. \A y \in S : ~(y < x)
    BY <1>2, <1>3
  <1> QED BY <1>4

\* One step along superseded_by.
Onward(g) ==
  [m \in Memories |-> IF g[m] = NoMemory THEN NoMemory ELSE lifecycle[g[m]].supersededBy]

\* The recursive definition of Successor has a solution up to any number of steps.
LEMMA StepsExist ==
  ASSUME NEW N \in Nat
  PROVE  \E s : s = [n \in 0 .. N |-> IF n = 0 THEN ById ELSE Onward(s[n - 1])]
  <1> DEFINE Solves(s, k) == s = [n \in 0 .. k |-> IF n = 0 THEN ById ELSE Onward(s[n - 1])]
             Bad == {k \in Nat : ~\E s : Solves(s, k)}
  <1> SUFFICES ASSUME Bad # {} PROVE FALSE
    OBVIOUS
  <1>1. PICK k \in Bad : \A y \in Bad : k <= y
    BY LeastNumber
  <1>2. k # 0
    <2>1. Solves([n \in 0 .. 0 |-> ById], 0)
      OBVIOUS
    <2> QED BY <1>1, <2>1
  <1>3. k - 1 \in Nat /\ k - 1 \notin Bad
    <2>1. Bad \subseteq Nat
      OBVIOUS
    <2> HIDE DEF Bad
    <2> QED BY <1>1, <1>2, <2>1
  <1>4. PICK s : Solves(s, k - 1)
    BY <1>3
  <1> DEFINE t == [n \in 0 .. k |-> IF n = k THEN Onward(s[k - 1]) ELSE s[n]]
  <1>5. Solves(t, k)
    <2>1. \A n \in 0 .. k : t[n] = IF n = k THEN Onward(s[k - 1]) ELSE s[n]
      OBVIOUS
    <2>2. \A n \in 0 .. k - 1 : s[n] = IF n = 0 THEN ById ELSE Onward(s[n - 1])
      BY <1>4
    <2>3. t = [n \in 0 .. k |-> t[n]]
      OBVIOUS
    <2> HIDE DEF t
    <2>4. ASSUME NEW n \in 0 .. k PROVE t[n] = IF n = 0 THEN ById ELSE Onward(t[n - 1])
      <3>1. CASE n = 0
        BY <1>2, <1>3, <2>1, <2>2, <3>1
      <3>2. CASE n # 0
        <4>1. n \in Nat /\ k \in Nat /\ n - 1 \in 0 .. k /\ n - 1 # k
          BY <1>1, <3>2
        <4>2. t[n - 1] = s[n - 1]
          BY <2>1, <4>1
        <4>3. n # k => n \in 0 .. k - 1
          BY <4>1
        <4>4. n # k => t[n] = s[n] /\ s[n] = Onward(s[n - 1])
          BY <2>1, <2>2, <3>2, <4>3
        <4>5. n = k => t[n] = Onward(s[n - 1])
          BY <2>1
        <4> QED BY <3>2, <4>2, <4>4, <4>5
      <3> QED BY <3>1, <3>2
    <2> QED BY <2>3, <2>4
  <1> QED BY <1>1, <1>5

\* What Successor's definition says.
LEMMA SuccessorSteps ==
  /\ Successor[0] = ById
  /\ \A n \in 1 .. MemoryCount : Successor[n] = Onward(Successor[n - 1])
  <1> DEFINE Solves(s) == s = [n \in 0 .. MemoryCount |-> IF n = 0 THEN ById ELSE Onward(s[n - 1])]
  <1>1. Successor = CHOOSE s : Solves(s)
    BY DEF Successor, Onward
  <1>2. \E s : Solves(s)
    BY StepsExist, RecallAssumption
  <1>3. Solves(Successor)
    <2> HIDE DEF Solves
    <2> QED BY <1>1, <1>2
  <1> QED BY <1>3, RecallAssumption

\* With a numbering that grows along superseded_by no path is longer than there are
\* memories.
LEMMA PathsEnd ==
  ASSUME lifecycle \in [Memories -> Lifecycle], OrderInv, NEW m \in Memories
  PROVE  Successor[MemoryCount][m] = NoMemory
  <1> SUFFICES ASSUME Successor[MemoryCount][m] # NoMemory PROVE FALSE
    OBVIOUS
  <1>f. PICK f \in [Memories -> Nat] : Climbs(f)
    BY DEF OrderInv
  <1> DEFINE at(n) == Successor[n][m]
             Path(n) == /\ at(n) \in Memories \cup {NoMemory}
                        /\ at(n) # NoMemory =>
                             /\ \A j \in 0 .. n : at(j) \in Memories
                             /\ \A i, j \in 0 .. n : i < j => f[at(i)] < f[at(j)]
             Bad == {n \in 0 .. MemoryCount : ~Path(n)}
  <1>n. MemoryCount \in Nat /\ NoMemory \notin Memories
    BY RecallAssumption DEF Memories, NoMemory
  <1>1. at(0) = m
    BY SuccessorSteps DEF ById
  <1>2. \A n \in 1 .. MemoryCount :
          at(n) = IF at(n - 1) = NoMemory THEN NoMemory ELSE lifecycle[at(n - 1)].supersededBy
    <2> SUFFICES ASSUME NEW n \in 1 .. MemoryCount
                 PROVE  at(n) = IF at(n - 1) = NoMemory THEN NoMemory
                                ELSE lifecycle[at(n - 1)].supersededBy
      OBVIOUS
    <2>1. Successor[n] = Onward(Successor[n - 1])
      BY SuccessorSteps
    <2> QED BY <2>1 DEF Onward
  <1> HIDE DEF at
  <1>3. Bad = {}
    <2> SUFFICES ASSUME Bad # {} PROVE FALSE
      OBVIOUS
    <2>1. PICK n \in Bad : \A y \in Bad : n <= y
      <3>1. Bad \subseteq Nat
        BY <1>n
      <3> HIDE DEF Bad
      <3> QED BY <3>1, LeastNumber
    <2>2. n # 0
      <3>1. Path(0)
        BY <1>1
      <3> QED BY <2>1, <3>1
    <2>3. n \in 1 .. MemoryCount /\ n - 1 \in 0 .. MemoryCount /\ n \in Nat
      BY <1>n, <2>1, <2>2
    <2>4. Path(n - 1)
      <3>1. n - 1 \notin Bad
        BY <2>1, <2>3
      <3> HIDE DEF Path
      <3> QED BY <2>3, <3>1
    <2>5. at(n) \in Memories \cup {NoMemory}
      BY <1>2, <2>3, <2>4 DEF Lifecycle
    <2>6. ASSUME at(n) # NoMemory
          PROVE  /\ \A j \in 0 .. n : at(j) \in Memories
                 /\ \A i, j \in 0 .. n : i < j => f[at(i)] < f[at(j)]
      <3>1. at(n - 1) # NoMemory /\ at(n) = lifecycle[at(n - 1)].supersededBy
        BY <1>2, <2>3, <2>6
      <3>2. /\ \A j \in 0 .. n - 1 : at(j) \in Memories
            /\ \A i, j \in 0 .. n - 1 : i < j => f[at(i)] < f[at(j)]
        BY <2>4, <3>1
      <3>3. \A j \in 0 .. n : at(j) \in Memories
        BY <2>3, <2>5, <2>6, <3>2
      <3>4. f[at(n - 1)] < f[at(n)]
        BY <1>f, <2>3, <2>6, <3>1, <3>3 DEF Climbs
      <3>5. ASSUME NEW i \in 0 .. n, NEW j \in 0 .. n, i < j PROVE f[at(i)] < f[at(j)]
        <4>1. i \in 0 .. n - 1 /\ f[at(i)] \in Nat /\ f[at(j)] \in Nat
              /\ f[at(n - 1)] \in Nat /\ n - 1 \in 0 .. n - 1
          BY <2>3, <3>3, <3>5
        <4>2. CASE j # n
          BY <2>3, <3>2, <3>5, <4>1, <4>2
        <4>3. CASE j = n
          <5>1. i = n - 1 \/ f[at(i)] < f[at(n - 1)]
            BY <2>3, <3>2, <4>1
          <5> QED BY <3>4, <4>1, <4>3, <5>1
        <4> QED BY <4>2, <4>3
      <3> QED BY <3>3, <3>5
    <2> QED BY <2>1, <2>5, <2>6
  <1>4. /\ \A j \in 0 .. MemoryCount : at(j) \in Memories
        /\ \A i, j \in 0 .. MemoryCount : i < j => f[at(i)] < f[at(j)]
    <2>1. Path(MemoryCount)
      <3> HIDE DEF Path
      <3> QED BY <1>3, <1>n
    <2>2. at(MemoryCount) # NoMemory
      BY DEF at
    <2> QED BY <2>1, <2>2
  <1> DEFINE path == [j \in 0 .. MemoryCount |-> at(j)]
  <1>5. path \in [0 .. MemoryCount -> Memories] /\ \A j \in 0 .. MemoryCount : path[j] = at(j)
    BY <1>4
  <1> HIDE DEF path
  <1>6. /\ IsFiniteSet(0 .. MemoryCount) /\ Cardinality(0 .. MemoryCount) = MemoryCount + 1
        /\ IsFiniteSet(Memories) /\ Cardinality(Memories) = MemoryCount
    <2>1. \A a, b \in Int : IsFiniteSet(a .. b)
                            /\ Cardinality(a .. b) = IF a > b THEN 0 ELSE b - a + 1
      BY FS_Interval
    <2> QED BY <1>n, <2>1 DEF Memories
  <1>7. PICK x, y \in 0 .. MemoryCount : x # y /\ path[x] = path[y]
    BY <1>n, <1>5, <1>6, FS_PigeonHole
  <1>8. x < y \/ y < x
    BY <1>n, <1>7
  <1>9. f[at(x)] \in Nat /\ at(x) = at(y)
    BY <1>4, <1>5, <1>7
  <1> QED BY <1>4, <1>8, <1>9

-----------------------------------------------------------------------------
(* The invariants.                                                         *)

\* Which states a governance action may reach.
LEMMA Targets ==
  \A s, target : target \in Allowed(s) => target \in States /\ target # "absent"
  BY Zenon DEF Allowed, States, Terminal

\* A superseded memory is at the end of its life cycle.
LEMMA SupersededIsTerminal == Allowed("superseded") = {} /\ Allowed("absent") = {}
  BY Zenon DEF Allowed

\* The seeded table satisfies the strengthenings.
LEMMA RecallStarts == Init => RowInv /\ OrderInv /\ AnalysisInv
  <1> SUFFICES ASSUME Init PROVE RowInv /\ OrderInv /\ AnalysisInv
    OBVIOUS
  <1>1. PICK seed \in Seeds :
          /\ evidence = [m \in Memories |-> IF m \in DOMAIN seed THEN seed[m] ELSE NoEvidence]
          /\ lifecycle = [m \in Memories |->
               [state |-> IF m \in DOMAIN seed THEN "active" ELSE "absent",
                reviewedBy |-> "nobody", supersededBy |-> NoMemory]]
    BY DEF Init
  <1>2. \A m \in Memories : /\ lifecycle[m].supersededBy = NoMemory
                            /\ lifecycle[m].state = "active" => m \in DOMAIN seed
    BY <1>1
  <1>3. lifecycle \in [Memories -> Lifecycle]
    BY <1>1 DEF Lifecycle, States
  <1>4. RowInv
    <2>1. evidence = [m \in Memories |-> evidence[m]]
      BY <1>1
    <2>2. \A m \in DOMAIN seed : seed[m].outcome # 0 /\ seed[m].observer # Observer
      BY SeedAssumption
    <2>3. \A m \in Memories : m \in DOMAIN seed => evidence[m] = seed[m]
      BY <1>1
    <2> QED BY <1>2, <1>3, <2>1, <2>2, <2>3 DEF RowInv
  <1>5. OrderInv
    <2>1. [m \in Memories |-> 0] \in [Memories -> Nat]
      OBVIOUS
    <2>2. Climbs([m \in Memories |-> 0])
      BY <1>2 DEF Climbs
    <2> QED BY <2>1, <2>2 DEF OrderInv
  <1>6. AnalysisInv
    BY DEF Init, AnalysisInv
  <1> QED BY <1>4, <1>5, <1>6

\* What one governance action does to the rows.
LEMMA GovernedRow ==
  ASSUME RowInv, NEW m \in Memories, NEW actor \in Reviewers, NEW action \in DOMAIN Target,
         NEW replacement \in Memories \cup {NoMemory}, Govern(m, actor, action, replacement)
  PROVE  /\ evidence' = evidence
         /\ lifecycle' \in [Memories -> Lifecycle]
         /\ \A n \in Memories : n # m => lifecycle'[n] = lifecycle[n]
         /\ lifecycle'[m].state = Target[action] /\ Target[action] # "absent"
         /\ lifecycle'[m].reviewedBy = actor /\ lifecycle'[m].supersededBy = replacement
         /\ lifecycle[m].state \notin {"absent", "superseded"}
         /\ lifecycle[m].supersededBy = NoMemory
         /\ Target[action] = "active" => Conclusive(m) /\ Independent(m, actor)
         /\ IF Target[action] = "superseded" THEN Replacement(m, replacement)
            ELSE replacement = NoMemory
  <1> DEFINE target == Target[action]
             new == [state |-> target, reviewedBy |-> actor, supersededBy |-> replacement]
  <1>1. /\ target \in Allowed(lifecycle[m].state)
        /\ lifecycle' = [lifecycle EXCEPT ![m] = new] /\ evidence' = evidence
        /\ target = "active" => Conclusive(m) /\ Independent(m, actor)
        /\ IF target = "superseded" THEN Replacement(m, replacement) ELSE replacement = NoMemory
    BY DEF Govern
  <1> HIDE DEF target
  <1>2. target \in States /\ target # "absent"
    BY <1>1, Targets
  <1>3. /\ new.state = target /\ new.reviewedBy = actor /\ new.supersededBy = replacement
        /\ new \in Lifecycle
    BY <1>2 DEF Lifecycle
  <1>4. lifecycle[m].state \notin {"absent", "superseded"}
    BY <1>1, SupersededIsTerminal
  <1>5. lifecycle[m].supersededBy = NoMemory
    BY <1>4 DEF RowInv
  <1> HIDE DEF new
  <1>6. /\ lifecycle' \in [Memories -> Lifecycle] /\ lifecycle'[m] = new
        /\ \A n \in Memories : n # m => lifecycle'[n] = lifecycle[n]
    BY <1>1, <1>3 DEF RowInv
  <1> QED BY <1>1, <1>2, <1>3, <1>4, <1>5, <1>6 DEF target

\* What learning the incident's outcome does to the rows.
LEMMA LearnedRow ==
  ASSUME RowInv, Learn
  PROVE  /\ evidence' = [n \in Memories |-> evidence'[n]]
         /\ lifecycle' \in [Memories -> Lifecycle]
         /\ \A n \in Memories : n # New => lifecycle'[n] = lifecycle[n] /\ evidence'[n] = evidence[n]
         /\ lifecycle[New].state = "absent" /\ lifecycle[New].supersededBy = NoMemory
         /\ lifecycle'[New].state = "pending_review" /\ lifecycle'[New].supersededBy = NoMemory
         /\ New \in Memories
  <1> DEFINE new == [lifecycle[New] EXCEPT !.state = "pending_review"]
  <1>1. New \in Memories
    BY RecallAssumption DEF Memories
  <1>2. lifecycle[New] \in Lifecycle /\ lifecycle[New].state = "absent"
    BY <1>1 DEF RowInv, Learn
  <1>3. lifecycle[New].supersededBy = NoMemory
    BY <1>1, <1>2 DEF RowInv
  <1>4. /\ new \in Lifecycle /\ new.state = "pending_review"
        /\ new.supersededBy = lifecycle[New].supersededBy
    BY <1>2 DEF Lifecycle, States
  <1>5. lifecycle' = [lifecycle EXCEPT ![New] = new]
    BY DEF Learn
  <1> HIDE DEF new
  <1>6. /\ lifecycle' \in [Memories -> Lifecycle] /\ lifecycle'[New] = new
        /\ \A n \in Memories : n # New => lifecycle'[n] = lifecycle[n]
    BY <1>1, <1>4, <1>5 DEF RowInv
  <1>7. \E row : evidence' = [evidence EXCEPT ![New] = row]
    BY DEF Learn
  <1>8. /\ evidence' = [n \in Memories |-> evidence'[n]]
        /\ \A n \in Memories : n # New => evidence'[n] = evidence[n]
    BY <1>7 DEF RowInv
  <1> QED BY <1>1, <1>2, <1>3, <1>4, <1>6, <1>8

\* A step keeps the rows' invariant.
LEMMA RowStep ==
  ASSUME RowInv, [Next]_vars
  PROVE  RowInv'
  <1>1. ASSUME NEW m \in Memories, NEW actor \in Reviewers, NEW action \in DOMAIN Target,
               NEW replacement \in Memories \cup {NoMemory}, Govern(m, actor, action, replacement)
        PROVE  RowInv'
    <2>1. /\ evidence' = evidence
          /\ lifecycle' \in [Memories -> Lifecycle]
          /\ \A n \in Memories : n # m => lifecycle'[n] = lifecycle[n]
          /\ lifecycle'[m].state = Target[action] /\ Target[action] # "absent"
          /\ lifecycle'[m].reviewedBy = actor /\ lifecycle'[m].supersededBy = replacement
          /\ Target[action] = "active" => Conclusive(m) /\ Independent(m, actor)
          /\ IF Target[action] = "superseded" THEN Replacement(m, replacement)
             ELSE replacement = NoMemory
      BY <1>1, GovernedRow
    <2>2. ASSUME NEW n \in Memories, lifecycle'[n].state = "active"
          PROVE  /\ evidence'[n].outcome # 0
                 /\ evidence'[n].observer = Observer =>
                      lifecycle'[n].reviewedBy \notin {Observer, "nobody"}
      <3>1. CASE n # m
        BY <2>1, <2>2, <3>1 DEF RowInv
      <3>2. CASE n = m
        <4>1. evidence[m].outcome # 0 /\ evidence[m].observer # actor
          BY <2>1, <2>2, <3>2 DEF Conclusive, Independent
        <4>2. actor # "nobody"
          BY SeedAssumption
        <4> QED BY <2>1, <3>2, <4>1, <4>2
      <3> QED BY <3>1, <3>2
    <2>3. ASSUME NEW n \in Memories, lifecycle'[n].supersededBy # NoMemory
          PROVE  /\ lifecycle'[n].state = "superseded"
                 /\ lifecycle'[lifecycle'[n].supersededBy].state # "absent"
                 /\ evidence'[lifecycle'[n].supersededBy].version = evidence'[n].version
      <3>1. CASE n # m
        <4>1. /\ lifecycle'[n] = lifecycle[n] /\ lifecycle[n].supersededBy \in Memories
              /\ lifecycle[n].state = "superseded"
              /\ lifecycle[lifecycle[n].supersededBy].state # "absent"
              /\ evidence[lifecycle[n].supersededBy].version = evidence[n].version
          BY <2>1, <2>3, <3>1 DEF RowInv, Lifecycle
        <4> QED BY <2>1, <4>1
      <3>2. CASE n = m
        <4>1. Target[action] = "superseded" /\ Replacement(m, replacement)
          BY <2>1, <2>3, <3>2
        <4>2. /\ replacement # m /\ replacement \in Memories
              /\ lifecycle[replacement].state = "active"
              /\ evidence[replacement].version = evidence[m].version
          BY <4>1 DEF Replacement, Eligible, Stored
        <4> QED BY <2>1, <3>2, <4>1, <4>2
      <3> QED BY <3>1, <3>2
    <2>4. evidence' = [n \in Memories |-> evidence'[n]]
      BY <2>1 DEF RowInv
    <2> QED BY <2>1, <2>2, <2>3, <2>4 DEF RowInv
  <1>2. CASE Learn
    <2>1. /\ evidence' = [n \in Memories |-> evidence'[n]]
          /\ lifecycle' \in [Memories -> Lifecycle]
          /\ \A n \in Memories :
               n # New => lifecycle'[n] = lifecycle[n] /\ evidence'[n] = evidence[n]
          /\ lifecycle[New].state = "absent" /\ lifecycle[New].supersededBy = NoMemory
          /\ lifecycle'[New].state = "pending_review" /\ lifecycle'[New].supersededBy = NoMemory
      BY <1>2, LearnedRow
    <2>2. ASSUME NEW n \in Memories, lifecycle'[n].supersededBy # NoMemory
          PROVE  /\ lifecycle'[n].state = "superseded"
                 /\ lifecycle'[lifecycle'[n].supersededBy].state # "absent"
                 /\ evidence'[lifecycle'[n].supersededBy].version = evidence'[n].version
      <3>1. n # New /\ lifecycle'[n] = lifecycle[n] /\ evidence'[n] = evidence[n]
        BY <2>1, <2>2
      <3>2. /\ lifecycle[n].supersededBy \in Memories /\ lifecycle[n].state = "superseded"
            /\ lifecycle[lifecycle[n].supersededBy].state # "absent"
            /\ evidence[lifecycle[n].supersededBy].version = evidence[n].version
        BY <2>2, <3>1 DEF RowInv, Lifecycle
      <3> QED BY <2>1, <3>1, <3>2
    <2>3. \A n \in Memories : lifecycle'[n].state = "active" =>
            /\ evidence'[n].outcome # 0
            /\ evidence'[n].observer = Observer => lifecycle'[n].reviewedBy \notin {Observer, "nobody"}
      BY <2>1 DEF RowInv
    <2> QED BY <2>1, <2>2, <2>3 DEF RowInv
  <1>3. CASE UNCHANGED <<evidence, lifecycle>>
    BY <1>3 DEF RowInv
  <1>4. UNCHANGED vars \/ (\E r \in Requests : Prepare(r) \/ Persist(r))
          \/ (\E m \in Memories : TimePasses(m)) => UNCHANGED <<evidence, lifecycle>>
    BY DEF vars, Prepare, Persist, TimePasses
  <1> QED BY <1>1, <1>2, <1>3, <1>4 DEF Next

\* A step keeps the memories ordered: a replacement is active, so no path leads on
\* from it and it can be numbered above whatever it replaces.
LEMMA OrderStep ==
  ASSUME RowInv, OrderInv, [Next]_vars
  PROVE  OrderInv'
  <1>f. PICK f \in [Memories -> Nat] : Climbs(f)
    BY DEF OrderInv
  <1>1. ASSUME NEW m \in Memories, NEW actor \in Reviewers, NEW action \in DOMAIN Target,
               NEW replacement \in Memories \cup {NoMemory}, Govern(m, actor, action, replacement)
        PROVE  OrderInv'
    <2>1. /\ \A n \in Memories : n # m => lifecycle'[n] = lifecycle[n]
          /\ lifecycle'[m].supersededBy = replacement
          /\ IF Target[action] = "superseded" THEN Replacement(m, replacement)
             ELSE replacement = NoMemory
      BY <1>1, GovernedRow
    <2>2. CASE replacement = NoMemory
      <3>1. Climbs(f)'
        BY <1>f, <2>1, <2>2 DEF Climbs
      <3> QED BY <3>1 DEF OrderInv
    <2>3. CASE replacement # NoMemory
      <3>1. replacement # m /\ replacement \in Memories /\ lifecycle[replacement].state = "active"
        BY <2>1, <2>3 DEF Replacement, Eligible, Stored
      <3>2. lifecycle[replacement].supersededBy = NoMemory
        BY <3>1 DEF RowInv
      <3> DEFINE g == [f EXCEPT ![replacement] = f[m] + f[replacement] + 1]
      <3>3. /\ g \in [Memories -> Nat]
            /\ \A n \in Memories : n # replacement => g[n] = f[n]
            /\ g[replacement] = f[m] + f[replacement] + 1
        BY <3>1
      <3> HIDE DEF g
      <3>4. ASSUME NEW n \in Memories, lifecycle'[n].supersededBy # NoMemory
            PROVE  g[n] < g[lifecycle'[n].supersededBy]
        <4>1. CASE n = m
          BY <2>1, <3>1, <3>3, <4>1
        <4>2. CASE n # m
          <5>1. /\ n # replacement /\ lifecycle'[n] = lifecycle[n]
                /\ lifecycle[n].supersededBy \in Memories
                /\ f[n] < f[lifecycle[n].supersededBy]
            BY <1>f, <2>1, <3>2, <3>4, <4>2 DEF Climbs, RowInv, Lifecycle
          <5>2. f[n] \in Nat /\ f[m] \in Nat /\ f[replacement] \in Nat
            BY <3>1
          <5>3. CASE lifecycle[n].supersededBy = replacement
            BY <3>3, <5>1, <5>2, <5>3
          <5>4. CASE lifecycle[n].supersededBy # replacement
            BY <3>3, <5>1, <5>4
          <5> QED BY <5>3, <5>4
        <4> QED BY <4>1, <4>2
      <3>5. Climbs(g)'
        BY <3>4 DEF Climbs
      <3> QED BY <3>3, <3>5 DEF OrderInv
    <2> QED BY <2>2, <2>3
  <1>2. CASE Learn
    <2>1. \A n \in Memories : lifecycle'[n].supersededBy = lifecycle[n].supersededBy
      BY <1>2, LearnedRow
    <2>2. Climbs(f)'
      BY <1>f, <2>1 DEF Climbs
    <2> QED BY <2>2 DEF OrderInv
  <1>3. CASE UNCHANGED lifecycle
    BY <1>3 DEF OrderInv, Climbs
  <1>4. UNCHANGED vars \/ (\E r \in Requests : Prepare(r) \/ Persist(r))
          \/ (\E m \in Memories : TimePasses(m)) => UNCHANGED lifecycle
    BY DEF vars, Prepare, Persist, TimePasses
  <1> QED BY <1>1, <1>2, <1>3, <1>4 DEF Next

\* A step keeps answered requests in agreement with the saved analysis.
LEMMA AnalysisStep ==
  ASSUME AnalysisInv, [Next]_vars
  PROVE  AnalysisInv'
  <1>1. ASSUME NEW r \in Requests, Prepare(r) PROVE AnalysisInv'
    <2>1. PICK found : requests' = [requests EXCEPT ![r] =
                                      [step |-> "prepared", analysis |-> Analysis(found)]]
      BY <1>1 DEF Prepare
    <2> DEFINE new == [step |-> "prepared", analysis |-> Analysis(found)]
    <2>2. Analysis(found) # NoAnalysis
      <3>1. Analysis(found).saved = TRUE /\ NoAnalysis.saved = FALSE
        BY DEF Analysis, NoAnalysis
      <3> QED BY <3>1
    <2>3. new.step = "prepared" /\ new.analysis # NoAnalysis
      BY <2>2
    <2> HIDE DEF new
    <2>4. /\ requests' = [q \in Requests |-> requests'[q]]
          /\ \A q \in Requests : requests'[q] = IF q = r THEN new ELSE requests[q]
      BY <2>1 DEF AnalysisInv, new
    <2>5. incident' = incident
      BY <1>1 DEF Prepare
    <2> QED BY <2>3, <2>4, <2>5 DEF AnalysisInv
  <1>2. ASSUME NEW r \in Requests, Persist(r) PROVE AnalysisInv'
    <2> DEFINE new == [step |-> "answered", analysis |-> incident']
    <2>1. requests' = [requests EXCEPT ![r] = new] /\ requests[r].step = "prepared"
          /\ incident' = IF incident = NoAnalysis THEN requests[r].analysis ELSE incident
      BY <1>2 DEF Persist, Save
    <2>2. new.step = "answered" /\ new.analysis = incident'
      OBVIOUS
    <2> HIDE DEF new
    <2>3. /\ requests' = [q \in Requests |-> requests'[q]]
          /\ \A q \in Requests : requests'[q] = IF q = r THEN new ELSE requests[q]
      BY <2>1 DEF AnalysisInv
    <2>4. incident' # NoAnalysis
      BY <2>1 DEF AnalysisInv
    <2> QED BY <2>1, <2>2, <2>3, <2>4 DEF AnalysisInv
  <1>3. CASE UNCHANGED <<requests, incident>>
    BY <1>3 DEF AnalysisInv
  <1>4. UNCHANGED vars \/ Learn \/ (\E m \in Memories : TimePasses(m))
          \/ (\E m \in Memories, actor \in Reviewers, action \in DOMAIN Target,
                replacement \in Memories \cup {NoMemory} : Govern(m, actor, action, replacement))
        => UNCHANGED <<requests, incident>>
    BY DEF vars, Learn, TimePasses, Govern
  <1> QED BY <1>1, <1>2, <1>3, <1>4 DEF Next

-----------------------------------------------------------------------------
(* Ranking.                                                                *)

\* Every memory has scores and an age.
ScoreInv ==
  /\ evidence = [m \in Memories |-> evidence[m]]
  /\ age \in [Memories -> 0 .. 2]
  /\ \A m \in Memories :
       evidence[m].outcome \in Int /\ evidence[m].similarity \in Int
         /\ evidence[m].confidence \in Int

\* The seeds have.
LEMMA ScoresStart == Init => ScoreInv
  <1> SUFFICES ASSUME Init PROVE ScoreInv
    OBVIOUS
  <1>1. PICK seed \in Seeds :
          evidence = [m \in Memories |-> IF m \in DOMAIN seed THEN seed[m] ELSE NoEvidence]
    BY DEF Init
  <1>2. \A m \in DOMAIN seed : seed[m].outcome \in Int /\ seed[m].similarity \in Int
                                 /\ seed[m].confidence \in Int
    BY SeedAssumption
  <1>3. NoEvidence.outcome \in Int /\ NoEvidence.similarity \in Int
          /\ NoEvidence.confidence \in Int
    BY DEF NoEvidence
  <1>4. age \in [Memories -> 0 .. 2]
    BY DEF Init
  <1> HIDE DEF NoEvidence
  <1> QED BY <1>1, <1>2, <1>3, <1>4 DEF ScoreInv

\* And no step takes them.
LEMMA ScoreStep ==
  ASSUME ScoreInv, [Next]_vars
  PROVE  ScoreInv'
  <1>1. CASE UNCHANGED <<evidence, age>>
    BY <1>1 DEF ScoreInv
  <1>2. CASE Learn
    <2>1. PICK outcome \in {100, 0, -100} :
            evidence' = [evidence EXCEPT ![New] =
              [version |-> IncidentVersion, policy |-> "exact", outcome |-> outcome,
               similarity |-> NewSimilarity, confidence |-> 100,
               action |-> IF incident.selected = NoMemory THEN "collect_diagnostics"
                          ELSE evidence[incident.selected].action,
               observer |-> Observer]]
      BY <1>2 DEF Learn
    <2> DEFINE act == IF incident.selected = NoMemory THEN "collect_diagnostics"
                      ELSE evidence[incident.selected].action
               row == [version |-> IncidentVersion, policy |-> "exact", outcome |-> outcome,
                       similarity |-> NewSimilarity, confidence |-> 100,
                       action |-> act, observer |-> Observer]
    <2>2. evidence' = [evidence EXCEPT ![New] = row] /\ age' = age
      BY <1>2, <2>1 DEF Learn
    <2> HIDE DEF act
    <2>3. row.outcome \in Int /\ row.similarity \in Int /\ row.confidence \in Int
      BY RecallAssumption
    <2> HIDE DEF row
    <2>4. /\ evidence' = [m \in Memories |-> evidence'[m]]
          /\ \A m \in Memories : evidence'[m] = IF m = New THEN row ELSE evidence[m]
      BY <2>2 DEF ScoreInv
    <2> QED BY <2>2, <2>3, <2>4 DEF ScoreInv
  <1>3. ASSUME NEW m \in Memories, TimePasses(m) PROVE ScoreInv'
    <2>1. PICK later \in age[m] + 1 .. 2 : age' = [age EXCEPT ![m] = later]
      BY <1>3 DEF TimePasses
    <2>2. age \in [Memories -> 0 .. 2]
      BY DEF ScoreInv
    <2>3. later \in 0 .. 2
      BY <2>1, <2>2
    <2>4. age' \in [Memories -> 0 .. 2]
      BY <2>1, <2>2, <2>3
    <2>5. evidence' = evidence
      BY <1>3 DEF TimePasses
    <2> QED BY <2>4, <2>5 DEF ScoreInv
  <1>4. UNCHANGED vars \/ (\E r \in Requests : Prepare(r) \/ Persist(r))
          \/ (\E m \in Memories, actor \in Reviewers, action \in DOMAIN Target,
                replacement \in Memories \cup {NoMemory} : Govern(m, actor, action, replacement))
        => UNCHANGED <<evidence, age>>
    BY DEF vars, Prepare, Persist, Govern
  <1> QED BY <1>1, <1>2, <1>3, <1>4 DEF Next

\* The score of a memory is a number.
LEMMA RankScoreType ==
  ASSUME ScoreInv, NEW m \in Memories
  PROVE  RankScore(m) \in Int
  <1>1. /\ evidence[m].outcome \in Int /\ evidence[m].similarity \in Int
        /\ evidence[m].confidence \in Int
    BY DEF ScoreInv
  <1>2. Freshness(m) \in Int
    BY DEF Freshness
  <1>3. \A x \in Int : x \div 100 \in Int
    OBVIOUS
  <1>4. EffectiveConfidence(m) \in Int
    BY <1>1, <1>2, <1>3 DEF EffectiveConfidence
  <1>5. EffectiveOutcome(m) \in Int
    BY <1>1, <1>2, <1>3 DEF EffectiveOutcome
  <1>6. Compatibility(m) \in Int
    BY DEF Compatibility, VersionCompatibility
  <1> QED BY <1>1, <1>4, <1>5, <1>6 DEF RankScore

\* Outranks is a strict total order of the memories.
LEMMA OutranksOrder ==
  ASSUME ScoreInv
  PROVE  /\ \A a \in Memories : ~Outranks(a, a)
         /\ \A a, b, c \in Memories : Outranks(a, b) /\ Outranks(b, c) => Outranks(a, c)
         /\ \A a, b \in Memories : a # b => Outranks(a, b) \/ Outranks(b, a)
  <1>1. \A m \in Memories : m \in Int /\ RankScore(m) \in Int /\ evidence[m].similarity \in Int
    BY RankScoreType DEF ScoreInv, Memories
  <1> HIDE DEF Memories
  <1> QED BY <1>1 DEF Outranks

\* Sets of memories are finite.
LEMMA MemoriesFinite ==
  ASSUME NEW S, S \subseteq Memories
  PROVE  IsFiniteSet(S) /\ Cardinality(S) \in Nat
  <1>1. IsFiniteSet(Memories)
    BY RecallAssumption, FS_Interval DEF Memories
  <1>2. IsFiniteSet(S)
    BY <1>1, FS_Subset
  <1> QED BY <1>2, FS_CardinalityType

\* Who outranks whom is a matter of places.
LEMMA PlaceFacts ==
  ASSUME ScoreInv, NEW S, S \subseteq Memories
  PROVE  /\ \A m \in S : Place(S, m) \in 1 .. Cardinality(S)
         /\ \A a, b \in S : Outranks(a, b) => Place(S, a) < Place(S, b)
         /\ \A a, b \in S : Place(S, a) = Place(S, b) => a = b
  <1> DEFINE Above(m) == {x \in S : Outranks(x, m)}
  <1>0. \A m \in S : /\ Place(S, m) = Cardinality(Above(m)) + 1
                     /\ Above(m) \subseteq S /\ Above(m) \subseteq Memories
                     /\ m \in Memories
    BY DEF Place
  <1>1. \A m \in S : m \notin Above(m)
    BY <1>0, OutranksOrder
  <1>2. ASSUME NEW a \in S, NEW b \in S, Outranks(a, b)
        PROVE  Above(a) \subseteq Above(b) /\ a \in Above(b) /\ a \notin Above(a)
    BY <1>1, <1>2, OutranksOrder
  <1>3. \A a, b \in S : a # b => Outranks(a, b) \/ Outranks(b, a)
    BY OutranksOrder
  <1> HIDE DEF Above
  <1>f. \A m \in S : IsFiniteSet(Above(m)) /\ Cardinality(Above(m)) \in Nat
    BY <1>0, MemoriesFinite
  <1>s. IsFiniteSet(S) /\ Cardinality(S) \in Nat
    BY MemoriesFinite
  <1>4. ASSUME NEW m \in S PROVE Place(S, m) \in 1 .. Cardinality(S)
    <2>1. Cardinality(Above(m)) <= Cardinality(S) /\ Cardinality(Above(m)) # Cardinality(S)
      BY <1>0, <1>1, <1>s, FS_Subset
    <2> QED BY <1>0, <1>f, <1>s, <2>1
  <1>5. ASSUME NEW a \in S, NEW b \in S, Outranks(a, b) PROVE Place(S, a) < Place(S, b)
    <2>1. Above(a) \subseteq Above(b) /\ Above(a) # Above(b)
      BY <1>2, <1>5
    <2>2. /\ Cardinality(Above(a)) <= Cardinality(Above(b))
          /\ Cardinality(Above(a)) # Cardinality(Above(b))
      BY <1>f, <2>1, FS_Subset
    <2> QED BY <1>0, <1>f, <2>2
  <1>6. ASSUME NEW a \in S, NEW b \in S, Place(S, a) = Place(S, b) PROVE a = b
    <2> SUFFICES ASSUME a # b PROVE FALSE
      OBVIOUS
    <2>1. Place(S, a) < Place(S, b) \/ Place(S, b) < Place(S, a)
      BY <1>3, <1>5
    <2>2. Place(S, a) \in Int /\ Place(S, b) \in Int
      BY <1>4
    <2> QED BY <1>6, <2>1, <2>2
  <1> QED BY <1>4, <1>5, <1>6

\* Every place is taken, so Ranked lists its set, each member at its place.
LEMMA RankedFacts ==
  ASSUME ScoreInv, NEW S, S \subseteq Memories
  PROVE  /\ Ranked(S) \in Seq(S) /\ Len(Ranked(S)) = Cardinality(S)
         /\ \A i \in 1 .. Cardinality(S) : Ranked(S)[i] \in S /\ Place(S, Ranked(S)[i]) = i
         /\ \A m \in S : Ranked(S)[Place(S, m)] = m
  <1> DEFINE n == Cardinality(S)
             f == [m \in S |-> Place(S, m)]
  <1>1. /\ \A m \in S : Place(S, m) \in 1 .. n
        /\ \A a, b \in S : Place(S, a) = Place(S, b) => a = b
    BY PlaceFacts
  <1>2. IsFiniteSet(S) /\ n \in Nat
    BY MemoriesFinite
  <1>3. f \in Injection(S, 1 .. n)
    BY <1>1 DEF Injection, IsInjective
  <1>4. IsFiniteSet(1 .. n) /\ Cardinality(1 .. n) = n
    BY <1>2, FS_Interval
  <1>5. f \in Surjection(S, 1 .. n)
    BY <1>3, <1>4, FS_Injection
  <1>6. \A i \in 1 .. n : \E m \in S : Place(S, m) = i
    BY <1>5 DEF Surjection
  <1>7. \A i \in 1 .. n : Ranked(S)[i] \in S /\ Place(S, Ranked(S)[i]) = i
    BY <1>6 DEF Ranked
  <1>8. Ranked(S) = [i \in 1 .. n |-> Ranked(S)[i]]
    BY DEF Ranked
  <1> HIDE DEF n
  <1>9. Ranked(S) \in [1 .. n -> S]
    BY <1>7, <1>8
  <1>10. Ranked(S) \in Seq(S) /\ Len(Ranked(S)) = n
    BY <1>2, <1>9
  <1> QED BY <1>1, <1>7, <1>10 DEF n

\* What is taken from a ranking is the members with the first places.
LEMMA TakeFacts ==
  ASSUME ScoreInv, NEW S, S \subseteq Memories, NEW n \in Nat
  PROVE  ToSet(Take(n, Ranked(S))) = {m \in S : Place(S, m) <= n}
  <1> DEFINE seq == Ranked(S)
             k == IF Len(seq) < n THEN Len(seq) ELSE n
             t == Take(n, seq)
  <1>0. Cardinality(S) \in Nat
    BY MemoriesFinite
  <1>1. /\ seq \in Seq(S) /\ Len(seq) = Cardinality(S)
        /\ \A i \in 1 .. Len(seq) : seq[i] \in S /\ Place(S, seq[i]) = i
        /\ \A m \in S : seq[Place(S, m)] = m
    BY RankedFacts
  <1>2. \A m \in S : Place(S, m) \in 1 .. Len(seq)
    BY <1>1, PlaceFacts
  <1>3. t = SubSeq(seq, 1, k)
    BY DEF Take
  <1> HIDE DEF seq, t
  <1>4. k \in Nat /\ k <= Len(seq) /\ k <= n /\ Len(seq) \in Nat
          /\ (k = n \/ k = Len(seq))
    BY <1>0, <1>1
  <1> HIDE DEF k
  <1>5. t = [i \in 1 .. k |-> seq[i]]
    <2>1. /\ DOMAIN t = 1 .. k /\ t \in Seq(S) /\ Len(t) = k
          /\ \A i \in 1 .. k : t[i] = seq[i]
      BY <1>1, <1>3, <1>4, SubSeqProperties
    <2>2. t = [i \in 1 .. Len(t) |-> t[i]]
      BY <2>1
    <2> QED BY <2>1, <2>2
  <1>6. ToSet(t) = {seq[i] : i \in 1 .. k}
    BY <1>5 DEF ToSet
  <1>7. ASSUME NEW m \in ToSet(t) PROVE m \in S /\ Place(S, m) <= n
    <2>1. PICK i \in 1 .. k : m = seq[i]
      BY <1>6
    <2>2. i \in 1 .. Len(seq) /\ i <= n
      BY <1>4
    <2> QED BY <1>1, <2>1, <2>2
  <1>8. ASSUME NEW m \in S, Place(S, m) <= n PROVE m \in ToSet(t)
    <2>1. Place(S, m) \in 1 .. k
      BY <1>2, <1>4, <1>8
    <2> QED BY <1>1, <1>6, <2>1
  <1> QED BY <1>7, <1>8 DEF t, seq

-----------------------------------------------------------------------------
(* The lanes.                                                              *)

\* A lane that may hold all of its kind does.
LEMMA LaneHolds ==
  ASSUME ScoreInv, NEW S, S \subseteq Memories, NEW n \in Nat, Cardinality(S) <= n
  PROVE  Nearest(S, n) = S
  <1> SUFFICES ASSUME NEW m \in S PROVE Cardinality({x \in S : Closer(x, m)}) < n
    BY DEF Nearest
  <1> DEFINE above == {x \in S : Closer(x, m)}
  <1>1. m \notin above
    <2>1. m \in Int /\ evidence[m].similarity \in Int
      BY DEF ScoreInv, Memories
    <2> QED BY <2>1 DEF Closer
  <1>2. above \subseteq S /\ above \subseteq Memories
    OBVIOUS
  <1> HIDE DEF above
  <1>3. /\ IsFiniteSet(S) /\ Cardinality(S) \in Nat
        /\ IsFiniteSet(above) /\ Cardinality(above) \in Nat
    BY <1>2, MemoriesFinite
  <1>4. Cardinality(above) <= Cardinality(S) /\ Cardinality(above) # Cardinality(S)
    BY <1>1, <1>2, <1>3, FS_Subset
  <1> QED BY <1>3, <1>4 DEF above

\* The lanes hold eligible memories only, and every safe one they have room for.
LEMMA LaneFacts ==
  ASSUME ScoreInv
  PROVE  /\ Lanes \subseteq Eligible /\ Eligible \subseteq Memories
         /\ (/\ Cardinality(ExactSuccesses) <= CandidateLimit
             /\ Cardinality(PolicySuccesses) <= CandidateLimit)
            => ExactSuccesses \cup PolicySuccesses \subseteq Lanes
  <1>1. /\ ExactSuccesses \subseteq Eligible /\ PolicySuccesses \subseteq Eligible
        /\ Eligible \subseteq Memories
    BY DEF ExactSuccesses, PolicySuccesses, Successes, Eligible, Stored
  <1>2. \A S, n : Nearest(S, n) \subseteq S
    BY DEF Nearest
  <1>3. CandidateLimit \in Nat
    BY RecallAssumption DEF CandidateLimit
  <1>4. Lanes \subseteq Eligible
    BY <1>1, <1>2 DEF Lanes
  <1>5. ASSUME Cardinality(ExactSuccesses) <= CandidateLimit,
               Cardinality(PolicySuccesses) <= CandidateLimit
        PROVE  ExactSuccesses \cup PolicySuccesses \subseteq Lanes
    <2>1. /\ Nearest(ExactSuccesses, CandidateLimit) = ExactSuccesses
          /\ Nearest(PolicySuccesses, CandidateLimit) = PolicySuccesses
      BY <1>1, <1>3, <1>5, LaneHolds
    <2> QED BY <2>1 DEF Lanes
  <1> QED BY <1>1, <1>4, <1>5

\* Whoever outranks a found memory of the lanes is found with it.
LEMMA FoundFacts ==
  ASSUME ScoreInv
  PROVE  /\ ToSet(FindMemories) = {m \in Lanes : Place(Lanes, m) <= Limit}
         /\ ToSet(ReferenceFindMemories) = {m \in Eligible : Place(Eligible, m) <= Limit}
  <1>1. Limit \in Nat
    BY RecallAssumption
  <1>2. Lanes \subseteq Memories /\ Eligible \subseteq Memories
    BY LaneFacts
  <1> QED BY <1>1, <1>2, TakeFacts DEF FindMemories, ReferenceFindMemories

\* What is compatible with the incident belongs to a protected lane.
LEMMA CompatibleIsProtected ==
  ASSUME NEW m \in Successes, Compatibility(m) = 100
  PROVE  m \in ExactSuccesses \cup PolicySuccesses
  <1>1. evidence[m].version = IncidentVersion \/ evidence[m].policy # "exact"
    BY DEF Compatibility, VersionCompatibility
  <1> QED BY <1>1 DEF ExactSuccesses, PolicySuccesses

\* The part of the types that no strengthening above holds: superseded_by is set
\* exactly in its state, requests are at one of their steps, and the count of
\* governance actions is within its bound.
StepInv ==
  /\ \A m \in Memories : lifecycle[m].state = "superseded" => lifecycle[m].supersededBy # NoMemory
  /\ \A r \in Requests : requests[r].step \in {"idle", "prepared", "answered"}
  /\ governed \in 0 .. MaxGovernance

\* Every step keeps it.
LEMMA StepsKept ==
  ASSUME RowInv, AnalysisInv, StepInv, [Next]_vars
  PROVE  StepInv'
  <1>1. ASSUME NEW m \in Memories, NEW actor \in Reviewers, NEW action \in DOMAIN Target,
               NEW replacement \in Memories \cup {NoMemory}, Govern(m, actor, action, replacement)
        PROVE  StepInv'
    <2>1. /\ \A n \in Memories : n # m => lifecycle'[n] = lifecycle[n]
          /\ lifecycle'[m].state = Target[action] /\ lifecycle'[m].supersededBy = replacement
          /\ Target[action] = "superseded" => Replacement(m, replacement)
      BY <1>1, GovernedRow
    <2>2. Replacement(m, replacement) => replacement # NoMemory
      <3>1. NoMemory \notin Memories
        BY RecallAssumption DEF Memories, NoMemory
      <3> QED BY <3>1 DEF Replacement, Eligible, Stored
    <2>3. \A n \in Memories :
            lifecycle'[n].state = "superseded" => lifecycle'[n].supersededBy # NoMemory
      BY <2>1, <2>2 DEF StepInv
    <2>4. governed' = governed + 1 /\ governed < MaxGovernance /\ requests' = requests
      BY <1>1 DEF Govern
    <2>5. governed' \in 0 .. MaxGovernance
      BY <2>4, RecallAssumption DEF StepInv
    <2> QED BY <2>3, <2>4, <2>5 DEF StepInv
  <1>2. CASE Learn
    <2>1. /\ \A n \in Memories : n # New => lifecycle'[n] = lifecycle[n]
          /\ lifecycle'[New].state = "pending_review"
      BY <1>2, LearnedRow
    <2>2. requests' = requests /\ governed' = governed
      BY <1>2 DEF Learn
    <2> QED BY <2>1, <2>2 DEF StepInv
  <1>3. ASSUME NEW r \in Requests, Prepare(r) \/ Persist(r) PROVE StepInv'
    <2>1. \E s \in {"prepared", "answered"} : \E a :
            requests' = [requests EXCEPT ![r] = [step |-> s, analysis |-> a]]
      BY <1>3 DEF Prepare, Persist
    <2>2. \A q \in Requests : requests'[q].step \in {"idle", "prepared", "answered"}
      BY <2>1 DEF StepInv, AnalysisInv
    <2>3. lifecycle' = lifecycle /\ governed' = governed
      BY <1>3 DEF Prepare, Persist
    <2> QED BY <2>2, <2>3 DEF StepInv
  <1>4. CASE UNCHANGED vars \/ \E m \in Memories : TimePasses(m)
    <2>1. UNCHANGED <<lifecycle, requests, governed>>
      BY <1>4 DEF vars, TimePasses
    <2> QED BY <2>1 DEF StepInv
  <1> QED BY <1>1, <1>2, <1>3, <1>4 DEF Next

-----------------------------------------------------------------------------
(* The theorems.                                                           *)

\* Rows and requests keep the shape their tables give them, and active evidence is
\* conclusive by whatever way it became active (recallops_govern_memory).
THEOREM RecallTypeCorrect == Spec => []TypeOK
  <1>1. RowInv /\ ScoreInv /\ StepInv => TypeOK
    <2> SUFFICES ASSUME RowInv, ScoreInv, StepInv PROVE TypeOK
      OBVIOUS
    <2>1. \A m \in Memories : /\ lifecycle[m].state \in States
                              /\ lifecycle[m].supersededBy \in Memories \cup {NoMemory}
      BY DEF RowInv, Lifecycle
    <2>2. \A m \in Memories :
            /\ lifecycle[m].supersededBy # NoMemory <=> lifecycle[m].state = "superseded"
            /\ lifecycle[m].state = "active" => evidence[m].outcome # 0
      BY DEF RowInv, StepInv
    <2> QED BY <2>1, <2>2 DEF TypeOK, ScoreInv, StepInv, States
  <1>2. Init => StepInv
    BY RecallAssumption DEF Init, StepInv
  <1>3. RowInv /\ AnalysisInv /\ ScoreInv /\ StepInv /\ [Next]_vars
          => (RowInv /\ AnalysisInv /\ ScoreInv /\ StepInv)'
    BY RowStep, AnalysisStep, ScoreStep, StepsKept
  <1> QED BY RecallStarts, ScoresStart, <1>1, <1>2, <1>3, PTL DEF Spec

\* Nothing the run's observer learned is eligible for recall before somebody else
\* reviewed it, through quarantine, reactivation and supersession
\* (recallops_govern_memory).
THEOREM RecallIsReviewed == Spec => []RecalledIsReviewed
  <1>1. RowInv => RecalledIsReviewed
    BY DEF RowInv, RecalledIsReviewed, Eligible, Stored
  <1>2. RowInv /\ [Next]_vars => RowInv'
    BY RowStep
  <1> QED BY RecallStarts, <1>1, <1>2, PTL DEF Spec

\* However memories replace each other, following superseded_by ends after at most
\* as many steps as there are memories, always at the same version
\* (_governance_target, recallops_govern_memory).
THEOREM SupersessionEnds == Spec => []SupersessionLeadsOn
  <1>1. RowInv /\ OrderInv => SupersessionLeadsOn
    <2> SUFFICES ASSUME RowInv, OrderInv, NEW m \in Memories
                 PROVE  /\ Successor[MemoryCount][m] = NoMemory
                        /\ lifecycle[m].supersededBy # NoMemory =>
                             evidence[lifecycle[m].supersededBy].version = evidence[m].version
      BY DEF SupersessionLeadsOn
    <2>1. lifecycle \in [Memories -> Lifecycle]
      BY DEF RowInv
    <2>2. Successor[MemoryCount][m] = NoMemory
      BY <2>1, PathsEnd
    <2> QED BY <2>2 DEF RowInv
  <1>2. RowInv /\ OrderInv /\ [Next]_vars => (RowInv /\ OrderInv)'
    BY RowStep, OrderStep
  <1> QED BY RecallStarts, <1>1, <1>2, PTL DEF Spec

\* All requests under one key are answered with the analysis that was saved first,
\* though others were prepared meanwhile (save_analysis).
THEOREM AnalysisIsShared == Spec => []OneAnalysisPerKey
  <1>1. AnalysisInv => OneAnalysisPerKey
    BY DEF AnalysisInv, OneAnalysisPerKey
  <1>2. AnalysisInv /\ [Next]_vars => AnalysisInv'
    BY AnalysisStep
  <1> QED BY RecallStarts, <1>1, <1>2, PTL DEF Spec

\* The lanes never crowd out a safe success: what the unbounded search of the
\* in-memory store returns for the exact version or under a policy, the bounded one
\* returns too, as long as its lane has room for its kind, however many other rows
\* there are and however they are governed or age (find_memories).
THEOREM LanesProtect == Spec => []SafeRecallProtected
  <1>1. ScoreInv => SafeRecallProtected
    <2> SUFFICES ASSUME ScoreInv,
                        Cardinality(ExactSuccesses) <= CandidateLimit,
                        Cardinality(PolicySuccesses) <= CandidateLimit,
                        NEW m \in ExactSuccesses \cup PolicySuccesses,
                        m \in ToSet(ReferenceFindMemories)
                 PROVE  m \in ToSet(FindMemories)
      BY DEF SafeRecallProtected
    <2>1. m \in Lanes /\ Lanes \subseteq Eligible /\ Eligible \subseteq Memories
      BY LaneFacts
    <2>2. m \in Eligible /\ Place(Eligible, m) <= Limit
      BY FoundFacts
    <2> DEFINE few == {x \in Lanes : Outranks(x, m)}
               all == {x \in Eligible : Outranks(x, m)}
    <2>3. few \subseteq all /\ all \subseteq Memories /\ few \subseteq Memories
      BY <2>1
    <2>4. Place(Lanes, m) = Cardinality(few) + 1 /\ Place(Eligible, m) = Cardinality(all) + 1
      BY DEF Place
    <2> HIDE DEF few, all
    <2>5. /\ IsFiniteSet(all) /\ Cardinality(all) \in Nat /\ Cardinality(few) \in Nat
          /\ Cardinality(few) <= Cardinality(all)
      BY <2>3, MemoriesFinite, FS_Subset
    <2>6. Place(Lanes, m) <= Limit
      BY <2>2, <2>4, <2>5, RecallAssumption
    <2> QED BY <2>1, <2>6, FoundFacts
  <1>2. ScoreInv /\ [Next]_vars => ScoreInv'
    BY ScoreStep
  <1> QED BY ScoresStart, <1>1, <1>2, PTL DEF Spec

\* A selection is a success for the incident's version, and the best there is
\* whenever the lanes have room for their kinds (prepare_analysis,
\* _abstention_reasons).
THEOREM BestIsSelected == Spec => []SelectionIsBest
  <1>1. ScoreInv => SelectionIsBest
    <2> DEFINE found == FindMemories
               gains == {m \in ToSet(found) : evidence[m].outcome > 0}
               selected == Selected(found)
    <2> SUFFICES ASSUME ScoreInv, selected # NoMemory
                 PROVE  /\ selected \in Successes /\ Compatibility(selected) = 100
                        /\ (/\ Cardinality(ExactSuccesses) <= CandidateLimit
                            /\ Cardinality(PolicySuccesses) <= CandidateLimit)
                           => \A m \in Successes :
                                Compatibility(m) = 100 => RankScore(m) <= RankScore(selected)
      BY DEF SelectionIsBest
    <2>1. AbstentionReasons(found) = {} /\ selected = Positive(found)[1]
      BY DEF Selected
    <2>2. Positive(found) = Ranked(gains)
      BY DEF Positive
    <2>3. ToSet(found) = {m \in Lanes : Place(Lanes, m) <= Limit}
      BY FoundFacts
    <2>4. Lanes \subseteq Eligible /\ Eligible \subseteq Memories /\ gains \subseteq Lanes
            /\ gains \subseteq Memories
      BY <2>3, LaneFacts
    <2> HIDE DEF found
    <2>5. found # <<>> /\ Positive(found) # <<>> /\ Weaknesses(Positive(found)[1]) = {}
      BY <2>1 DEF AbstentionReasons
    <2>6. 1 \in 1 .. Cardinality(gains)
      <3>1. Cardinality(gains) \in Nat
        BY <2>4, MemoriesFinite
      <3>2. Ranked(gains) \in Seq(gains) /\ Len(Ranked(gains)) = Cardinality(gains)
        BY <2>4, RankedFacts
      <3>3. Cardinality(gains) # 0
        <4> HIDE DEF gains
        <4> QED BY <2>2, <2>5, <3>2
      <3> QED BY <3>1, <3>3
    <2>7. selected \in gains /\ Place(gains, selected) = 1
      <3> HIDE DEF gains, selected
      <3> QED BY <2>1, <2>2, <2>4, <2>6, RankedFacts
    <2>8. selected \in Successes /\ selected \in Lanes /\ Place(Lanes, selected) <= Limit
      BY <2>3, <2>4, <2>7 DEF Successes
    <2> HIDE DEF selected
    <2>9. Compatibility(selected) = 100
      <3>1. ~(Compatibility(selected) < 100)
        BY <2>1, <2>5 DEF Weaknesses
      <3>2. Compatibility(selected) \in {0, 20, 35, 80, 100}
        BY DEF Compatibility, VersionCompatibility
      <3> QED BY <3>1, <3>2
    <2>10. ASSUME Cardinality(ExactSuccesses) <= CandidateLimit,
                  Cardinality(PolicySuccesses) <= CandidateLimit,
                  NEW m \in Successes, Compatibility(m) = 100
           PROVE  RankScore(m) <= RankScore(selected)
      <3>1. m \in Lanes /\ m \in Memories /\ evidence[m].outcome > 0
        BY <2>4, <2>10, CompatibleIsProtected, LaneFacts DEF Successes
      <3>2. RankScore(m) \in Int /\ RankScore(selected) \in Int
        BY <2>4, <2>8, <3>1, RankScoreType
      <3> SUFFICES ASSUME RankScore(m) > RankScore(selected) PROVE FALSE
        BY <3>2
      <3>3. Outranks(m, selected)
        BY DEF Outranks
      <3>4. Place(Lanes, m) < Place(Lanes, selected)
        BY <2>4, <2>8, <3>1, <3>3, PlaceFacts
      <3>5. Place(Lanes, m) \in Int /\ Place(Lanes, selected) \in Int
        BY <2>4, <2>8, <3>1, PlaceFacts
      <3>6. m \in gains
        BY <2>3, <2>8, <3>1, <3>4, <3>5, RecallAssumption
      <3>7. Place(gains, m) < 1 /\ Place(gains, m) \in 1 .. Cardinality(gains)
        BY <2>4, <2>7, <3>3, <3>6, PlaceFacts
      <3> QED BY <3>7
    <2> QED BY <2>8, <2>9, <2>10
  <1>2. ScoreInv /\ [Next]_vars => ScoreInv'
    BY ScoreStep
  <1> QED BY ScoresStart, <1>1, <1>2, PTL DEF Spec
=============================================================================
