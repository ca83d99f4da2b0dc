----------------------- MODULE EvidenceOutbox_proofs -----------------------
(***************************************************************************)
(* Proofs about the evidence outbox, for every set of messages and of      *)
(* workers, every retry budget and every bound on lost claims.             *)
(***************************************************************************)
EXTENDS EvidenceOutbox, TLAPS

\* The claim on message m is alive: its lease runs and its claimant works on it.
Held(m) == rows[m].lease /\ \E w \in Workers : rows[m].claimedBy = w /\ Holds(w, m)

\* What the four nullable columns of a row say together.  Only a saved, ready row
\* is claimed; a settled row is saved, ready and nobody's; a lease has a claimant.
RowInv(m) ==
  /\ rows[m].claimedBy # Nobody => rows[m].saved /\ rows[m].ready /\ ~Settled(m)
  /\ rows[m].lease => rows[m].claimedBy # Nobody
  /\ Settled(m) => rows[m].saved /\ rows[m].ready
  /\ rows[m].delivered => m \in bucket
  /\ rows[m].dead => rows[m].attempts >= MaxAttempts

\* Unless its claim is alive, an open message has an attempt left over, counting
\* the claims it lost.
BudgetInv(m) ==
  /\ rows[m].attempts <= MaxAttempts + losses[m]
  /\ ~Settled(m) /\ ~Held(m) => rows[m].attempts < MaxAttempts + losses[m]

\* A worker acknowledges what is in the bucket, and its attempt number is the
\* row's as long as the row names it.
JobInv(w) ==
  jobs[w] # NoJob =>
    /\ jobs[w].step = "acknowledging" => jobs[w].message \in bucket
    /\ rows[jobs[w].message].claimedBy = w => jobs[w].attempts = rows[jobs[w].message].attempts

OutboxInv ==
  /\ TypeOK
  /\ \A m \in Messages : RowInv(m)
  /\ \A w \in Workers : JobInv(w)

\* The budget part rests on the rest.
IndInv == OutboxInv /\ \A m \in Messages : BudgetInv(m)

Row == [saved : BOOLEAN, attempts : Nat, ready : BOOLEAN, claimedBy : Workers \cup {Nobody},
        lease : BOOLEAN, delivered : BOOLEAN, dead : BOOLEAN]
Busy == [step : {"archiving", "acknowledging", "releasing"}, message : Messages,
         attempts : Nat]

\* A worker that is in the middle of deliver_available holds a job of full shape.
LEMMA BusyJob ==
  ASSUME TypeOK, NEW w \in Workers, jobs[w] # NoJob
  PROVE  jobs[w] \in Busy
BY DEF TypeOK, Busy

\* Its step tells a busy worker from an idle one.
LEMMA StepIsBusy ==
  ASSUME NEW w \in Workers,
         jobs[w].step \in {"archiving", "acknowledging", "releasing"}
  PROVE  jobs[w] # NoJob
BY DEF NoJob

\* The rows and the workers keep the shape the table and deliver_available give
\* them.
THEOREM OutboxTypeCorrect == Spec => []TypeOK
<1>1. Init => TypeOK
  BY OutboxAssumption DEF Init, TypeOK, Absent
<1>2. TypeOK /\ [Next]_vars => TypeOK'
  <2> SUFFICES ASSUME TypeOK, [Next]_vars PROVE TypeOK'
    OBVIOUS
  <2>0. /\ rows \in [Messages -> Row]
        /\ jobs \in [Workers -> {NoJob} \cup Busy]
        /\ bucket \subseteq Messages
        /\ losses \in [Messages -> Nat]
    BY DEF TypeOK, Row, Busy
  <2> SUFFICES /\ rows' \in [Messages -> Row]
               /\ jobs' \in [Workers -> {NoJob} \cup Busy]
               /\ bucket' \subseteq Messages
               /\ losses' \in [Messages -> Nat]
    BY DEF TypeOK, Row, Busy
  <2> DEFINE Goal == /\ rows' \in [Messages -> Row]
                     /\ jobs' \in [Workers -> {NoJob} \cup Busy]
                     /\ bucket' \subseteq Messages
                     /\ losses' \in [Messages -> Nat]
  <2>1. ASSUME NEW m \in Messages, SaveAnalysis(m) PROVE Goal
    BY <2>0, <2>1 DEF SaveAnalysis, Row
  <2>2. ASSUME NEW m \in Messages, LeaseLapsesEarly(m) PROVE Goal
    <3>1. rows' \in [Messages -> Row]
      BY <2>0, <2>2 DEF LeaseLapsesEarly, Row
    <3>2. losses' \in [Messages -> Nat]
      BY <2>0, <2>2 DEF LeaseLapsesEarly
    <3> QED BY <2>0, <2>2, <3>1, <3>2 DEF LeaseLapsesEarly
  <2>3. ASSUME NEW m \in Messages, LeaseLapses(m) PROVE Goal
    BY <2>0, <2>3 DEF LeaseLapses, Row
  <2>4. ASSUME NEW m \in Messages, BackoffElapses(m) PROVE Goal
    BY <2>0, <2>4 DEF BackoffElapses, Row
  <2>5. ASSUME NEW w \in Workers, Claim(w) PROVE Goal
    BY <2>0, <2>5 DEF Claim, Row, Busy, Job
  <2>6. ASSUME NEW w \in Workers, Archive(w) PROVE Goal
    <3>1. jobs[w] \in Busy
      BY <2>6, BusyJob, StepIsBusy DEF Archive
    <3> QED BY <2>0, <2>6, <3>1 DEF Archive, Archived, ArchiveFails, Busy
  <2>7. ASSUME NEW w \in Workers, MarkDelivered(w) PROVE Goal
    <3>1. jobs[w] \in Busy
      BY <2>7, BusyJob, StepIsBusy DEF MarkDelivered
    <3>2. [jobs EXCEPT ![w].step = "releasing"] \in [Workers -> {NoJob} \cup Busy]
      BY <2>0, <3>1 DEF Busy
    <3>3. jobs' \in [Workers -> {NoJob} \cup Busy]
      BY <2>0, <2>7, <3>2 DEF MarkDelivered, Acknowledgeable, Row
    <3>4. PICK m \in Messages : m = jobs[w].message
      BY <3>1 DEF Busy
    <3>5. CASE Acknowledgeable(w, m)
      <4>1. rows' = [rows EXCEPT ![m].delivered = TRUE, ![m].claimedBy = Nobody,
                                 ![m].lease = FALSE]
        BY <2>7, <3>4, <3>5 DEF MarkDelivered
      <4> DEFINE row == [rows[m] EXCEPT !.delivered = TRUE, !.claimedBy = Nobody,
                                        !.lease = FALSE]
      <4>2. row \in Row /\ rows' = [rows EXCEPT ![m] = row]
        BY <2>0, <4>1 DEF Row
      <4>3. rows' \in [Messages -> Row]
        BY <2>0, <4>2
      <4> QED BY <2>0, <2>7, <3>3, <4>3 DEF MarkDelivered
    <3>6. CASE ~Acknowledgeable(w, m)
      BY <2>0, <2>7, <3>3, <3>4, <3>6 DEF MarkDelivered
    <3> QED BY <3>5, <3>6
  <2>8. ASSUME NEW w \in Workers, ReleaseFailed(w) PROVE Goal
    <3>1. jobs[w] \in Busy
      BY <2>8, BusyJob, StepIsBusy DEF ReleaseFailed
    <3>2. Exhausted(jobs[w].attempts) \in BOOLEAN
      BY DEF Exhausted
    <3> QED BY <2>0, <2>8, <3>1, <3>2 DEF ReleaseFailed, Released, Row, Busy
  <2>9. ASSUME NEW w \in Workers, Crash(w) PROVE Goal
    BY <2>0, <2>9, BusyJob DEF Crash, Busy
  <2>10. CASE UNCHANGED vars
    BY <2>0, <2>10 DEF vars
  <2> QED
    BY <2>1, <2>2, <2>3, <2>4, <2>5, <2>6, <2>7, <2>8, <2>9, <2>10 DEF Next, Work, Quiet
<1> QED
  BY <1>1, <1>2, PTL DEF Spec

-----------------------------------------------------------------------------
(* The columns of the row and the job each step leaves behind.             *)

\* Row n is the same after the step.
SameRow(n) == rows'[n] = rows[n]
SameJob(v) == jobs'[v] = jobs[v]

\* A claim writes the claimant, the lease and the attempt into the row, and the
\* same attempt number into the worker's job.
LEMMA ClaimFacts ==
  ASSUME TypeOK, NEW w \in Workers, Claim(w)
  PROVE  \E m \in Messages :
           /\ Claimable(m)
           /\ \A n \in Messages \ {m} : SameRow(n)
           /\ \A v \in Workers \ {w} : SameJob(v)
           /\ rows'[m].saved = rows[m].saved /\ rows'[m].ready = rows[m].ready
           /\ rows'[m].delivered = rows[m].delivered /\ rows'[m].dead = rows[m].dead
           /\ rows'[m].claimedBy = w /\ rows'[m].lease = TRUE
           /\ rows'[m].attempts = rows[m].attempts + 1
           /\ jobs'[w] # NoJob /\ jobs'[w].step = "archiving" /\ jobs'[w].message = m
           /\ jobs'[w].attempts = rows[m].attempts + 1
           /\ jobs[w] = NoJob /\ UNCHANGED <<bucket, losses>>
<1>1. PICK m \in Messages :
        /\ Claimable(m)
        /\ rows' = [rows EXCEPT ![m].claimedBy = w, ![m].lease = TRUE,
                                ![m].attempts = @ + 1]
        /\ jobs' = [jobs EXCEPT ![w] = Job(m, "archiving", rows[m].attempts + 1)]
  BY DEF Claim
<1>2. rows \in [Messages -> Row] /\ jobs \in [Workers -> {NoJob} \cup Busy]
  BY DEF TypeOK, Row, Busy
<1>3. rows' = [rows EXCEPT ![m] = [rows[m] EXCEPT !.claimedBy = w, !.lease = TRUE,
                                                  !.attempts = @ + 1]]
  BY <1>1, <1>2 DEF Row
<1>4. rows'[m] = [rows[m] EXCEPT !.claimedBy = w, !.lease = TRUE, !.attempts = @ + 1]
  BY <1>2, <1>3
<1>5. \A n \in Messages \ {m} : SameRow(n)
  BY <1>2, <1>3 DEF SameRow
<1>6. jobs'[w] = Job(m, "archiving", rows[m].attempts + 1)
  BY <1>1, <1>2
<1>7. \A v \in Workers \ {w} : SameJob(v)
  BY <1>1, <1>2 DEF SameJob
<1>8. rows[m] \in Row
  BY <1>2
<1>9. /\ rows'[m].saved = rows[m].saved /\ rows'[m].ready = rows[m].ready
      /\ rows'[m].delivered = rows[m].delivered /\ rows'[m].dead = rows[m].dead
      /\ rows'[m].claimedBy = w /\ rows'[m].lease = TRUE
      /\ rows'[m].attempts = rows[m].attempts + 1
  BY <1>4, <1>8 DEF Row
<1>10. /\ jobs'[w] # NoJob /\ jobs'[w].step = "archiving" /\ jobs'[w].message = m
       /\ jobs'[w].attempts = rows[m].attempts + 1
  BY <1>6 DEF Job, NoJob
<1> QED
  BY <1>1, <1>5, <1>7, <1>9, <1>10 DEF Claim

\* Archiving moves the worker on and changes no row; it acknowledges only what it
\* has put into the bucket.
LEMMA ArchiveFacts ==
  ASSUME TypeOK, NEW w \in Workers, Archive(w)
  PROVE  /\ jobs[w] \in Busy /\ jobs[w] # NoJob /\ jobs'[w] # NoJob
         /\ jobs'[w].message = jobs[w].message /\ jobs'[w].attempts = jobs[w].attempts
         /\ jobs'[w].step = "acknowledging" => jobs[w].message \in bucket'
         /\ \A v \in Workers \ {w} : SameJob(v)
         /\ bucket \subseteq bucket' /\ UNCHANGED <<rows, losses>>
<1>1. jobs[w] \in Busy /\ jobs[w] # NoJob /\ jobs \in [Workers -> {NoJob} \cup Busy]
  BY BusyJob, StepIsBusy DEF Archive, TypeOK, Busy
<1>2. PICK s \in {"acknowledging", "releasing"} :
        /\ jobs' = [jobs EXCEPT ![w].step = s]
        /\ s = "acknowledging" => jobs[w].message \in bucket'
        /\ bucket \subseteq bucket' /\ UNCHANGED <<rows, losses>>
  BY DEF Archive, Archived, ArchiveFails
<1>3. jobs'[w] = [jobs[w] EXCEPT !.step = s] /\ \A v \in Workers \ {w} : SameJob(v)
  BY <1>1, <1>2 DEF SameJob
<1>4. /\ jobs'[w].message = jobs[w].message /\ jobs'[w].attempts = jobs[w].attempts
      /\ jobs'[w].step = s
  BY <1>1, <1>3 DEF Busy
<1> QED
  BY <1>1, <1>2, <1>3, <1>4 DEF NoJob

\* An acknowledgement settles the row its worker still holds; a refused one leaves
\* the rows alone and goes on to release_failed.
LEMMA MarkDeliveredFacts ==
  ASSUME TypeOK, NEW w \in Workers, MarkDelivered(w)
  PROVE  \E m \in Messages :
           /\ m = jobs[w].message /\ jobs[w] # NoJob /\ jobs[w].step = "acknowledging"
           /\ \A n \in Messages \ {m} : SameRow(n)
           /\ \A v \in Workers \ {w} : SameJob(v)
           /\ UNCHANGED <<bucket, losses>>
           /\ \/ /\ rows[m].claimedBy = w /\ jobs'[w] = NoJob
                 /\ rows'[m].saved = rows[m].saved /\ rows'[m].ready = rows[m].ready
                 /\ rows'[m].attempts = rows[m].attempts /\ rows'[m].dead = rows[m].dead
                 /\ rows'[m].claimedBy = Nobody /\ rows'[m].lease = FALSE
                 /\ rows'[m].delivered = TRUE
              \/ /\ SameRow(m) /\ jobs'[w] # NoJob /\ jobs'[w].step = "releasing"
                 /\ jobs'[w].message = m /\ jobs'[w].attempts = jobs[w].attempts
<1>1. /\ jobs[w] \in Busy /\ jobs[w] # NoJob /\ jobs \in [Workers -> {NoJob} \cup Busy]
      /\ rows \in [Messages -> Row]
  BY BusyJob, StepIsBusy DEF MarkDelivered, TypeOK, Busy, Row
<1>2. PICK m \in Messages : m = jobs[w].message
  BY <1>1 DEF Busy
<1>3. CASE Acknowledgeable(w, m)
  <2>1. /\ rows' = [rows EXCEPT ![m].delivered = TRUE, ![m].claimedBy = Nobody,
                                ![m].lease = FALSE]
        /\ jobs' = [jobs EXCEPT ![w] = NoJob]
    BY <1>2, <1>3 DEF MarkDelivered
  <2>2. rows' = [rows EXCEPT ![m] = [rows[m] EXCEPT !.delivered = TRUE,
                                       !.claimedBy = Nobody, !.lease = FALSE]]
    BY <1>1, <2>1 DEF Row
  <2>3. rows'[m] = [rows[m] EXCEPT !.delivered = TRUE, !.claimedBy = Nobody,
                                   !.lease = FALSE]
    BY <1>1, <2>2
  <2>4. \A n \in Messages \ {m} : SameRow(n)
    BY <1>1, <2>2 DEF SameRow
  <2>5. jobs'[w] = NoJob /\ \A v \in Workers \ {w} : SameJob(v)
    BY <1>1, <2>1 DEF SameJob
  <2>6. rows[m] \in Row
    BY <1>1
  <2>7. /\ rows'[m].saved = rows[m].saved /\ rows'[m].ready = rows[m].ready
        /\ rows'[m].attempts = rows[m].attempts /\ rows'[m].dead = rows[m].dead
        /\ rows'[m].claimedBy = Nobody /\ rows'[m].lease = FALSE
        /\ rows'[m].delivered = TRUE
    BY <2>3, <2>6 DEF Row
  <2> QED
    BY <1>1, <1>2, <1>3, <2>4, <2>5, <2>7 DEF MarkDelivered, Acknowledgeable
<1>4. CASE ~Acknowledgeable(w, m)
  <2>1. jobs' = [jobs EXCEPT ![w].step = "releasing"] /\ rows' = rows
    BY <1>2, <1>4 DEF MarkDelivered
  <2>2. /\ jobs'[w] = [jobs[w] EXCEPT !.step = "releasing"]
        /\ \A v \in Workers \ {w} : SameJob(v)
    BY <1>1, <2>1 DEF SameJob
  <2>3. /\ jobs'[w].message = jobs[w].message /\ jobs'[w].attempts = jobs[w].attempts
        /\ jobs'[w].step = "releasing"
    BY <1>1, <2>2 DEF Busy
  <2> QED
    BY <1>1, <1>2, <2>1, <2>2, <2>3 DEF MarkDelivered, SameRow, NoJob
<1> QED
  BY <1>3, <1>4

\* A release puts the row of its worker back, or gives it up when the attempts of
\* that claim are spent; a release of what is another's or settled changes no row.
LEMMA ReleaseFailedFacts ==
  ASSUME TypeOK, NEW w \in Workers, ReleaseFailed(w)
  PROVE  \E m \in Messages :
           /\ m = jobs[w].message /\ jobs[w] # NoJob /\ jobs'[w] = NoJob
           /\ \A n \in Messages \ {m} : SameRow(n)
           /\ \A v \in Workers \ {w} : SameJob(v)
           /\ UNCHANGED <<bucket, losses>>
           /\ \/ /\ rows[m].claimedBy = w /\ ~Settled(m)
                 /\ rows'[m].saved = rows[m].saved
                 /\ rows'[m].delivered = rows[m].delivered
                 /\ rows'[m].attempts = rows[m].attempts
                 /\ rows'[m].claimedBy = Nobody /\ rows'[m].lease = FALSE
                 /\ rows'[m].dead <=> jobs[w].attempts >= MaxAttempts
                 /\ rows'[m].dead => rows'[m].ready = rows[m].ready
              \/ SameRow(m) /\ ~(rows[m].claimedBy = w /\ ~Settled(m))
<1>1. /\ jobs[w] \in Busy /\ jobs[w] # NoJob /\ jobs \in [Workers -> {NoJob} \cup Busy]
      /\ rows \in [Messages -> Row]
  BY BusyJob, StepIsBusy DEF ReleaseFailed, TypeOK, Busy, Row
<1>2. PICK m \in Messages : m = jobs[w].message
  BY <1>1 DEF Busy
<1>3. jobs'[w] = NoJob /\ \A v \in Workers \ {w} : SameJob(v)
  BY <1>1 DEF ReleaseFailed, SameJob
<1>4. CASE rows[m].claimedBy = w /\ ~Settled(m)
  <2> DEFINE spent == Exhausted(jobs[w].attempts)
  <2>1. rows' = Released(w, m)
    BY <1>2, <1>4 DEF ReleaseFailed
  <2>2. rows' = [rows EXCEPT ![m] = [rows[m] EXCEPT !.dead = spent, !.ready = spent /\ @,
                                       !.claimedBy = Nobody, !.lease = FALSE]]
    BY <1>1, <2>1 DEF Row, Released
  <2>3. rows'[m] = [rows[m] EXCEPT !.dead = spent, !.ready = spent /\ @,
                                   !.claimedBy = Nobody, !.lease = FALSE]
    BY <1>1, <2>2
  <2>4. \A n \in Messages \ {m} : SameRow(n)
    BY <1>1, <2>2 DEF SameRow
  <2>5. rows[m] \in Row
    BY <1>1
  <2>6. /\ rows'[m].saved = rows[m].saved /\ rows'[m].delivered = rows[m].delivered
        /\ rows'[m].attempts = rows[m].attempts
        /\ rows'[m].claimedBy = Nobody /\ rows'[m].lease = FALSE
        /\ rows'[m].dead = spent /\ rows'[m].ready = (spent /\ rows[m].ready)
    BY <2>3, <2>5 DEF Row
  <2>7. rows'[m].dead => rows'[m].ready = rows[m].ready
    BY <2>5, <2>6 DEF Row, Exhausted
  <2> QED
    BY <1>1, <1>2, <1>3, <1>4, <2>4, <2>6, <2>7 DEF ReleaseFailed, Exhausted
<1>5. CASE ~(rows[m].claimedBy = w /\ ~Settled(m))
  <2>1. rows' = rows
    BY <1>2, <1>5 DEF ReleaseFailed
  <2> QED
    BY <1>1, <1>2, <1>3, <1>5, <2>1 DEF ReleaseFailed, SameRow
<1> QED
  BY <1>4, <1>5

\* Saving an analysis touches the saved column of its row only.
LEMMA SavedColumn ==
  ASSUME TypeOK, NEW m \in Messages, rows' = [rows EXCEPT ![m].saved = TRUE]
  PROVE  /\ rows'[m].saved = TRUE
         /\ rows'[m].ready = rows[m].ready /\ rows'[m].lease = rows[m].lease
         /\ rows'[m].attempts = rows[m].attempts /\ rows'[m].claimedBy = rows[m].claimedBy
         /\ rows'[m].delivered = rows[m].delivered /\ rows'[m].dead = rows[m].dead
         /\ \A n \in Messages \ {m} : SameRow(n)
<1>1. rows \in [Messages -> Row] /\ rows[m] \in Row
  BY DEF TypeOK, Row
<1>2. rows'[m] = [rows[m] EXCEPT !.saved = TRUE] /\ \A n \in Messages \ {m} : SameRow(n)
  BY <1>1 DEF SameRow
<1> QED
  BY <1>1, <1>2 DEF Row

\* The end of a back-off touches available_at only.
LEMMA ReadyColumn ==
  ASSUME TypeOK, NEW m \in Messages, rows' = [rows EXCEPT ![m].ready = TRUE]
  PROVE  /\ rows'[m].ready = TRUE
         /\ rows'[m].saved = rows[m].saved /\ rows'[m].lease = rows[m].lease
         /\ rows'[m].attempts = rows[m].attempts /\ rows'[m].claimedBy = rows[m].claimedBy
         /\ rows'[m].delivered = rows[m].delivered /\ rows'[m].dead = rows[m].dead
         /\ \A n \in Messages \ {m} : SameRow(n)
<1>1. rows \in [Messages -> Row] /\ rows[m] \in Row
  BY DEF TypeOK, Row
<1>2. rows'[m] = [rows[m] EXCEPT !.ready = TRUE] /\ \A n \in Messages \ {m} : SameRow(n)
  BY <1>1 DEF SameRow
<1> QED
  BY <1>1, <1>2 DEF Row

\* The end of a lease touches claimed_until only.
LEMMA LeaseColumn ==
  ASSUME TypeOK, NEW m \in Messages, rows' = [rows EXCEPT ![m].lease = FALSE]
  PROVE  /\ rows'[m].lease = FALSE
         /\ rows'[m].saved = rows[m].saved /\ rows'[m].ready = rows[m].ready
         /\ rows'[m].attempts = rows[m].attempts /\ rows'[m].claimedBy = rows[m].claimedBy
         /\ rows'[m].delivered = rows[m].delivered /\ rows'[m].dead = rows[m].dead
         /\ \A n \in Messages \ {m} : SameRow(n)
<1>1. rows \in [Messages -> Row] /\ rows[m] \in Row
  BY DEF TypeOK, Row
<1>2. rows'[m] = [rows[m] EXCEPT !.lease = FALSE] /\ \A n \in Messages \ {m} : SameRow(n)
  BY <1>1 DEF SameRow
<1> QED
  BY <1>1, <1>2 DEF Row

-----------------------------------------------------------------------------
(* What a step that leaves a row or a job alone preserves of it.           *)

\* A row nobody writes stays consistent while objects are added to the bucket.
LEMMA RowFrame ==
  ASSUME NEW n \in Messages, RowInv(n), SameRow(n), bucket \subseteq bucket'
  PROVE  RowInv(n)'
BY DEF RowInv, SameRow, Settled

\* A job nobody writes stays consistent while the row it names keeps its attempts
\* or goes to another claimant.
LEMMA JobFrame ==
  ASSUME TypeOK, NEW v \in Workers, JobInv(v), SameJob(v), bucket \subseteq bucket',
         \A n \in Messages :
           rows'[n].claimedBy = v =>
             rows[n].claimedBy = v /\ rows'[n].attempts = rows[n].attempts
  PROVE  JobInv(v)'
<1>1. jobs[v] # NoJob => jobs[v].message \in Messages
  BY BusyJob DEF Busy
<1> QED
  BY <1>1 DEF JobInv, SameJob

\* The budget of a row nobody writes holds on while its claim stays alive or one
\* more loss is counted for it.
LEMMA BudgetFrame ==
  ASSUME TypeOK, TypeOK', NEW n \in Messages, BudgetInv(n), SameRow(n),
         \/ losses'[n] = losses[n] /\ (Held(n) => Held(n)')
         \/ losses'[n] = losses[n] + 1
  PROVE  BudgetInv(n)'
<1>1. rows[n].attempts \in Nat /\ losses[n] \in Nat /\ MaxAttempts \in Nat
  BY OutboxAssumption DEF TypeOK
<1> QED
  BY <1>1 DEF BudgetInv, SameRow, Settled

\* A live claim stays alive while its row and its worker's job stay the same.
LEMMA HeldFrame ==
  ASSUME NEW n \in Messages, Held(n), SameRow(n),
         \A v \in Workers : rows[n].claimedBy = v => SameJob(v)
  PROVE  Held(n)'
BY DEF Held, Holds, SameRow, SameJob

-----------------------------------------------------------------------------
(* The inductive invariant.                                                *)

\* Initially no message is saved, claimed or counted.
LEMMA InitInd == Init => IndInv
BY OutboxAssumption
   DEF Init, IndInv, OutboxInv, TypeOK, RowInv, JobInv, BudgetInv, Settled, Absent

\* Every step of a worker, of the clock and of the API keeps rows, jobs and budgets
\* consistent.
LEMMA StepInd == IndInv /\ TypeOK' /\ [Next]_vars => IndInv'
<1> SUFFICES ASSUME IndInv, TypeOK', [Next]_vars
             PROVE  /\ \A n \in Messages : RowInv(n)'
                    /\ \A v \in Workers : JobInv(v)'
                    /\ \A n \in Messages : BudgetInv(n)'
  BY DEF IndInv, OutboxInv
<1> DEFINE Goal == /\ \A n \in Messages : RowInv(n)'
                   /\ \A v \in Workers : JobInv(v)'
                   /\ \A n \in Messages : BudgetInv(n)'
<1>0. /\ TypeOK
      /\ \A n \in Messages : RowInv(n) /\ BudgetInv(n)
      /\ \A v \in Workers : JobInv(v)
      /\ MaxAttempts \in Nat
  BY OutboxAssumption DEF IndInv, OutboxInv
<1>n. \A n \in Messages : rows[n].attempts \in Nat /\ losses[n] \in Nat
  BY <1>0 DEF TypeOK
<1>1. ASSUME NEW m \in Messages, SaveAnalysis(m) PROVE Goal
  <2>1. UNCHANGED <<jobs, bucket, losses>> /\ rows' = [rows EXCEPT ![m].saved = TRUE]
    BY <1>1 DEF SaveAnalysis
  <2>2. /\ rows'[m].saved = TRUE /\ rows'[m].ready = rows[m].ready
        /\ rows'[m].lease = rows[m].lease /\ rows'[m].attempts = rows[m].attempts
        /\ rows'[m].claimedBy = rows[m].claimedBy
        /\ rows'[m].delivered = rows[m].delivered /\ rows'[m].dead = rows[m].dead
        /\ \A n \in Messages \ {m} : SameRow(n)
    BY <1>0, <2>1, SavedColumn
  <2>3. RowInv(m)' /\ BudgetInv(m)'
    BY <1>0, <1>n, <2>1, <2>2 DEF RowInv, BudgetInv, Settled, Held, Holds
  <2>4. \A n \in Messages \ {m} : RowInv(n)'
    BY <1>0, <2>1, <2>2, RowFrame
  <2>5. \A n \in Messages \ {m} : BudgetInv(n)'
    BY <1>0, <2>1, <2>2, BudgetFrame DEF Held, Holds, SameRow
  <2>6. \A v \in Workers : JobInv(v)'
    BY <1>0, <2>1, <2>2, JobFrame DEF SameJob, SameRow
  <2> QED
    BY <2>3, <2>4, <2>5, <2>6
<1>2. ASSUME NEW m \in Messages, LeaseLapsesEarly(m) PROVE Goal
  <2>1. /\ UNCHANGED <<jobs, bucket>> /\ rows' = [rows EXCEPT ![m].lease = FALSE]
        /\ losses'[m] = losses[m] + 1
        /\ \A n \in Messages \ {m} : losses'[n] = losses[n]
    BY <1>0, <1>2 DEF LeaseLapsesEarly, TypeOK
  <2>2. /\ rows'[m].saved = rows[m].saved /\ rows'[m].ready = rows[m].ready
        /\ rows'[m].lease = FALSE /\ rows'[m].attempts = rows[m].attempts
        /\ rows'[m].claimedBy = rows[m].claimedBy
        /\ rows'[m].delivered = rows[m].delivered /\ rows'[m].dead = rows[m].dead
        /\ \A n \in Messages \ {m} : SameRow(n)
    BY <1>0, <2>1, LeaseColumn
  <2>3. RowInv(m)' /\ BudgetInv(m)'
    BY <1>0, <1>n, <2>1, <2>2 DEF RowInv, BudgetInv, Settled, Held, Holds
  <2>4. \A n \in Messages \ {m} : RowInv(n)'
    BY <1>0, <2>1, <2>2, RowFrame
  <2>5. \A n \in Messages \ {m} : BudgetInv(n)'
    BY <1>0, <2>1, <2>2, BudgetFrame DEF Held, Holds, SameRow
  <2>6. \A v \in Workers : JobInv(v)'
    BY <1>0, <2>1, <2>2, JobFrame DEF SameJob, SameRow
  <2> QED
    BY <2>3, <2>4, <2>5, <2>6
<1>3. ASSUME NEW m \in Messages, LeaseLapses(m) PROVE Goal
  <2>1. UNCHANGED <<jobs, bucket, losses>> /\ rows' = [rows EXCEPT ![m].lease = FALSE]
    BY <1>3 DEF LeaseLapses
  <2>2. /\ rows'[m].saved = rows[m].saved /\ rows'[m].ready = rows[m].ready
        /\ rows'[m].lease = FALSE /\ rows'[m].attempts = rows[m].attempts
        /\ rows'[m].claimedBy = rows[m].claimedBy
        /\ rows'[m].delivered = rows[m].delivered /\ rows'[m].dead = rows[m].dead
        /\ \A n \in Messages \ {m} : SameRow(n)
    BY <1>0, <2>1, LeaseColumn
  <2>3. RowInv(m)'
    BY <1>0, <2>1, <2>2 DEF RowInv, Settled
  <2>4. ~Held(m)
    BY <1>3 DEF LeaseLapses, Held
  <2>5. BudgetInv(m)'
    BY <1>0, <1>n, <2>1, <2>2, <2>4 DEF BudgetInv, Settled
  <2>6. \A n \in Messages \ {m} : RowInv(n)'
    BY <1>0, <2>1, <2>2, RowFrame
  <2>7. \A n \in Messages \ {m} : BudgetInv(n)'
    BY <1>0, <2>1, <2>2, BudgetFrame DEF Held, Holds, SameRow
  <2>8. \A v \in Workers : JobInv(v)'
    BY <1>0, <2>1, <2>2, JobFrame DEF SameJob, SameRow
  <2> QED
    BY <2>3, <2>5, <2>6, <2>7, <2>8
<1>4. ASSUME NEW m \in Messages, BackoffElapses(m) PROVE Goal
  <2>1. UNCHANGED <<jobs, bucket, losses>> /\ rows' = [rows EXCEPT ![m].ready = TRUE]
    BY <1>4 DEF BackoffElapses
  <2>2. /\ rows'[m].saved = rows[m].saved /\ rows'[m].ready = TRUE
        /\ rows'[m].lease = rows[m].lease /\ rows'[m].attempts = rows[m].attempts
        /\ rows'[m].claimedBy = rows[m].claimedBy
        /\ rows'[m].delivered = rows[m].delivered /\ rows'[m].dead = rows[m].dead
        /\ \A n \in Messages \ {m} : SameRow(n)
    BY <1>0, <2>1, ReadyColumn
  <2>3. RowInv(m)' /\ BudgetInv(m)'
    BY <1>0, <1>n, <2>1, <2>2 DEF RowInv, BudgetInv, Settled, Held, Holds
  <2>4. \A n \in Messages \ {m} : RowInv(n)'
    BY <1>0, <2>1, <2>2, RowFrame
  <2>5. \A n \in Messages \ {m} : BudgetInv(n)'
    BY <1>0, <2>1, <2>2, BudgetFrame DEF Held, Holds, SameRow
  <2>6. \A v \in Workers : JobInv(v)'
    BY <1>0, <2>1, <2>2, JobFrame DEF SameJob, SameRow
  <2> QED
    BY <2>3, <2>4, <2>5, <2>6
<1>5. ASSUME NEW w \in Workers, Claim(w) PROVE Goal
  <2>1. PICK m \in Messages :
           /\ Claimable(m)
           /\ \A n \in Messages \ {m} : SameRow(n)
           /\ \A v \in Workers \ {w} : SameJob(v)
           /\ rows'[m].saved = rows[m].saved /\ rows'[m].ready = rows[m].ready
           /\ rows'[m].delivered = rows[m].delivered /\ rows'[m].dead = rows[m].dead
           /\ rows'[m].claimedBy = w /\ rows'[m].lease = TRUE
           /\ rows'[m].attempts = rows[m].attempts + 1
           /\ jobs'[w] # NoJob /\ jobs'[w].step = "archiving" /\ jobs'[w].message = m
           /\ jobs'[w].attempts = rows[m].attempts + 1
           /\ jobs[w] = NoJob /\ UNCHANGED <<bucket, losses>>
    BY <1>0, <1>5, ClaimFacts
  <2>2. rows[m].saved /\ rows[m].ready /\ ~rows[m].lease /\ ~Settled(m)
    BY <2>1 DEF Claimable, Pending
  <2>3. RowInv(m)'
    BY <1>0, <2>1, <2>2, WorkersAssumption DEF RowInv, Settled
  <2>4. BudgetInv(m)'
    <3>1. Held(m)' /\ ~Held(m)
      BY <2>1, <2>2 DEF Held, Holds
    <3> QED BY <1>0, <1>n, <2>1, <2>2, <3>1 DEF BudgetInv
  <2>5. \A n \in Messages \ {m} : RowInv(n)'
    BY <1>0, <2>1, RowFrame
  <2>6. ASSUME NEW n \in Messages \ {m} PROVE BudgetInv(n)'
    <3>1. Held(n) => Held(n)'
      BY <2>1, HeldFrame DEF Held, Holds
    <3> QED BY <1>0, <2>1, <3>1, BudgetFrame
  <2>7. JobInv(w)'
    BY <2>1 DEF JobInv
  <2>8. ASSUME NEW v \in Workers \ {w} PROVE JobInv(v)'
    BY <1>0, <2>1, JobFrame DEF SameRow
  <2> QED
    BY <2>3, <2>4, <2>5, <2>6, <2>7, <2>8
<1>6. ASSUME NEW w \in Workers, Archive(w) PROVE Goal
  <2>1. /\ jobs[w] \in Busy /\ jobs[w] # NoJob /\ jobs'[w] # NoJob
        /\ jobs'[w].message = jobs[w].message /\ jobs'[w].attempts = jobs[w].attempts
        /\ jobs'[w].step = "acknowledging" => jobs[w].message \in bucket'
        /\ \A v \in Workers \ {w} : SameJob(v)
        /\ bucket \subseteq bucket' /\ UNCHANGED <<rows, losses>>
    BY <1>0, <1>6, ArchiveFacts
  <2>2. \A n \in Messages : RowInv(n)'
    BY <1>0, <2>1, RowFrame DEF SameRow
  <2>3. JobInv(w)'
    BY <1>0, <2>1 DEF JobInv
  <2>4. ASSUME NEW v \in Workers \ {w} PROVE JobInv(v)'
    BY <1>0, <2>1, JobFrame
  <2>5. ASSUME NEW n \in Messages PROVE BudgetInv(n)'
    <3>1. Held(n) => Held(n)'
      BY <2>1 DEF Held, Holds, SameJob
    <3> QED BY <1>0, <2>1, <3>1, BudgetFrame DEF SameRow
  <2> QED
    BY <2>2, <2>3, <2>4, <2>5
<1>7. ASSUME NEW w \in Workers, MarkDelivered(w) PROVE Goal
  <2>1. PICK m \in Messages :
           /\ m = jobs[w].message /\ jobs[w] # NoJob /\ jobs[w].step = "acknowledging"
           /\ \A n \in Messages \ {m} : SameRow(n)
           /\ \A v \in Workers \ {w} : SameJob(v)
           /\ UNCHANGED <<bucket, losses>>
           /\ \/ /\ rows[m].claimedBy = w /\ jobs'[w] = NoJob
                 /\ rows'[m].saved = rows[m].saved /\ rows'[m].ready = rows[m].ready
                 /\ rows'[m].attempts = rows[m].attempts /\ rows'[m].dead = rows[m].dead
                 /\ rows'[m].claimedBy = Nobody /\ rows'[m].lease = FALSE
                 /\ rows'[m].delivered = TRUE
              \/ /\ SameRow(m) /\ jobs'[w] # NoJob /\ jobs'[w].step = "releasing"
                 /\ jobs'[w].message = m /\ jobs'[w].attempts = jobs[w].attempts
    BY <1>0, <1>7, MarkDeliveredFacts
  <2>2. RowInv(m)'
    <3>1. m \in bucket
      BY <1>0, <2>1 DEF JobInv
    <3>2. CASE SameRow(m)
      BY <1>0, <2>1, <3>2, RowFrame
    <3>3. CASE ~SameRow(m)
      BY <1>0, <2>1, <3>1, <3>3, WorkersAssumption DEF RowInv, Settled
    <3> QED BY <3>2, <3>3
  <2>3. BudgetInv(m)'
    <3>1. CASE SameRow(m)
      <4>1. Held(m) => Held(m)'
        <5>1. CASE jobs'[w] = NoJob
          BY <1>0, <2>1, <3>1, <5>1, WorkersAssumption DEF SameRow
        <5>2. CASE jobs'[w] # NoJob
          BY <2>1, <3>1, <5>2 DEF Held, Holds, SameRow, SameJob
        <5> QED BY <5>1, <5>2
      <4> QED BY <1>0, <2>1, <3>1, <4>1, BudgetFrame
    <3>2. CASE ~SameRow(m)
      BY <1>0, <1>n, <2>1, <3>2 DEF BudgetInv, Settled
    <3> QED BY <3>1, <3>2
  <2>4. \A n \in Messages \ {m} : RowInv(n)'
    BY <1>0, <2>1, RowFrame
  <2>5. ASSUME NEW n \in Messages \ {m} PROVE BudgetInv(n)'
    <3>1. Held(n) => Held(n)'
      BY <2>1 DEF Held, Holds, SameRow, SameJob
    <3> QED BY <1>0, <2>1, <3>1, BudgetFrame
  <2>6. JobInv(w)'
    BY <1>0, <2>1 DEF JobInv, SameRow
  <2>7. ASSUME NEW v \in Workers \ {w} PROVE JobInv(v)'
    BY <1>0, <2>1, JobFrame, WorkersAssumption DEF SameRow
  <2> QED
    BY <2>2, <2>3, <2>4, <2>5, <2>6, <2>7
<1>8. ASSUME NEW w \in Workers, ReleaseFailed(w) PROVE Goal
  <2>1. PICK m \in Messages :
           /\ m = jobs[w].message /\ jobs[w] # NoJob /\ jobs'[w] = NoJob
           /\ \A n \in Messages \ {m} : SameRow(n)
           /\ \A v \in Workers \ {w} : SameJob(v)
           /\ UNCHANGED <<bucket, losses>>
           /\ \/ /\ rows[m].claimedBy = w /\ ~Settled(m)
                 /\ rows'[m].saved = rows[m].saved
                 /\ rows'[m].delivered = rows[m].delivered
                 /\ rows'[m].attempts = rows[m].attempts
                 /\ rows'[m].claimedBy = Nobody /\ rows'[m].lease = FALSE
                 /\ rows'[m].dead <=> jobs[w].attempts >= MaxAttempts
                 /\ rows'[m].dead => rows'[m].ready = rows[m].ready
              \/ SameRow(m) /\ ~(rows[m].claimedBy = w /\ ~Settled(m))
    BY <1>0, <1>8, ReleaseFailedFacts
  <2>2. ASSUME rows[m].claimedBy = w, ~Settled(m) PROVE RowInv(m)' /\ BudgetInv(m)'
    <3>1. jobs[w].attempts = rows[m].attempts
      BY <1>0, <2>1, <2>2 DEF JobInv
    <3>2. RowInv(m)'
      BY <1>0, <1>n, <2>1, <2>2, <3>1, WorkersAssumption DEF RowInv, Settled
    <3>3. BudgetInv(m)'
      BY <1>0, <1>n, <2>1, <2>2, <3>1 DEF BudgetInv, Settled
    <3> QED BY <3>2, <3>3
  <2>3. ASSUME ~(rows[m].claimedBy = w /\ ~Settled(m)) PROVE RowInv(m)' /\ BudgetInv(m)'
    <3>1. RowInv(m)'
      BY <1>0, <2>1, <2>3, RowFrame
    <3>2. rows[m].claimedBy # w
      BY <1>0, <2>3, WorkersAssumption DEF RowInv
    <3>3. Held(m) => Held(m)'
      BY <2>1, <2>3, <3>2, HeldFrame
    <3>4. BudgetInv(m)'
      BY <1>0, <2>1, <2>3, <3>3, BudgetFrame
    <3> QED BY <3>1, <3>4
  <2>4. \A n \in Messages \ {m} : RowInv(n)'
    BY <1>0, <2>1, RowFrame
  <2>5. ASSUME NEW n \in Messages \ {m} PROVE BudgetInv(n)'
    <3>1. Held(n) => Held(n)'
      BY <2>1 DEF Held, Holds, SameRow, SameJob
    <3> QED BY <1>0, <2>1, <3>1, BudgetFrame
  <2>6. JobInv(w)'
    BY <2>1 DEF JobInv
  <2>7. ASSUME NEW v \in Workers \ {w} PROVE JobInv(v)'
    BY <1>0, <2>1, JobFrame, WorkersAssumption DEF SameRow
  <2> QED
    BY <2>2, <2>3, <2>4, <2>5, <2>6, <2>7
<1>9. ASSUME NEW w \in Workers, Crash(w) PROVE Goal
  <2>1. PICK m \in Messages : m = jobs[w].message
    BY <1>0, <1>9, BusyJob DEF Crash, Busy
  <2>2. /\ UNCHANGED <<rows, bucket>> /\ jobs'[w] = NoJob
        /\ \A v \in Workers \ {w} : SameJob(v)
        /\ losses'[m] = losses[m] + 1
        /\ \A n \in Messages \ {m} : losses'[n] = losses[n]
    BY <1>0, <1>9, <2>1 DEF Crash, TypeOK, SameJob
  <2>3. \A n \in Messages : RowInv(n)'
    BY <1>0, <2>2, RowFrame DEF SameRow
  <2>4. BudgetInv(m)'
    BY <1>0, <2>2, BudgetFrame DEF SameRow
  <2>5. ASSUME NEW n \in Messages \ {m} PROVE BudgetInv(n)'
    <3>1. Held(n) => Held(n)'
      BY <2>1, <2>2 DEF Held, Holds, SameJob
    <3> QED BY <1>0, <2>2, <3>1, BudgetFrame DEF SameRow
  <2>6. \A v \in Workers : JobInv(v)'
    <3>1. JobInv(w)'
      BY <2>2 DEF JobInv
    <3>2. ASSUME NEW v \in Workers \ {w} PROVE JobInv(v)'
      BY <1>0, <2>2, JobFrame
    <3> QED BY <3>1, <3>2
  <2> QED
    BY <2>3, <2>4, <2>5, <2>6
<1>10. CASE UNCHANGED vars
  <2>1. \A n \in Messages : RowInv(n)'
    BY <1>0, <1>10, RowFrame DEF vars, SameRow
  <2>2. \A v \in Workers : JobInv(v)'
    BY <1>0, <1>10, JobFrame DEF vars, SameJob
  <2>3. \A n \in Messages : BudgetInv(n)'
    BY <1>0, <1>10, BudgetFrame DEF vars, SameRow, Held, Holds
  <2> QED
    BY <2>1, <2>2, <2>3
<1> QED
  BY <1>1, <1>2, <1>3, <1>4, <1>5, <1>6, <1>7, <1>8, <1>9, <1>10 DEF Next, Work, Quiet

\* Rows, jobs and budgets are consistent in every reachable state.
THEOREM OutboxInductive == Spec => []IndInv
<1>1. Init => IndInv
  BY InitInd
<1>2. IndInv /\ TypeOK' /\ [Next]_vars => IndInv'
  BY StepInd
<1> QED
  BY <1>1, <1>2, OutboxTypeCorrect, PTL DEF Spec

\* A message is settled for a reason, whichever worker archived or acknowledged it:
\* marked delivered only with its object in the bucket, given up only with its
\* budget spent, and over budget only by the claims it lost (deliver_available,
\* release_failed).
THEOREM SettlingIsEarned == Spec => []SettledIsEarned
<1>1. IndInv => SettledIsEarned
  BY DEF IndInv, OutboxInv, RowInv, BudgetInv, SettledIsEarned
<1> QED
  BY <1>1, OutboxInductive, PTL

\* No claim, lapse, back-off or late worker touches the row of a settled message
\* (mark_delivered, release_failed).
THEOREM SettlingIsFinal == Spec => SettledIsFinal
<1>1. IndInv /\ [Next]_vars
        => [\A m \in Messages : Settled(m) => rows'[m] = rows[m]]_vars
  <2> SUFFICES ASSUME IndInv, Next
               PROVE  \A m \in Messages : Settled(m) => rows'[m] = rows[m]
    OBVIOUS
  <2> SUFFICES ASSUME NEW m \in Messages, Settled(m) PROVE SameRow(m)
    BY DEF SameRow
  <2>0. /\ TypeOK /\ RowInv(m) /\ \A v \in Workers : rows[m].claimedBy # v
        /\ rows[m].saved /\ rows[m].ready /\ ~rows[m].lease
    BY WorkersAssumption DEF IndInv, OutboxInv, RowInv
  <2>1. ASSUME NEW n \in Messages, SaveAnalysis(n) PROVE SameRow(m)
    BY <2>0, <2>1, SavedColumn DEF SaveAnalysis
  <2>2. ASSUME NEW n \in Messages, LeaseLapsesEarly(n) \/ LeaseLapses(n)
        PROVE  SameRow(m)
    BY <2>0, <2>2, LeaseColumn DEF LeaseLapsesEarly, LeaseLapses
  <2>3. ASSUME NEW n \in Messages, BackoffElapses(n) PROVE SameRow(m)
    BY <2>0, <2>3, ReadyColumn DEF BackoffElapses
  <2>4. ASSUME NEW w \in Workers, Claim(w) PROVE SameRow(m)
    BY <2>0, <2>4, ClaimFacts DEF Claimable, Pending
  <2>5. ASSUME NEW w \in Workers, Archive(w) \/ Crash(w) PROVE SameRow(m)
    BY <2>5 DEF Archive, Crash, SameRow
  <2>6. ASSUME NEW w \in Workers, MarkDelivered(w) PROVE SameRow(m)
    <3>1. PICK n \in Messages : /\ \A k \in Messages \ {n} : SameRow(k)
                                /\ rows[n].claimedBy = w \/ SameRow(n)
      BY <2>0, <2>6, MarkDeliveredFacts
    <3> QED BY <2>0, <3>1
  <2>7. ASSUME NEW w \in Workers, ReleaseFailed(w) PROVE SameRow(m)
    BY <2>0, <2>7, ReleaseFailedFacts
  <2>8. CASE Quiet
    BY <2>8 DEF Quiet, vars, SameRow
  <2> QED
    BY <2>1, <2>2, <2>3, <2>4, <2>5, <2>6, <2>7, <2>8 DEF Next, Work
<1> QED
  BY <1>1, OutboxInductive, PTL DEF Spec, SettledIsFinal
=============================================================================
