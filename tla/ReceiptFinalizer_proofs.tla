---------------------- MODULE ReceiptFinalizer_proofs ----------------------
(***************************************************************************)
(* Proofs about the receipt queue, for every set of requests and of        *)
(* workers, every retry limit and any number of crashes and overruns.      *)
(***************************************************************************)
EXTENDS ReceiptFinalizer, TLAPS

Settled(r) == status[r] \in {"delivered", "dead_lettered"}

\* The claim on request r is alive: its lease runs and its claimant works on it.
Alive(r) == status[r] = "processing" /\ lease[r] = "held" /\ Working(r)

Budget == MaxAttempts + crashes + overruns

\* Unless its claim is alive, an open request has an attempt left over, counting
\* the workers that died or overran.
BudgetInv(r) ==
  /\ attempts[r] <= Budget
  /\ ~Settled(r) /\ ~Alive(r) => attempts[r] < Budget

\* A worker's attempt number is the row's as long as the row names it.
JobInv(w) ==
  pc[w] # "idle" /\ claimedBy[job[w]] = w => jobAttempt[w] = attempts[job[w]]

\* There is one object a receipt's key can hold; it is there before any worker
\* finalizes, and a signed receipt names it.
ArchiveInv ==
  /\ \A r \in Requests : /\ archive[r] \in {NoBundle, Bundle(r, 0)}
                         /\ receipt[r] = "signed" =>
                              signed[r] = Bundle(r, 0) /\ archive[r] = Bundle(r, 0)
  /\ \A w \in Workers : pc[w] = "archived" => archive[job[w]] = Bundle(job[w], 0)

-----------------------------------------------------------------------------
(* Types.                                                                  *)

\* The steps of run_once that only move their worker on: loading, signing, the
\* failures that leave no trace, and what a late worker finds.
Moves(w) ==
  \/ Load(w) \/ DocumentsUnavailable(w) \/ Sign(w) \/ SigningFails(w)
  \/ UploadFails(w) \/ FinalizeLate(w) \/ ReleaseLate(w)

\* Such a step writes no table and no object; it ends the round only of a worker
\* the row does not name, and never skips the upload.
LEMMA MoveFacts ==
  ASSUME TypeOK, RowsAgree, NEW w \in Workers, Moves(w)
  PROVE  \E s \in Step :
           /\ pc' = [pc EXCEPT ![w] = s]
           /\ pc[w] # "idle" /\ s # "archived"
           /\ s = "idle" => ~Owns(w, job[w])
           /\ s = "bundled" => pc[w] = "loaded"
           /\ UNCHANGED <<status, claimedBy, lease, attempts, due, receipt, signed>>
           /\ UNCHANGED <<exact, archive, job, jobAttempt, crashes, overruns>>
<1> USE DEF Goto, rows, request, world, faults, Step
<1>1. CASE Load(w) \/ DocumentsUnavailable(w) \/ Sign(w) \/ SigningFails(w) \/ UploadFails(w)
  BY <1>1 DEF Load, DocumentsUnavailable, Sign, SigningFails, UploadFails
<1>2. CASE FinalizeLate(w)
  <2>1. job[w] \in Requests
    BY <1>2 DEF FinalizeLate, TypeOK
  <2>2. ~Owns(w, job[w])
    BY <1>2, <2>1 DEF FinalizeLate, Owns, RowsAgree
  <2> QED BY <1>2, <2>2 DEF FinalizeLate
<1>3. CASE ReleaseLate(w)
  BY <1>3 DEF ReleaseLate
<1> QED
  BY <1>1, <1>2, <1>3 DEF Moves

\* The row and the receipt of a request in agreement, and every variable in shape.
LEMMA QueueTypeStep == TypeOK /\ RowsAgree /\ [Next]_vars => TypeOK'
<1> SUFFICES ASSUME TypeOK, RowsAgree, [Next]_vars PROVE TypeOK'
  OBVIOUS
<1> USE RequestsAssumption, WorkersAssumption, LimitsAssumption
<1> USE DEF Goto, rows, request, world, worker, faults, Status, Lease, Step
<1>1. ASSUME NEW w \in Workers, NEW r \in Requests, Claim(w, r) PROVE TypeOK'
  BY <1>1 DEF TypeOK, Claim, Reopened
<1>2. ASSUME NEW w \in Workers, Moves(w) PROVE TypeOK'
  BY <1>2, MoveFacts DEF TypeOK
<1>3. ASSUME NEW w \in Workers, Persist(w) PROVE TypeOK'
  BY <1>3 DEF TypeOK, Persist, Bundles, Bundle, SigningTime
<1>4. ASSUME NEW w \in Workers, PersistLost(w) PROVE TypeOK'
  BY <1>4 DEF TypeOK, PersistLost, Bundles, Bundle, SigningTime
<1>5. ASSUME NEW w \in Workers, Deliver(w) PROVE TypeOK'
  BY <1>5 DEF TypeOK, Deliver, Bundles, Bundle, SigningTime
<1>6. ASSUME NEW w \in Workers, Release(w) PROVE TypeOK'
  BY <1>6 DEF TypeOK, Release, ReleasedStatus
<1>7. ASSUME NEW w \in Workers, Crash(w) PROVE TypeOK'
  BY <1>7 DEF TypeOK, Crash
<1>8. ASSUME NEW r \in Requests, LeaseRunsOut(r) PROVE TypeOK'
  BY <1>8 DEF TypeOK, LeaseRunsOut
<1>9. ASSUME NEW r \in Requests, BackoffEnds(r) PROVE TypeOK'
  BY <1>9 DEF TypeOK, BackoffEnds
<1>10. ASSUME NEW r \in Requests, TargetMoves(r) PROVE TypeOK'
  BY <1>10 DEF TypeOK, TargetMoves
<1>11. CASE UNCHANGED vars
  BY <1>11 DEF TypeOK, vars
<1> QED
  BY <1>1, <1>2, <1>3, <1>4, <1>5, <1>6, <1>7, <1>8, <1>9, <1>10, <1>11
  DEF Next, WorkerStep, Time, Moves

-----------------------------------------------------------------------------
(* The request row and its receipt.                                        *)

\* Every step of a worker and of the clock keeps the two rows in agreement.
LEMMA RowsAgreeStep == TypeOK /\ RowsAgree /\ [Next]_vars => RowsAgree'
<1> SUFFICES ASSUME TypeOK, RowsAgree, [Next]_vars PROVE RowsAgree'
  OBVIOUS
<1> USE WorkersAssumption DEF rows, request, world, worker, faults, Status
<1>1. ASSUME NEW w \in Workers, NEW r \in Requests, Claim(w, r) PROVE RowsAgree'
  BY <1>1 DEF TypeOK, RowsAgree, Claim, Claimable, Reopened
<1>2. ASSUME NEW w \in Workers, Moves(w) PROVE RowsAgree'
  BY <1>2, MoveFacts DEF RowsAgree
<1>3. ASSUME NEW w \in Workers, Persist(w) \/ PersistLost(w) \/ Crash(w) PROVE RowsAgree'
  BY <1>3 DEF RowsAgree, Persist, PersistLost, Crash
<1>4. ASSUME NEW w \in Workers, Deliver(w) PROVE RowsAgree'
  BY <1>4 DEF TypeOK, RowsAgree, Deliver
<1>5. ASSUME NEW w \in Workers, Release(w) PROVE RowsAgree'
  BY <1>5 DEF TypeOK, RowsAgree, Release, ReleasedStatus, Owns
<1>6. ASSUME NEW r \in Requests, LeaseRunsOut(r) \/ BackoffEnds(r) \/ TargetMoves(r)
      PROVE  RowsAgree'
  BY <1>6 DEF RowsAgree, LeaseRunsOut, BackoffEnds, TargetMoves
<1>7. CASE UNCHANGED vars
  BY <1>7 DEF RowsAgree, vars
<1> QED
  BY <1>1, <1>2, <1>3, <1>4, <1>5, <1>6, <1>7 DEF Next, WorkerStep, Time, Moves

\* The tables and the workers keep the shape the schema and run_once give them,
\* and the request row and the receipt row tell the same story, whichever worker
\* wrote last.
THEOREM QueueRowsAgree == Spec => [](TypeOK /\ RowsAgree)
<1>1. Init => TypeOK /\ RowsAgree
  BY RequestsAssumption, WorkersAssumption, LimitsAssumption
  DEF Init, TypeOK, RowsAgree, Status, Lease, Step, Bundles
<1>2. TypeOK /\ RowsAgree /\ [Next]_vars => (TypeOK /\ RowsAgree)'
  BY QueueTypeStep, RowsAgreeStep
<1> QED
  BY <1>1, <1>2, PTL DEF Spec

\* A delivered or dead-lettered request is final with its receipt: no late worker
\* signs it, fails it or claims it again.
THEOREM QueueSettledIsFinal == Spec => SettledIsFinal
<1> DEFINE Final(r) == UNCHANGED <<status[r], claimedBy[r], attempts[r], receipt[r], signed[r]>>
<1>1. TypeOK /\ RowsAgree /\ [Next]_vars
        => [\A r \in Requests : status[r] \in {"delivered", "dead_lettered"} => Final(r)]_vars
  <2> SUFFICES ASSUME TypeOK, RowsAgree, Next
               PROVE  \A r \in Requests :
                        status[r] \in {"delivered", "dead_lettered"} => Final(r)
    OBVIOUS
  <2> SUFFICES ASSUME NEW r \in Requests, status[r] \in {"delivered", "dead_lettered"}
               PROVE  Final(r)
    OBVIOUS
  <2> USE DEF rows, request, world, worker, faults
  <2>1. ASSUME NEW w \in Workers, NEW s \in Requests, Claim(w, s) PROVE Final(r)
    BY <2>1 DEF TypeOK, Claim, Claimable
  <2>2. ASSUME NEW w \in Workers, Moves(w) PROVE Final(r)
    BY <2>2, MoveFacts
  <2>3. ASSUME NEW w \in Workers, Persist(w) \/ PersistLost(w) \/ Crash(w) PROVE Final(r)
    BY <2>3 DEF Persist, PersistLost, Crash
  <2>4. ASSUME NEW w \in Workers, Deliver(w) PROVE Final(r)
    BY <2>4 DEF TypeOK, Deliver, Owns
  <2>5. ASSUME NEW w \in Workers, Release(w) PROVE Final(r)
    BY <2>5 DEF TypeOK, Release, Owns
  <2>6. ASSUME NEW s \in Requests, LeaseRunsOut(s) \/ BackoffEnds(s) \/ TargetMoves(s)
        PROVE  Final(r)
    BY <2>6 DEF LeaseRunsOut, BackoffEnds, TargetMoves
  <2> QED
    BY <2>1, <2>2, <2>3, <2>4, <2>5, <2>6 DEF Next, WorkerStep, Time, Moves
<1> QED
  BY <1>1, QueueRowsAgree, PTL DEF Spec, SettledIsFinal

-----------------------------------------------------------------------------
(* The archive.                                                            *)

\* Every attempt at a request builds the same bundle.
LEMMA OneBundle ==
  ASSUME NEW r, NEW n
  PROVE  Bundle(r, n) = Bundle(r, 0) /\ Bundle(r, n) # NoBundle
BY DEF Bundle, SigningTime, NoBundle

\* The first upload fixes the object and nothing replaces it.
LEMMA ArchiveStep == TypeOK /\ RowsAgree /\ ArchiveInv /\ [Next]_vars => ArchiveInv'
<1> SUFFICES ASSUME TypeOK, RowsAgree, ArchiveInv, [Next]_vars PROVE ArchiveInv'
  OBVIOUS
<1> USE DEF Goto, rows, request, world, worker, faults
<1>a. /\ archive \in [Requests -> Bundles] /\ pc \in [Workers -> Step]
      /\ signed \in [Requests -> Bundles] /\ job \in [Workers -> Requests \cup {NoJob}]
      /\ receipt \in [Requests -> {"pending", "signed", "failed"}]
  BY DEF TypeOK
<1>1. ASSUME NEW w \in Workers, NEW r \in Requests, Claim(w, r) PROVE ArchiveInv'
  BY <1>1, <1>a DEF ArchiveInv, Claim, Reopened
<1>2. ASSUME NEW w \in Workers, Moves(w) PROVE ArchiveInv'
  BY <1>2, <1>a, MoveFacts DEF ArchiveInv
<1>3. ASSUME NEW w \in Workers, Persist(w) PROVE ArchiveInv'
  <2>1. PICK r \in Requests : r = job[w]
    BY <1>3 DEF Persist, TypeOK
  <2>2. /\ archive' = [archive EXCEPT ![r] = Bundle(r, 0)]
        /\ pc' = [pc EXCEPT ![w] = "archived"]
    BY <1>3, <1>a, <2>1, OneBundle DEF Persist, Adopts, ArchiveInv
  <2> QED
    BY <1>3, <1>a, <2>1, <2>2 DEF ArchiveInv, Persist
<1>4. ASSUME NEW w \in Workers, PersistLost(w) PROVE ArchiveInv'
  <2>1. PICK r \in Requests : r = job[w]
    BY <1>4 DEF PersistLost, TypeOK
  <2>2. /\ archive' = [archive EXCEPT ![r] = Bundle(r, 0)]
        /\ pc' = [pc EXCEPT ![w] = "retry"]
    BY <1>4, <1>a, <2>1, OneBundle DEF PersistLost
  <2> QED
    BY <1>4, <1>a, <2>1, <2>2 DEF ArchiveInv, PersistLost
<1>5. ASSUME NEW w \in Workers, Deliver(w) PROVE ArchiveInv'
  <2>1. PICK r \in Requests : r = job[w]
    BY <1>5 DEF Deliver, TypeOK
  <2>2. /\ signed' = [signed EXCEPT ![r] = Bundle(r, 0)] /\ archive[r] = Bundle(r, 0)
    BY <1>5, <1>a, <2>1, OneBundle DEF Deliver, ArchiveInv
  <2> QED
    BY <1>5, <1>a, <2>1, <2>2 DEF ArchiveInv, Deliver
<1>6. ASSUME NEW w \in Workers, Release(w) PROVE ArchiveInv'
  BY <1>6, <1>a DEF ArchiveInv, Release, TypeOK
<1>7. ASSUME NEW w \in Workers, Crash(w) PROVE ArchiveInv'
  BY <1>7, <1>a DEF ArchiveInv, Crash
<1>8. ASSUME NEW r \in Requests, LeaseRunsOut(r) \/ BackoffEnds(r) \/ TargetMoves(r)
      PROVE  ArchiveInv'
  BY <1>8 DEF ArchiveInv, LeaseRunsOut, BackoffEnds, TargetMoves
<1>9. CASE UNCHANGED vars
  BY <1>9 DEF ArchiveInv, vars
<1> QED
  BY <1>1, <1>2, <1>3, <1>4, <1>5, <1>6, <1>7, <1>8, <1>9
  DEF Next, WorkerStep, Time, Moves

\* A signed receipt is always served with the bundle that was signed, and a worker
\* about to upload finds nothing under the key or its own bytes: no crash or lost
\* lease after an upload leaves an object the next attempt cannot adopt
\* (persist, finalize_receipt_request, PublicBundleService.download).
THEOREM ArchiveAlwaysReconciles == Spec => []ArchiveReconciles
<1>1. Init => ArchiveInv
  BY DEF Init, ArchiveInv
<1>2. TypeOK /\ RowsAgree /\ ArchiveInv /\ [Next]_vars => ArchiveInv'
  BY ArchiveStep
<1>3. TypeOK /\ ArchiveInv => ArchiveReconciles
  <2> SUFFICES ASSUME TypeOK, ArchiveInv PROVE ArchiveReconciles
    OBVIOUS
  <2>1. ASSUME NEW r \in Requests PROVE Download(r) # "unavailable"
    <3>1. receipt[r] = "signed" => archive[r] = signed[r] /\ archive[r] # NoBundle
      BY OneBundle DEF ArchiveInv
    <3> QED BY <3>1 DEF Download
  <2>2. ASSUME NEW w \in Workers, pc[w] \in {"bundled", "archived"}
        PROVE  Adopts(archive[job[w]], Bundle(job[w], jobAttempt[w]))
    <3>1. job[w] \in Requests
      BY <2>2 DEF TypeOK
    <3> QED BY <3>1, OneBundle DEF ArchiveInv, Adopts
  <2> QED
    BY <2>1, <2>2 DEF ArchiveReconciles
<1> QED
  BY <1>1, <1>2, <1>3, QueueRowsAgree, PTL DEF Spec

-----------------------------------------------------------------------------
(* The retry limit.                                                        *)

\* A worker's attempt number is the row's until another worker takes over.
LEMMA JobStep ==
  ASSUME TypeOK, RowsAgree, \A w \in Workers : JobInv(w), [Next]_vars
  PROVE  \A v \in Workers : JobInv(v)'
<1> SUFFICES ASSUME NEW v \in Workers PROVE JobInv(v)'
  OBVIOUS
<1> USE WorkersAssumption DEF Goto, rows, request, world, worker, faults
<1>a. pc[v] # "idle" => job[v] \in Requests
  BY DEF TypeOK
<1>1. ASSUME NEW w \in Workers, NEW r \in Requests, Claim(w, r) PROVE JobInv(v)'
  <2>1. CASE v = w
    BY <1>1, <2>1 DEF JobInv, Claim, TypeOK
  <2>2. CASE v # w
    BY <1>1, <1>a, <2>2 DEF JobInv, Claim, TypeOK
  <2> QED BY <2>1, <2>2
<1>2. ASSUME NEW w \in Workers, Moves(w) PROVE JobInv(v)'
  BY <1>2, MoveFacts DEF JobInv, TypeOK
<1>3. ASSUME NEW w \in Workers, Persist(w) \/ PersistLost(w) \/ Crash(w) PROVE JobInv(v)'
  BY <1>3 DEF JobInv, Persist, PersistLost, Crash, TypeOK
<1>4. ASSUME NEW w \in Workers, Deliver(w) PROVE JobInv(v)'
  BY <1>4, <1>a DEF JobInv, Deliver, TypeOK
<1>5. ASSUME NEW w \in Workers, Release(w) PROVE JobInv(v)'
  BY <1>5, <1>a DEF JobInv, Release, TypeOK
<1>6. ASSUME NEW r \in Requests, LeaseRunsOut(r) \/ BackoffEnds(r) \/ TargetMoves(r)
      PROVE  JobInv(v)'
  BY <1>6 DEF JobInv, LeaseRunsOut, BackoffEnds, TargetMoves
<1>7. CASE UNCHANGED vars
  BY <1>7 DEF JobInv, vars
<1> QED
  BY <1>1, <1>2, <1>3, <1>4, <1>5, <1>6, <1>7 DEF Next, WorkerStep, Time, Moves

\* The budget of a request whose row a step leaves alone holds on while its claim
\* stays alive or one more loss is counted.
LEMMA BudgetFrame ==
  ASSUME TypeOK, TypeOK', NEW r \in Requests, BudgetInv(r),
         status'[r] = status[r], attempts'[r] = attempts[r],
         \/ crashes' = crashes /\ overruns' = overruns /\ (Alive(r) => Alive(r)')
         \/ crashes' + overruns' = crashes + overruns + 1
  PROVE  BudgetInv(r)'
<1>1. /\ attempts[r] \in Nat /\ crashes \in Nat /\ overruns \in Nat /\ MaxAttempts \in Nat
      /\ crashes' \in Nat /\ overruns' \in Nat
  BY LimitsAssumption DEF TypeOK
<1>2. Budget \in Nat
  BY <1>1 DEF Budget
<1>3. CASE crashes' = crashes /\ overruns' = overruns /\ (Alive(r) => Alive(r)')
  BY <1>1, <1>2, <1>3 DEF BudgetInv, Settled, Budget
<1>4. CASE crashes' + overruns' = crashes + overruns + 1
  <2>1. Budget' = Budget + 1
    BY <1>1, <1>4 DEF Budget
  <2> QED BY <1>1, <1>2, <2>1 DEF BudgetInv, Settled
<1> QED
  BY <1>3, <1>4

\* Every step keeps every request within its budget.
LEMMA BudgetStep ==
  ASSUME TypeOK, TypeOK', RowsAgree, \A w \in Workers : JobInv(w),
         \A r \in Requests : BudgetInv(r), [Next]_vars
  PROVE  \A q \in Requests : BudgetInv(q)'
<1> SUFFICES ASSUME NEW q \in Requests PROVE BudgetInv(q)'
  OBVIOUS
<1> USE WorkersAssumption DEF Goto, rows, request, world, worker, faults
<1>a. /\ attempts[q] \in Nat /\ crashes \in Nat /\ overruns \in Nat
      /\ MaxAttempts \in Nat \ {0}
  BY LimitsAssumption DEF TypeOK
<1>1. ASSUME NEW w \in Workers, NEW r \in Requests, Claim(w, r) PROVE BudgetInv(q)'
  <2>1. CASE q = r
    <3>1. /\ ~Settled(q) /\ ~Alive(q)
      BY <1>1, <2>1 DEF Claim, Claimable, Settled, Alive
    <3>2. attempts'[q] = attempts[q] + 1 /\ crashes' = crashes /\ overruns' = overruns
      BY <1>1, <2>1 DEF Claim, TypeOK
    <3>3. Alive(q)'
      BY <1>1, <2>1 DEF Claim, TypeOK, Alive, Working
    <3> QED BY <1>a, <3>1, <3>2, <3>3 DEF BudgetInv, Budget
  <2>2. CASE q # r
    <3>1. Alive(q) => Alive(q)'
      BY <1>1, <2>2 DEF Claim, TypeOK, Alive, Working
    <3> QED BY <1>1, <2>2, <3>1, BudgetFrame DEF Claim, TypeOK
  <2> QED BY <2>1, <2>2
<1>2. ASSUME NEW w \in Workers, Moves(w) PROVE BudgetInv(q)'
  <2>1. PICK s \in Step :
          /\ pc' = [pc EXCEPT ![w] = s]
          /\ pc[w] # "idle" /\ s # "archived"
          /\ s = "idle" => ~Owns(w, job[w])
          /\ UNCHANGED <<status, claimedBy, lease, attempts, due, receipt, signed>>
          /\ UNCHANGED <<exact, archive, job, jobAttempt, crashes, overruns>>
    BY <1>2, MoveFacts
  <2>2. Alive(q) => Alive(q)'
    BY <2>1 DEF Alive, Working, Owns, TypeOK
  <2> QED BY <2>1, <2>2, BudgetFrame
<1>3. ASSUME NEW w \in Workers, Persist(w) \/ PersistLost(w) PROVE BudgetInv(q)'
  <2>1. /\ UNCHANGED <<status, claimedBy, lease, attempts, job, crashes, overruns>>
        /\ pc[w] # "idle"
        /\ \E s \in {"archived", "retry"} : pc' = [pc EXCEPT ![w] = s]
    BY <1>3 DEF Persist, PersistLost
  <2>2. Alive(q) => Alive(q)'
    BY <2>1 DEF Alive, Working, TypeOK
  <2> QED BY <2>1, <2>2, BudgetFrame
<1>4. ASSUME NEW w \in Workers, Crash(w) PROVE BudgetInv(q)'
  BY <1>4, <1>a, BudgetFrame DEF Crash
<1>5. ASSUME NEW w \in Workers, Deliver(w) PROVE BudgetInv(q)'
  <2>1. CASE q = job[w]
    BY <1>5, <1>a, <2>1 DEF Deliver, TypeOK, BudgetInv, Budget, Settled
  <2>2. CASE q # job[w]
    <3>1. Alive(q) => Alive(q)'
      BY <1>5, <2>2 DEF Deliver, TypeOK, Alive, Working
    <3> QED BY <1>5, <2>2, <3>1, BudgetFrame DEF Deliver, TypeOK
  <2> QED BY <2>1, <2>2
<1>6. ASSUME NEW w \in Workers, Release(w) PROVE BudgetInv(q)'
  <2>1. CASE q = job[w]
    <3>1. jobAttempt[w] = attempts[q]
      BY <1>6, <2>1 DEF Release, Owns, JobInv
    <3>2. UNCHANGED <<attempts, crashes, overruns>> /\ status'[q] = ReleasedStatus(w)
      BY <1>6, <2>1 DEF Release, TypeOK
    <3>3. status'[q] = "dead_lettered" \/ attempts[q] < MaxAttempts
      BY <1>a, <3>1, <3>2 DEF ReleasedStatus, Terminal
    <3> QED BY <1>a, <3>2, <3>3 DEF BudgetInv, Budget, Settled
  <2>2. CASE q # job[w]
    <3>1. Alive(q) => Alive(q)'
      BY <1>6, <2>2 DEF Release, TypeOK, Alive, Working
    <3> QED BY <1>6, <2>2, <3>1, BudgetFrame DEF Release, TypeOK
  <2> QED BY <2>1, <2>2
<1>7. ASSUME NEW r \in Requests, LeaseRunsOut(r) PROVE BudgetInv(q)'
  <2>1. CASE Working(r)
    BY <1>7, <1>a, <2>1, BudgetFrame DEF LeaseRunsOut
  <2>2. CASE ~Working(r)
    <3>1. Alive(q) => Alive(q)'
      BY <1>7, <2>2 DEF LeaseRunsOut, TypeOK, Alive, Working
    <3> QED BY <1>7, <2>2, <3>1, BudgetFrame DEF LeaseRunsOut
  <2> QED BY <2>1, <2>2
<1>8. ASSUME NEW r \in Requests, BackoffEnds(r) \/ TargetMoves(r) PROVE BudgetInv(q)'
  <2>1. Alive(q) => Alive(q)'
    BY <1>8 DEF BackoffEnds, TargetMoves, Alive, Working
  <2> QED BY <1>8, <2>1, BudgetFrame DEF BackoffEnds, TargetMoves
<1>9. CASE UNCHANGED vars
  <2>1. Alive(q) => Alive(q)'
    BY <1>9 DEF vars, Alive, Working
  <2> QED BY <1>9, <2>1, BudgetFrame DEF vars
<1> QED
  BY <1>1, <1>2, <1>3, <1>4, <1>5, <1>6, <1>7, <1>8, <1>9
  DEF Next, WorkerStep, Time, Moves

\* The retry limit holds up to what the queue cannot count: every attempt beyond it
\* stands for a worker that died or overran its lease without releasing
\* (claim_receipt_request, release_receipt_failure).
THEOREM AttemptsAreAccounted == Spec => []AttemptsAccounted
<1> DEFINE Inv == (\A w \in Workers : JobInv(w)) /\ (\A r \in Requests : BudgetInv(r))
<1>1. Init => Inv
  BY LimitsAssumption DEF Init, JobInv, BudgetInv, Budget
<1>2. TypeOK /\ TypeOK' /\ RowsAgree /\ Inv /\ [Next]_vars => Inv'
  BY JobStep, BudgetStep
<1>3. Inv => AttemptsAccounted
  BY DEF BudgetInv, Budget, AttemptsAccounted
<1> HIDE DEF Inv
<1> QED
  BY <1>1, <1>2, <1>3, QueueRowsAgree, PTL DEF Spec
=============================================================================
