-------------------------- MODULE ReceiptFinalizer --------------------------
(***************************************************************************)
(* The receipt queue and its workers: receipt_outbox.py (claim, finalize,  *)
(* release), ReceiptFinalizationWorker.run_once (receipt_finalizer.py) and *)
(* the write-once bundle archive (authority_archive.py).                   *)
(*                                                                         *)
(* Several workers share one queue.  A worker claims a request under a     *)
(* lease, loads its material, signs, uploads and finalizes in steps of its *)
(* own; between any two of them it may die, its lease may run out, another *)
(* worker may take the request over, and the run it belongs to may be      *)
(* reset or its memory revoked.                                            *)
(***************************************************************************)
EXTENDS Naturals, FiniteSets

CONSTANTS
  Requests,      \* requests in order of created_at: numbers 1, 2, ...
  Workers,       \* worker identities
  Nobody,        \* SQL NULL in claimed_by
  MaxAttempts,   \* outbox_max_attempts
  FaultsAllowed, \* may S3 or KMS fail
  MaxCrashes,    \* bound: worker processes that die
  MaxOverruns    \* bound: leases that run out under a live worker

ASSUME RequestsAssumption == Requests \subseteq Nat \ {0}
ASSUME WorkersAssumption == Nobody \notin Workers
ASSUME LimitsAssumption ==
  /\ MaxAttempts \in Nat \ {0}
  /\ MaxCrashes \in Nat
  /\ MaxOverruns \in Nat
  /\ FaultsAllowed \in BOOLEAN

VARIABLES
  status,     \* receipt_requests.status
  claimedBy,  \* receipt_requests.claimed_by
  lease,      \* claimed_until against the clock: "none", "held" or "over"
  attempts,   \* receipt_requests.attempts
  due,        \* available_at <= now()
  receipt,    \* authority_receipts.status
  signed,     \* the bundle the signed receipt names
  exact,      \* is the target still the ledger head, the memory as reviewed
  archive,    \* the object under the receipt's key
  pc,         \* where run_once of a worker is
  job,        \* the request it has claimed
  jobAttempt, \* the attempts value its claim returned
  crashes, overruns

request == <<status, claimedBy, lease, attempts, due>>
rows == <<request, receipt, signed>>
world == <<exact, archive>>
worker == <<pc, job, jobAttempt>>
faults == <<crashes, overruns>>
vars == <<rows, world, worker, faults>>

Status == {"pending", "processing", "delivered", "dead_lettered"}
Lease == {"none", "held", "over"}
Step == {"idle", "claimed", "loaded", "bundled", "archived", "retry", "invalid"}
NoBundle == <<>>
NoJob == 0

\* Mutant: the receipt asserts the time of the attempt.
SigningTimeOfAttempt(r, attempt) == attempt

\* The asserted signing time is the request's created_at, never the clock of the
\* attempt, so every attempt builds the same bytes.
SigningTime(r, attempt) == 0

Bundle(r, attempt) == <<r, SigningTime(r, attempt)>>

Bundles == {NoBundle} \cup (Requests \X Nat)

Init ==
  /\ status = [r \in Requests |-> "pending"]
  /\ claimedBy = [r \in Requests |-> Nobody]
  /\ lease = [r \in Requests |-> "none"]
  /\ attempts = [r \in Requests |-> 0]
  /\ due = [r \in Requests |-> TRUE]
  /\ receipt = [r \in Requests |-> "pending"]
  /\ signed = [r \in Requests |-> NoBundle]
  /\ exact = [r \in Requests |-> TRUE]
  /\ archive = [r \in Requests |-> NoBundle]
  /\ pc = [w \in Workers |-> "idle"]
  /\ job = [w \in Workers |-> NoJob]
  /\ jobAttempt = [w \in Workers |-> 0]
  /\ crashes = 0
  /\ overruns = 0

Goto(w, step) == pc' = [pc EXCEPT ![w] = step]

-----------------------------------------------------------------------------
(* One round of run_once.                                                  *)

\* Mutant: a request is never taken over from a worker that lost its lease.
ClaimablePending(r) == due[r] /\ status[r] = "pending"

Claimable(r) ==
  /\ due[r]
  /\ status[r] = "pending" \/ (status[r] = "processing" /\ lease[r] = "over")

\* Mutant: the receipt of a failed attempt stays failed.
NotReopened(s) == s

\* A failed receipt is opened again for the next attempt.
Reopened(s) == IF s = "failed" THEN "pending" ELSE s

\* claim_receipt_request: the oldest request that is due, with its receipt put
\* back to pending.
Claim(w, r) ==
  /\ pc[w] = "idle"
  /\ Claimable(r)
  /\ \A s \in Requests : Claimable(s) => r <= s
  /\ status' = [status EXCEPT ![r] = "processing"]
  /\ claimedBy' = [claimedBy EXCEPT ![r] = w]
  /\ lease' = [lease EXCEPT ![r] = "held"]
  /\ attempts' = [attempts EXCEPT ![r] = @ + 1]
  /\ receipt' = [receipt EXCEPT ![r] = Reopened(@)]
  /\ job' = [job EXCEPT ![w] = r]
  /\ jobAttempt' = [jobAttempt EXCEPT ![w] = attempts[r] + 1]
  /\ Goto(w, "claimed")
  /\ UNCHANGED <<due, signed, world, faults>>

\* S3ReceiptDocumentSource.load cannot read a pinned release document: whatever
\* the reason, it is reported as invalid material, which is not retried.
DocumentsUnavailable(w) ==
  /\ FaultsAllowed
  /\ pc[w] = "claimed"
  /\ Goto(w, "invalid")
  /\ UNCHANGED <<rows, world, job, jobAttempt, faults>>

\* The release documents, then PostgresReceiptMaterialLoader.load: the target must
\* be the exact review prefix, the ledger's head, and the memory in the state the
\* review gave it.
Load(w) ==
  /\ pc[w] = "claimed"
  /\ Goto(w, IF exact[job[w]] THEN "loaded" ELSE "invalid")
  /\ UNCHANGED <<rows, world, job, jobAttempt, faults>>

\* prepare_evidence, build_manifest, sign_manifest and build_authority_bundle.
Sign(w) ==
  /\ pc[w] = "loaded"
  /\ Goto(w, "bundled")
  /\ UNCHANGED <<rows, world, job, jobAttempt, faults>>

\* KMS does not answer, or answers with what the pinned key does not verify.
SigningFails(w) ==
  /\ FaultsAllowed
  /\ pc[w] = "loaded"
  /\ Goto(w, "retry")
  /\ UNCHANGED <<rows, world, job, jobAttempt, faults>>

\* _resolve_existing: the object under the key carries the same bundle digest.
Adopts(existing, bundle) == existing \in {NoBundle, bundle}

\* S3AuthorityBundleArchive.persist: the first upload wins, an equal object is
\* as good as the own upload, a different one is a conflict and is retried.
Persist(w) ==
  LET r == job[w]
      bundle == Bundle(r, jobAttempt[w])
  IN /\ pc[w] = "bundled"
     /\ archive' = [archive EXCEPT ![r] = IF @ = NoBundle THEN bundle ELSE @]
     /\ Goto(w, IF Adopts(archive[r], bundle) THEN "archived" ELSE "retry")
     /\ UNCHANGED <<rows, exact, job, jobAttempt, faults>>

\* S3 does not take the upload.
UploadFails(w) ==
  /\ FaultsAllowed
  /\ pc[w] = "bundled"
  /\ Goto(w, "retry")
  /\ UNCHANGED <<rows, world, job, jobAttempt, faults>>

\* The upload succeeds and its answer is lost.
PersistLost(w) ==
  LET r == job[w]
  IN /\ FaultsAllowed
     /\ pc[w] = "bundled"
     /\ archive[r] = NoBundle
     /\ archive' = [archive EXCEPT ![r] = Bundle(r, jobAttempt[w])]
     /\ Goto(w, "retry")
     /\ UNCHANGED <<rows, exact, job, jobAttempt, faults>>

\* Mutant: the updates do not compare status and claimed_by.
OwnsUnchecked(w, r) == TRUE

\* The row condition of finalization and release.
Owns(w, r) == status[r] = "processing" /\ claimedBy[r] = w

\* finalize_receipt_request, the two updates of the owner.
Deliver(w) ==
  LET r == job[w]
  IN /\ pc[w] = "archived"
     /\ Owns(w, r)
     /\ receipt[r] = "pending"
     /\ receipt' = [receipt EXCEPT ![r] = "signed"]
     /\ signed' = [signed EXCEPT ![r] = Bundle(r, jobAttempt[w])]
     /\ status' = [status EXCEPT ![r] = "delivered"]
     /\ claimedBy' = [claimedBy EXCEPT ![r] = Nobody]
     /\ lease' = [lease EXCEPT ![r] = "none"]
     /\ Goto(w, "idle")
     /\ UNCHANGED <<attempts, due, world, job, jobAttempt, faults>>

\* finalize_receipt_request of a late worker: a delivered request with the same
\* result is a success, anything else a lost lease.
FinalizeLate(w) ==
  LET r == job[w]
  IN /\ pc[w] = "archived"
     /\ ~(Owns(w, r) /\ receipt[r] = "pending")
     /\ Goto(w, IF status[r] = "delivered" /\ signed[r] = Bundle(r, jobAttempt[w])
                THEN "idle" ELSE "invalid")
     /\ UNCHANGED <<rows, world, job, jobAttempt, faults>>

\* Mutant: one attempt more than the limit.
TerminalOneMore(w) == jobAttempt[w] > (IF pc[w] = "retry" THEN MaxAttempts ELSE 1)

\* _failed: what cannot be retried is terminal at the first attempt.
Terminal(w) == jobAttempt[w] >= (IF pc[w] = "retry" THEN MaxAttempts ELSE 1)

ReleasedStatus(w) == IF Terminal(w) THEN "dead_lettered" ELSE "pending"

\* release_receipt_failure by the owner.
Release(w) ==
  LET r == job[w]
  IN /\ pc[w] \in {"retry", "invalid"}
     /\ Owns(w, r)
     /\ status' = [status EXCEPT ![r] = ReleasedStatus(w)]
     /\ claimedBy' = [claimedBy EXCEPT ![r] = Nobody]
     /\ lease' = [lease EXCEPT ![r] = "none"]
     /\ due' = [due EXCEPT ![r] = FALSE]
     /\ receipt' = [receipt EXCEPT ![r] = "failed"]
     /\ Goto(w, "idle")
     /\ UNCHANGED <<attempts, signed, world, job, jobAttempt, faults>>

\* release_receipt_failure of a worker that has lost the lease: no row matches.
ReleaseLate(w) ==
  /\ pc[w] \in {"retry", "invalid"}
  /\ ~Owns(w, job[w])
  /\ Goto(w, "idle")
  /\ UNCHANGED <<rows, world, job, jobAttempt, faults>>

\* The process dies; its successor starts with nothing in its hands.
Crash(w) ==
  /\ pc[w] # "idle"
  /\ crashes < MaxCrashes
  /\ crashes' = crashes + 1
  /\ Goto(w, "idle")
  /\ UNCHANGED <<rows, world, job, jobAttempt, overruns>>

-----------------------------------------------------------------------------
(* Time and the rest of the system.                                        *)

Working(r) == \E w \in Workers : claimedBy[r] = w /\ job[w] = r /\ pc[w] # "idle"

\* claimed_until passes: of a dead holder always, of a live one now and then.
LeaseRunsOut(r) ==
  /\ status[r] = "processing" /\ lease[r] = "held"
  /\ Working(r) => overruns < MaxOverruns
  /\ overruns' = IF Working(r) THEN overruns + 1 ELSE overruns
  /\ lease' = [lease EXCEPT ![r] = "over"]
  /\ UNCHANGED <<status, claimedBy, attempts, due, receipt, signed, world, worker, crashes>>

\* available_at passes.
BackoffEnds(r) ==
  /\ status[r] = "pending" /\ ~due[r]
  /\ due' = [due EXCEPT ![r] = TRUE]
  /\ UNCHANGED <<status, claimedBy, lease, attempts, receipt, signed, world, worker, faults>>

\* The run is reset, or the memory revoked: RunAuthority's Invalidate and Revoke.
TargetMoves(r) ==
  /\ exact[r]
  /\ exact' = [exact EXCEPT ![r] = FALSE]
  /\ UNCHANGED <<rows, archive, worker, faults>>

WorkerStep(w) ==
  \/ \E r \in Requests : Claim(w, r)
  \/ Load(w) \/ DocumentsUnavailable(w) \/ Sign(w) \/ SigningFails(w)
  \/ Persist(w) \/ PersistLost(w) \/ UploadFails(w)
  \/ Deliver(w) \/ FinalizeLate(w) \/ Release(w) \/ ReleaseLate(w)

\* What PublicBundleService.download answers for the receipt of request r: only a
\* signed receipt is known, and the object under its key must have its digest.
Download(r) ==
  IF receipt[r] # "signed" THEN "not_found"
  ELSE IF archive[r] = NoBundle \/ archive[r] # signed[r] THEN "unavailable" ELSE "served"

Time(r) == LeaseRunsOut(r) \/ BackoffEnds(r)

Next ==
  \/ \E w \in Workers : WorkerStep(w) \/ Crash(w)
  \/ \E r \in Requests : Time(r) \/ TargetMoves(r)

\* A worker in --watch mode polls for ever and runs each round to its end, and
\* time passes.
Fairness ==
  /\ \A w \in Workers : WF_vars(WorkerStep(w))
  /\ \A r \in Requests : WF_vars(Time(r))

Spec == Init /\ [][Next]_vars /\ Fairness

-----------------------------------------------------------------------------
(* Properties.                                                             *)

\* Every row and every worker has the shape its table or program gives it.
TypeOK ==
  /\ status \in [Requests -> Status]
  /\ claimedBy \in [Requests -> Workers \cup {Nobody}]
  /\ lease \in [Requests -> Lease]
  /\ attempts \in [Requests -> Nat]
  /\ due \in [Requests -> BOOLEAN]
  /\ receipt \in [Requests -> {"pending", "signed", "failed"}]
  /\ signed \in [Requests -> Bundles]
  /\ exact \in [Requests -> BOOLEAN]
  /\ archive \in [Requests -> Bundles]
  /\ pc \in [Workers -> Step]
  /\ job \in [Workers -> Requests \cup {NoJob}]
  /\ \A w \in Workers : pc[w] # "idle" => job[w] \in Requests
  /\ jobAttempt \in [Workers -> Nat]
  /\ crashes \in Nat
  /\ overruns \in Nat

\* The request row and the receipt row tell the same story, whichever worker
\* wrote last: delivered with signed, dead-lettered with failed, and a request
\* being processed has a receipt that finalization can still sign.
RowsAgree ==
  \A r \in Requests :
    /\ status[r] = "delivered" <=> receipt[r] = "signed"
    /\ status[r] = "dead_lettered" => receipt[r] = "failed"
    /\ status[r] = "processing" => receipt[r] = "pending" /\ claimedBy[r] # Nobody

\* Every receipt the public may ask for is served, byte for byte the bundle that was
\* signed, and a worker about to upload finds nothing there or its own bytes: a
\* crash or a lost lease after the upload never leaves an object the next attempt
\* cannot adopt (finalize_receipt_request, PublicBundleService.download).
ArchiveReconciles ==
  /\ \A r \in Requests : Download(r) # "unavailable"
  /\ \A w \in Workers :
       pc[w] \in {"bundled", "archived"} =>
         Adopts(archive[job[w]], Bundle(job[w], jobAttempt[w]))

\* The retry limit holds up to what the queue cannot count: an attempt beyond the
\* limit stands for a worker that died or overran its lease without releasing.
AttemptsAccounted ==
  \A r \in Requests : attempts[r] <= MaxAttempts + crashes + overruns

\* A delivered or dead-lettered request is final with its receipt: no late
\* worker signs it, fails it or claims it again.
SettledIsFinal ==
  [][\A r \in Requests :
       status[r] \in {"delivered", "dead_lettered"} =>
         UNCHANGED <<status[r], claimedBy[r], attempts[r], receipt[r], signed[r]>>]_vars

\* Every requested receipt is signed or given up in the end.
RequestsSettle ==
  \A r \in Requests : <>(status[r] \in {"delivered", "dead_lettered"})
=============================================================================
