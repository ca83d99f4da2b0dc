--------------------------- MODULE EvidenceOutbox ---------------------------
(***************************************************************************)
(* The evidence outbox (outbox.py, archive.py, the outbox row of           *)
(* save_analysis).  Saving an incident's analysis enqueues its evidence in *)
(* the same transaction; workers claim the oldest available message under  *)
(* a lease, put the object and acknowledge it.  The row has no status      *)
(* column: what may happen to a message follows from four nullable ones.   *)
(* Each SQL statement commits on its own, so each is a step.               *)
(***************************************************************************)
EXTENDS Naturals, FiniteSets, FiniteSetsExt

CONSTANTS
  Messages,     \* the incidents saved, numbered in created_at order
  Workers,      \* worker ids (host and process)
  MaxAttempts,  \* RECALLOPS_OUTBOX_MAX_ATTEMPTS
  MaxLosses     \* bound: claims lost to a crash or to a lease that lapses early

ASSUME OutboxAssumption ==
  /\ Messages \subseteq Nat
  /\ MaxAttempts \in Nat \ {0}
  /\ MaxLosses \in Nat

VARIABLES
  rows,    \* the table evidence_outbox
  jobs,    \* what deliver_available of each worker holds
  bucket,  \* incidents whose object is in the evidence bucket
  losses   \* per message, claims whose worker could not report back

vars == <<rows, jobs, bucket, losses>>

Nobody == "nobody"

\* A worker id is a host and a process number, never the NULL of claimed_by.
ASSUME WorkersAssumption == Nobody \notin Workers

NoJob == [step |-> "idle"]
Job(m, step, attempts) == [step |-> step, message |-> m, attempts |-> attempts]

\* lease: claimed_until is in the future; ready: available_at has passed
Absent == [saved |-> FALSE, attempts |-> 0, ready |-> TRUE, claimedBy |-> Nobody,
           lease |-> FALSE, delivered |-> FALSE, dead |-> FALSE]

Settled(m) == rows[m].delivered \/ rows[m].dead
Pending == {m \in Messages : rows[m].saved /\ ~Settled(m)}
LossesLeft == SumFunction(losses) < MaxLosses

Init ==
  /\ rows = [m \in Messages |-> Absent]
  /\ jobs = [w \in Workers |-> NoJob]
  /\ bucket = {}
  /\ losses = [m \in Messages |-> 0]

\* save_analysis: the incident's outbox row commits with the analysis; the unique
\* incident_id makes a replay of the request insert nothing.
SaveAnalysis(m) ==
  /\ \A n \in Messages : n < m => rows[n].saved
  /\ ~rows[m].saved
  /\ rows' = [rows EXCEPT ![m].saved = TRUE]
  /\ UNCHANGED <<jobs, bucket, losses>>

\* Mutant: a claimed message is left alone even when its lease has lapsed.
ClaimableOnce(m) == m \in Pending /\ rows[m].ready /\ rows[m].claimedBy = Nobody

Claimable(m) == m \in Pending /\ rows[m].ready /\ ~rows[m].lease

\* claim: the oldest claimable message, whoever held it before
Claim(w) ==
  /\ jobs[w] = NoJob
  /\ \E m \in Messages :
       /\ Claimable(m)
       /\ \A n \in Messages : Claimable(n) => m <= n
       /\ rows' = [rows EXCEPT ![m].claimedBy = w, ![m].lease = TRUE,
                               ![m].attempts = @ + 1]
       /\ jobs' = [jobs EXCEPT ![w] = Job(m, "archiving", rows[m].attempts + 1)]
  /\ UNCHANGED <<bucket, losses>>

\* archive_payload succeeds: put_object overwrites the incident's key.
Archived(w, m) ==
  /\ jobs' = [jobs EXCEPT ![w].step = "acknowledging"]
  /\ bucket' = bucket \cup {m}

\* It raises DependencyUnavailable, whether or not S3 had stored the object.
ArchiveFails(w, m) ==
  /\ jobs' = [jobs EXCEPT ![w].step = "releasing"]
  /\ bucket' \in {bucket, bucket \cup {m}}

Archive(w) ==
  /\ jobs[w].step = "archiving"
  /\ Archived(w, jobs[w].message) \/ ArchiveFails(w, jobs[w].message)
  /\ UNCHANGED <<rows, losses>>

\* Mutant: the acknowledgement does not check who holds the message.
AcknowledgeableByAnyone(w, m) == ~rows[m].delivered

Acknowledgeable(w, m) == rows[m].claimedBy = w /\ ~rows[m].delivered

\* mark_delivered; a lost lease raises and goes to release_failed
MarkDelivered(w) ==
  /\ jobs[w].step = "acknowledging"
  /\ LET m == jobs[w].message
     IN  IF Acknowledgeable(w, m)
         THEN /\ rows' = [rows EXCEPT ![m].delivered = TRUE, ![m].claimedBy = Nobody,
                                      ![m].lease = FALSE]
              /\ jobs' = [jobs EXCEPT ![w] = NoJob]
         ELSE /\ jobs' = [jobs EXCEPT ![w].step = "releasing"]
              /\ UNCHANGED rows
  /\ UNCHANGED <<bucket, losses>>

\* Mutant: the retry budget is read from one attempt too few.
ExhaustedEarly(attempts) == attempts + 1 >= MaxAttempts

\* the attempts the worker's own claim returned decide
Exhausted(attempts) == attempts >= MaxAttempts

Released(w, m) ==
  [rows EXCEPT ![m].dead = Exhausted(jobs[w].attempts),
               ![m].ready = Exhausted(jobs[w].attempts) /\ @,
               ![m].claimedBy = Nobody, ![m].lease = FALSE]

\* release_failed: back-off or dead letter, unless the message is another worker's
\* or settled; deliver_available then goes on to its next claim.
ReleaseFailed(w) ==
  /\ jobs[w].step = "releasing"
  /\ LET m == jobs[w].message
     IN  rows' = IF rows[m].claimedBy = w /\ ~Settled(m) THEN Released(w, m) ELSE rows
  /\ jobs' = [jobs EXCEPT ![w] = NoJob]
  /\ UNCHANGED <<bucket, losses>>

Holds(w, m) == jobs[w] # NoJob /\ jobs[w].message = m

\* The worker dies, or a database error ends it: its claim stays; the container
\* starts again under the same id.
Crash(w) ==
  /\ LossesLeft
  /\ jobs[w] # NoJob
  /\ losses' = [losses EXCEPT ![jobs[w].message] = @ + 1]
  /\ jobs' = [jobs EXCEPT ![w] = NoJob]
  /\ UNCHANGED <<rows, bucket>>

\* claimed_until passes while the claimant still works on the message
LeaseLapsesEarly(m) ==
  /\ LossesLeft
  /\ rows[m].lease /\ Holds(rows[m].claimedBy, m)
  /\ rows' = [rows EXCEPT ![m].lease = FALSE]
  /\ losses' = [losses EXCEPT ![m] = @ + 1]
  /\ UNCHANGED <<jobs, bucket>>

LeaseLapses(m) ==
  /\ rows[m].lease /\ ~Holds(rows[m].claimedBy, m)
  /\ rows' = [rows EXCEPT ![m].lease = FALSE]
  /\ UNCHANGED <<jobs, bucket, losses>>

BackoffElapses(m) ==
  /\ ~rows[m].ready
  /\ rows' = [rows EXCEPT ![m].ready = TRUE]
  /\ UNCHANGED <<jobs, bucket, losses>>

\* claim finds nothing: deliver_available returns, main sleeps and looks again.
Quiet ==
  /\ \A m \in Messages : ~Claimable(m)
  /\ \E w \in Workers : jobs[w] = NoJob
  /\ UNCHANGED vars

Work(w) == Claim(w) \/ Archive(w) \/ MarkDelivered(w) \/ ReleaseFailed(w)

Next ==
  \/ \E m \in Messages :
       SaveAnalysis(m) \/ LeaseLapsesEarly(m) \/ LeaseLapses(m) \/ BackoffElapses(m)
  \/ \E w \in Workers : Work(w) \/ Crash(w)
  \/ Quiet

\* The worker service runs with --watch and is restarted when it dies; time passes.
Fairness ==
  /\ \A w \in Workers : WF_vars(Work(w))
  /\ \A m \in Messages : WF_vars(LeaseLapses(m)) /\ WF_vars(BackoffElapses(m))

Spec == Init /\ [][Next]_vars /\ Fairness

-----------------------------------------------------------------------------
(* Properties.                                                             *)

\* Every row of evidence_outbox and every worker has its shape (claim).
TypeOK ==
  /\ rows \in [Messages ->
       [saved : BOOLEAN, attempts : Nat, ready : BOOLEAN,
        claimedBy : Workers \cup {Nobody}, lease : BOOLEAN, delivered : BOOLEAN, dead : BOOLEAN]]
  /\ jobs \in [Workers -> {NoJob} \cup
       [step : {"archiving", "acknowledging", "releasing"}, message : Messages,
        attempts : Nat]]
  /\ bucket \subseteq Messages
  /\ losses \in [Messages -> Nat]

\* A message is settled for a reason: marked delivered only when its object is in the
\* bucket, whichever worker put it and whichever acknowledged it, and given up only
\* when its retry budget is spent; only claims whose worker crashed or lost its lease
\* exceed the budget (deliver_available, release_failed).
SettledIsEarned ==
  \A m \in Messages :
    /\ rows[m].delivered => m \in bucket
    /\ rows[m].dead => rows[m].attempts >= MaxAttempts
    /\ rows[m].attempts <= MaxAttempts + losses[m]

\* Settled messages stay as they are: no claim, lapse or late worker reopens them,
\* and though mark_delivered does not look at dead_lettered_at, no late
\* acknowledgement makes a dead letter delivered as well (mark_delivered).
SettledIsFinal ==
  [][\A m \in Messages : Settled(m) => rows'[m] = rows[m]]_vars

\* Every saved analysis is delivered or dead-lettered in the end, whatever the
\* bucket answers, once workers stop dying and overrunning their leases.
EveryMessageSettles ==
  \A m \in Messages : rows[m].saved ~> Settled(m)
=============================================================================
