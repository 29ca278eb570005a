----------------------------- MODULE Submission -----------------------------
(***************************************************************************)
(* Submission of invoices to KSeF: the HTTP operations that create and     *)
(* retry transmissions, the job table, the worker process(es) that run the *)
(* submit and poll handlers, the KSeF session row they read, and KSeF.     *)
(*                                                                         *)
(* An HTTP request is one database transaction that holds the row locks it *)
(* needs (invoice, transmission), so it is one action.  A worker step is   *)
(* not: a batch of jobs is claimed, every job is one transaction, and the  *)
(* call to KSeF happens inside it, before the commit.  So a job is Begin,  *)
(* any number of deliveries at KSeF, and one committing action; a crash in *)
(* between rolls the database back and KSeF keeps what it received.        *)
(*                                                                         *)
(* Left out: the idempotency key (a hash of XML that carries its creation  *)
(* second, so two requests share a key only within one second, and the     *)
(* UNIQUE constraint then refuses the second one), the UPO receipt columns,*)
(* local numbering, audit rows, and the order of available_at.             *)
(*                                                                         *)
(* A definition X_... is X with a plausible bug; no specification uses it. *)
(* The properties are tested by putting it in the place of X.              *)
(***************************************************************************)
EXTENDS Naturals, FiniteSets

CONSTANTS
  Invoices, Transmissions, Jobs, Workers, Refs,   \* rows, processes, KSeF documents
  Sale,          \* invoices with direction "sale"; the others are "purchase"
  BatchSize,     \* jobs claimed at once (10)
  MaxAttempts,   \* MAX_RETRY_ATTEMPTS and _MAX_AUTO_RETRY_ATTEMPTS (5)
  Faults,        \* what the environment may do, a subset of AllFaults
  MaxSessions, MaxEdits, MaxCrashes,   \* bounds of the model
  NoInvoice, NoTransmission, NoJob, NoWorker, NoRef

AllFaults ==
  { "transient",      \* a call to KSeF fails and may be repeated
    "lost",           \* KSeF takes the document but the reply is lost
    "refused",        \* validation, mapping or a non-transient HTTP error
    "probe",          \* the connectivity probe is over its threshold
    "unauthorized",   \* KSeF answers 401/403
    "pollError",      \* the status query fails
    "oversized",      \* a rejection text longer than its column
    "session",        \* sessions are closed or time out
    "crash" }         \* the worker's transaction is rolled back

ASSUME SaleAssumption == Sale \subseteq Invoices
ASSUME BoundsAssumption ==
  /\ BatchSize \in Nat \ {0}
  /\ MaxAttempts \in Nat \ {0}
  /\ MaxSessions \in Nat
  /\ MaxEdits \in Nat
  /\ MaxCrashes \in Nat
ASSUME FaultsAssumption == Faults \subseteq AllFaults
ASSUME NullAssumption ==
  /\ NoInvoice \notin Invoices
  /\ NoTransmission \notin Transmissions
  /\ NoJob \notin Jobs
  /\ NoWorker \notin Workers
  /\ NoRef \notin Refs

VARIABLES
  invoice,    \* rows of invoices: status, edition of the content, KSeF number
  tx,         \* rows of transmissions
  job,        \* rows of background_jobs
  rowLock,    \* FOR UPDATE lock on a job row
  batch,      \* claimed jobs a worker still has in memory
  run,        \* the job a worker is in the middle of
  session,    \* the ACTIVE row of ksef_sessions
  opened,     \* sessions opened so far
  doc,        \* documents KSeF received
  crashes     \* crashes so far

vars == <<invoice, tx, job, rowLock, batch, run, session, opened, doc, crashes>>
workerVars == <<rowLock, batch, run>>
sessionVars == <<session, opened>>
dbVars == <<invoice, tx, job>>

-----------------------------------------------------------------------------
(* Rows *)

InvoiceStatuses == {"READY", "SENDING", "ACCEPTED", "REJECTED"}

\* The editability rule also lets an invoice through that is being sent.
EditableStatuses_Sending == {"READY", "REJECTED", "SENDING"}
\* ... or everything that is not being sent.
EditableStatuses_NotSending == {"READY", "REJECTED", "ACCEPTED"}
EditableStatuses == {"READY", "REJECTED"}

ActiveStatuses == {"QUEUED", "SUBMITTED", "WAITING_STATUS"}
\* A manual retry takes every failed transmission.
RetryableStatuses_AllFailed == {"FAILED_RETRYABLE", "FAILED_TEMPORARY", "FAILED_PERMANENT"}
RetryableStatuses == {"FAILED_RETRYABLE", "FAILED_TEMPORARY"}
TerminalStatuses == {"SUCCESS", "FAILED_PERMANENT"}
TransmissionStatuses == ActiveStatuses \union RetryableStatuses \union TerminalStatuses

InvoiceRow == [status: InvoiceStatuses, edition: Nat, ksef: Refs \union {NoRef}]
TransmissionRow ==
  [status: TransmissionStatuses \union {"unused"}, invoice: Invoices \union {NoInvoice},
   attempt: Nat, ksef: Refs \union {NoRef}]
JobRow ==
  [status: {"free", "pending", "done"}, kind: {"submit", "poll"},
   tx: Transmissions \union {NoTransmission}, ref: Refs \union {NoRef}]
Run ==
  [job: Jobs \union {NoJob}, session: Nat, live: BOOLEAN, edition: Nat, ref: Refs \union {NoRef}]
Verdicts == {"pending", "accepted", "rejected", "oversized"}
Document ==
  [verdict: Verdicts \union {"none"}, invoice: Invoices \union {NoInvoice},
   edition: Nat, session: Nat]

NoSession == [id |-> 0, stale |-> FALSE]
Idle == [job |-> NoJob, session |-> 0, live |-> FALSE, edition |-> 0, ref |-> NoRef]

TypeOK ==
  /\ invoice \in [Invoices -> InvoiceRow]
  /\ tx \in [Transmissions -> TransmissionRow]
  /\ job \in [Jobs -> JobRow]
  /\ rowLock \in [Jobs -> Workers \union {NoWorker}]
  /\ batch \in [Workers -> SUBSET Jobs]
  /\ run \in [Workers -> Run]
  /\ session \in [id: Nat, stale: BOOLEAN]
  /\ opened \in Nat
  /\ doc \in [Refs -> Document]
  /\ crashes \in Nat

Init ==
  /\ invoice = [i \in Invoices |-> [status |-> "READY", edition |-> 0, ksef |-> NoRef]]
  /\ tx = [t \in Transmissions |->
             [status |-> "unused", invoice |-> NoInvoice, attempt |-> 0, ksef |-> NoRef]]
  /\ job = [j \in Jobs |->
             [status |-> "free", kind |-> "submit", tx |-> NoTransmission, ref |-> NoRef]]
  /\ rowLock = [j \in Jobs |-> NoWorker]
  /\ batch = [w \in Workers |-> {}]
  /\ run = [w \in Workers |-> Idle]
  /\ session = NoSession
  /\ opened = 0
  /\ doc = [r \in Refs |->
             [verdict |-> "none", invoice |-> NoInvoice, edition |-> 0, session |-> 0]]
  /\ crashes = 0

-----------------------------------------------------------------------------
(* Helpers *)

Busy(w) == run[w].job # NoJob
Connected == session.id # 0 /\ ~session.stale

ActiveOf(i) == {t \in Transmissions : tx[t].invoice = i /\ tx[t].status \in ActiveStatuses}

\* The FOR UPDATE lock on a transmission row is held while its job runs.
TxLocked(t) == \E w \in Workers : Busy(w) /\ job[run[w].job].tx = t

\* A row of the job table that is still referenced from a worker's memory
\* cannot stand for a new job.
Remembered(j, w) == j \in batch[w] \/ run[w].job = j
FreshRow(j) == job[j].status # "pending" /\ \A w \in Workers : ~Remembered(j, w)

PendingJob(kind, t, r) == [status |-> "pending", kind |-> kind, tx |-> t, ref |-> r]

-----------------------------------------------------------------------------
(* HTTP operations *)

\* POST /invoices: every invoice of the model exists from the start.
\* PUT /invoices/{id}
UpdateInvoice(i) ==
  /\ invoice[i].status \in EditableStatuses
  /\ invoice[i].edition < MaxEdits
  /\ invoice' = [invoice EXCEPT ![i].edition = @ + 1]
  /\ UNCHANGED <<tx, job, workerVars, sessionVars, doc, crashes>>

\* The status of the invoice is not looked at.
CanBeSubmitted_AnyStatus(i) == i \in Invoices
CanBeSubmitted(i) ==
  \/ invoice[i].status = "READY"
  \/ invoice[i].status = "REJECTED" /\ i \in Sale

\* POST /transmissions/submit/{invoice_id}
SubmitInvoice(i, t, j) ==
  /\ CanBeSubmitted(i)
  /\ ActiveOf(i) = {}
  /\ Connected
  /\ tx[t].status = "unused"
  /\ FreshRow(j)
  /\ tx' = [tx EXCEPT ![t] =
              [status |-> "QUEUED", invoice |-> i, attempt |-> 1, ksef |-> NoRef]]
  /\ invoice' = [invoice EXCEPT ![i].status = "SENDING"]
  /\ job' = [job EXCEPT ![j] = PendingJob("submit", t, NoRef)]
  /\ UNCHANGED <<workerVars, sessionVars, doc, crashes>>

\* A sale invoice goes through the checks of a submission again.
CanBeRetried(t) ==
  /\ ~TxLocked(t)
  /\ tx[t].status \in RetryableStatuses
  /\ tx[t].attempt < MaxAttempts
  /\ tx[t].invoice \in Sale => CanBeSubmitted(tx[t].invoice) /\ Connected
  /\ ActiveOf(tx[t].invoice) = {}

\* POST /transmissions/{id}/retry; the invoice itself is not marked SENDING.
RetryTransmission(t, j) ==
  /\ CanBeRetried(t)
  /\ FreshRow(j)
  /\ tx' = [tx EXCEPT ![t].attempt = @ + 1, ![t].status = "QUEUED"]
  /\ job' = [job EXCEPT ![j] = PendingJob("submit", t, NoRef)]
  /\ UNCHANGED <<invoice, workerVars, sessionVars, doc, crashes>>

-----------------------------------------------------------------------------
(* KSeF session of the seller: every invoice of the model has the same      *)
(* seller NIP, and at most one row is ACTIVE.                               *)

\* POST /ksef-sessions
OpenSession ==
  /\ session.id = 0
  /\ opened < MaxSessions
  /\ opened' = opened + 1
  /\ session' = [id |-> opened + 1, stale |-> FALSE]
  /\ UNCHANGED <<dbVars, workerVars, doc, crashes>>

\* DELETE /ksef-sessions: refused (and rolled back) once expires_at has passed.
CloseSession ==
  /\ "session" \in Faults
  /\ Connected
  /\ session' = NoSession
  /\ UNCHANGED <<dbVars, workerVars, opened, doc, crashes>>

\* expires_at passes; the row stays ACTIVE until somebody looks at it.
SessionTimesOut ==
  /\ "session" \in Faults
  /\ Connected
  /\ session' = [session EXCEPT !.stale = TRUE]
  /\ UNCHANGED <<dbVars, workerVars, opened, doc, crashes>>

\* GET /ksef/status commits the EXPIRED mark of a stale row.
CheckConnection ==
  /\ session.stale
  /\ session' = NoSession
  /\ UNCHANGED <<dbVars, workerVars, opened, doc, crashes>>

-----------------------------------------------------------------------------
(* KSeF decides about a document it received.                               *)

KSeFDecides(r, verdict) ==
  /\ doc[r].verdict = "pending"
  /\ verdict = "oversized" => "oversized" \in Faults
  /\ doc' = [doc EXCEPT ![r].verdict = verdict]
  /\ UNCHANGED <<dbVars, workerVars, sessionVars, crashes>>

-----------------------------------------------------------------------------
(* Worker: the batch                                                        *)

Claimable == {j \in Jobs : job[j].status = "pending" /\ rowLock[j] = NoWorker}

IsBatch(B) ==
  /\ B \subseteq Claimable
  /\ B # {}
  /\ \/ B = Claimable /\ Cardinality(B) <= BatchSize
     \/ Cardinality(B) = BatchSize

\* SELECT ... WHERE status = 'pending' LIMIT 10 FOR UPDATE SKIP LOCKED
Claim(w) ==
  /\ ~Busy(w)
  /\ batch[w] = {}
  /\ \E B \in SUBSET Claimable :
       /\ IsBatch(B)
       /\ batch' = [batch EXCEPT ![w] = B]
       /\ rowLock' = [j \in Jobs |-> IF j \in B THEN w ELSE rowLock[j]]
  /\ UNCHANGED <<dbVars, run, sessionVars, doc, crashes>>

\* Start of one job: its row is updated (which waits for another worker's
\* lock, but does not look at the status again), the transmission row is
\* locked, the invoice and the session are read.
Begin(w, j) ==
  /\ ~Busy(w)
  /\ j \in batch[w]
  /\ rowLock[j] \in {w, NoWorker}
  /\ ~TxLocked(job[j].tx)
  /\ rowLock' = [rowLock EXCEPT ![j] = w]
  /\ batch' = [batch EXCEPT ![w] = @ \ {j}]
  /\ run' = [run EXCEPT ![w] =
               [job |-> j, session |-> session.id, live |-> Connected,
                edition |-> invoice[tx[job[j].tx].invoice].edition, ref |-> NoRef]]
  /\ UNCHANGED <<dbVars, sessionVars, doc, crashes>>

\* Commit of a job: its row is done and every row lock of the worker is gone,
\* the locks on the rest of the batch included.
Committed(w) ==
  /\ rowLock' = [j \in Jobs |-> IF rowLock[j] = w THEN NoWorker ELSE rowLock[j]]
  /\ run' = [run EXCEPT ![w] = Idle]
  /\ UNCHANGED batch

\* The finished job is left pending.
Done_Forgotten(w) == IF Busy(w) THEN job ELSE [j \in Jobs |-> job[j]]
Done(w) == [job EXCEPT ![run[w].job].status = "done"]

\* The row a handler may use for the job it enqueues: the model reuses the
\* row of the job it just finished, or a row nobody remembers.
NextRow(w, k) ==
  \/ k = run[w].job /\ \A v \in Workers : v # w => ~Remembered(k, v)
  \/ FreshRow(k)
JobDoneAndNext(w, k, next) ==
  /\ NextRow(w, k)
  /\ job' = [Done(w) EXCEPT ![k] = next]
JobDone(w) == job' = Done(w)

\* Rollback: process death, or a database error that ends _process_batch.

\* The batch was taken off the table when it was claimed, and only the job in
\* progress is put back.
RolledBack_BatchLost(w) ==
  /\ rowLock' = [j \in Jobs |-> IF rowLock[j] = w THEN NoWorker ELSE rowLock[j]]
  /\ run' = [run EXCEPT ![w] = Idle]
  /\ batch' = [batch EXCEPT ![w] = {}]
  /\ job' = [j \in Jobs |-> IF j \in batch[w] THEN [job[j] EXCEPT !.status = "done"] ELSE job[j]]
  /\ UNCHANGED <<invoice, tx>>
\* The job was marked done before the handler ran.
RolledBack_JobDone(w) ==
  /\ rowLock' = [j \in Jobs |-> IF rowLock[j] = w THEN NoWorker ELSE rowLock[j]]
  /\ run' = [run EXCEPT ![w] = Idle]
  /\ batch' = [batch EXCEPT ![w] = {}]
  /\ IF Busy(w) THEN JobDone(w) ELSE UNCHANGED job
  /\ UNCHANGED <<invoice, tx>>
RolledBack(w) ==
  /\ rowLock' = [j \in Jobs |-> IF rowLock[j] = w THEN NoWorker ELSE rowLock[j]]
  /\ run' = [run EXCEPT ![w] = Idle]
  /\ batch' = [batch EXCEPT ![w] = {}]
  /\ UNCHANGED dbVars

Crash(w) ==
  /\ "crash" \in Faults
  /\ crashes < MaxCrashes
  /\ Busy(w) \/ batch[w] # {}
  /\ crashes' = crashes + 1
  /\ RolledBack(w)
  /\ UNCHANGED <<sessionVars, doc>>

-----------------------------------------------------------------------------
(* Worker: the submit handler                                               *)

RunningTx(w) == job[run[w].job].tx
RunningInvoice(w) == tx[RunningTx(w)].invoice
Submitting(w) == Busy(w) /\ job[run[w].job].kind = "submit"
Delivered(w) == run[w].ref # NoRef

\* The session a worker read is still usable at KSeF.
SessionOpenAtKSeF(w) == run[w].live /\ Connected /\ session.id = run[w].session

\* A POST reaches KSeF.  The client repeats the POST when no reply arrives.
Deliver(w, r) ==
  /\ Submitting(w)
  /\ SessionOpenAtKSeF(w)
  /\ Delivered(w) => "lost" \in Faults
  /\ doc[r].verdict = "none"
  /\ doc' = [doc EXCEPT ![r] =
               [verdict |-> "pending", invoice |-> RunningInvoice(w),
                edition |-> run[w].edition, session |-> run[w].session]]
  /\ run' = [run EXCEPT ![w].ref = r]
  /\ UNCHANGED <<dbVars, rowLock, batch, sessionVars, crashes>>

\* The reply arrived: SUBMITTED, and a poll job for the reference.
MarkSubmitted(w, k) ==
  /\ Submitting(w)
  /\ Delivered(w)
  /\ tx' = [tx EXCEPT ![RunningTx(w)].status = "SUBMITTED"]
  /\ JobDoneAndNext(w, k, PendingJob("poll", RunningTx(w), run[w].ref))
  /\ Committed(w)
  /\ UNCHANGED <<invoice, sessionVars, doc, crashes>>

\* A transient failure: nothing was delivered, or the reply never came.
TransientFailure(w) ==
  \/ "transient" \in Faults /\ run[w].live /\ ~Delivered(w)
  \/ "lost" \in Faults /\ Delivered(w)

\* The attempt is not counted.
MarkTemporaryFailureAndRetry_NotCounted(w, k) ==
  /\ Submitting(w)
  /\ TransientFailure(w)
  /\ tx[RunningTx(w)].attempt < MaxAttempts
  /\ tx' = [tx EXCEPT ![RunningTx(w)].status = "FAILED_TEMPORARY"]
  /\ JobDoneAndNext(w, k, PendingJob("submit", RunningTx(w), NoRef))
  /\ Committed(w)
  /\ UNCHANGED <<invoice, sessionVars, doc, crashes>>
MarkTemporaryFailureAndRetry(w, k) ==
  /\ Submitting(w)
  /\ TransientFailure(w)
  /\ tx[RunningTx(w)].attempt < MaxAttempts
  /\ tx' = [tx EXCEPT ![RunningTx(w)].attempt = @ + 1,
                      ![RunningTx(w)].status = "FAILED_TEMPORARY"]
  /\ JobDoneAndNext(w, k, PendingJob("submit", RunningTx(w), NoRef))
  /\ Committed(w)
  /\ UNCHANGED <<invoice, sessionVars, doc, crashes>>

\* The invoice follows a terminal transmission only out of SENDING; a second
\* SUCCESS only replaces the KSeF number.
\* Only a success is carried over.
Synced_SuccessOnly(row, status, ref) ==
  IF row.status = "SENDING" /\ status = "SUCCESS"
    THEN [row EXCEPT !.status = "ACCEPTED", !.ksef = ref] ELSE row
\* The invoice follows out of every status.
Synced_AnyStatus(row, status, ref) ==
  IF status = "SUCCESS" THEN [row EXCEPT !.status = "ACCEPTED", !.ksef = ref]
                        ELSE [row EXCEPT !.status = "REJECTED"]
Synced(row, status, ref) ==
  IF row.status = "SENDING" /\ status = "FAILED_PERMANENT"
    THEN [row EXCEPT !.status = "REJECTED"]
  ELSE IF row.status \in {"SENDING", "ACCEPTED"} /\ status = "SUCCESS"
    THEN [row EXCEPT !.status = "ACCEPTED", !.ksef = ref]
  ELSE row
SyncInvoice(i, status, ref) == invoice' = [invoice EXCEPT ![i] = Synced(@, status, ref)]

MarkPermanentFailure(w) ==
  /\ Submitting(w)
  /\ \/ "refused" \in Faults /\ (Delivered(w) => "lost" \in Faults)
     \/ TransientFailure(w) /\ tx[RunningTx(w)].attempt >= MaxAttempts
  /\ tx' = [tx EXCEPT ![RunningTx(w)].status = "FAILED_PERMANENT"]
  /\ SyncInvoice(RunningInvoice(w), "FAILED_PERMANENT", NoRef)
  /\ JobDone(w)
  /\ Committed(w)
  /\ UNCHANGED <<sessionVars, doc, crashes>>

\* FAILED_RETRYABLE.  _return_invoice_to_ready_for_submission changes only the
\* domain copy of the invoice; nothing writes it back.
MarkRetryableFailure(w) ==
  /\ tx' = [tx EXCEPT ![RunningTx(w)].status = "FAILED_RETRYABLE"]
  /\ JobDone(w)
  /\ Committed(w)
  /\ UNCHANGED <<invoice, opened, doc, crashes>>

\* A stale row that the worker looked at is committed as EXPIRED.
ExpireSeenSession(w) ==
  session' = IF ~run[w].live /\ session.id = run[w].session THEN NoSession ELSE session

HandleMissingSession(w) ==
  /\ Submitting(w)
  /\ ~run[w].live
  /\ ExpireSeenSession(w)
  /\ MarkRetryableFailure(w)

HandleNotConnected(w) ==
  /\ Submitting(w)
  /\ "probe" \in Faults
  /\ ~Delivered(w)
  /\ UNCHANGED session
  /\ MarkRetryableFailure(w)

\* 401/403: whichever session is ACTIVE by now is marked EXPIRED.
HandleSessionExpired(w) ==
  /\ Submitting(w)
  /\ run[w].live
  /\ "unauthorized" \in Faults \/ ~SessionOpenAtKSeF(w)
  /\ Delivered(w) => "lost" \in Faults
  /\ session' = NoSession
  /\ MarkRetryableFailure(w)

-----------------------------------------------------------------------------
(* Worker: the poll handler                                                 *)

Polling(w) == Busy(w) /\ job[run[w].job].kind = "poll"

\* No entry in the list of failures is taken for an acceptance.
PolledDoc_Trusting(w) ==
  [doc[job[run[w].job].ref] EXCEPT !.verdict = IF @ = "pending" THEN "accepted" ELSE @]
\* No number yet is taken for a rejection.
PolledDoc_Impatient(w) ==
  [doc[job[run[w].job].ref] EXCEPT !.verdict = IF @ = "pending" THEN "rejected" ELSE @]
PolledDoc(w) == doc[job[run[w].job].ref]
PollOpen(w) == Polling(w) /\ tx[RunningTx(w)].status \notin TerminalStatuses

\* The status is asked in the session that is ACTIVE now; KSeF knows the
\* document only in the session it was sent in.
Answered(w) == run[w].live /\ run[w].session = PolledDoc(w).session

PollSkipsTerminal(w) ==
  /\ Polling(w)
  /\ tx[RunningTx(w)].status \in TerminalStatuses
  /\ SyncInvoice(RunningInvoice(w), tx[RunningTx(w)].status, tx[RunningTx(w)].ksef)
  /\ JobDone(w)
  /\ Committed(w)
  /\ UNCHANGED <<tx, sessionVars, doc, crashes>>

PollWaits(w, k) ==
  /\ PollOpen(w)
  /\ ~Answered(w) \/ PolledDoc(w).verdict = "pending" \/ "pollError" \in Faults
  /\ tx' = [tx EXCEPT ![RunningTx(w)].status = "WAITING_STATUS"]
  /\ JobDoneAndNext(w, k, PendingJob("poll", RunningTx(w), job[run[w].job].ref))
  /\ ExpireSeenSession(w)
  /\ Committed(w)
  /\ UNCHANGED <<invoice, opened, doc, crashes>>

PollAccepted(w) ==
  /\ PollOpen(w)
  /\ Answered(w)
  /\ PolledDoc(w).verdict = "accepted"
  /\ tx' = [tx EXCEPT ![RunningTx(w)].status = "SUCCESS",
                      ![RunningTx(w)].ksef = job[run[w].job].ref]
  /\ SyncInvoice(RunningInvoice(w), "SUCCESS", job[run[w].job].ref)
  /\ JobDone(w)
  /\ Committed(w)
  /\ UNCHANGED <<sessionVars, doc, crashes>>

PollRejected(w) ==
  /\ PollOpen(w)
  /\ Answered(w)
  /\ PolledDoc(w).verdict = "rejected"
  /\ tx' = [tx EXCEPT ![RunningTx(w)].status = "FAILED_PERMANENT"]
  /\ SyncInvoice(RunningInvoice(w), "FAILED_PERMANENT", NoRef)
  /\ JobDone(w)
  /\ Committed(w)
  /\ UNCHANGED <<sessionVars, doc, crashes>>

\* The rejection text does not fit error_message: the flush fails, the
\* exception leaves _process_batch and the whole transaction is rolled back.
PollAborts(w) ==
  /\ PollOpen(w)
  /\ Answered(w)
  /\ PolledDoc(w).verdict = "oversized"
  /\ RolledBack(w)
  /\ UNCHANGED <<sessionVars, doc, crashes>>

-----------------------------------------------------------------------------
(* Specification *)

HttpStep ==
  \/ \E i \in Invoices : UpdateInvoice(i)
  \/ \E i \in Invoices, t \in Transmissions, j \in Jobs : SubmitInvoice(i, t, j)
  \/ \E t \in Transmissions, j \in Jobs : RetryTransmission(t, j)
  \/ OpenSession \/ CloseSession \/ CheckConnection

SubmitHandler(w) ==
  \/ \E r \in Refs : Deliver(w, r)
  \/ \E k \in Jobs : MarkSubmitted(w, k)
  \/ \E k \in Jobs : MarkTemporaryFailureAndRetry(w, k)
  \/ MarkPermanentFailure(w)
  \/ HandleMissingSession(w)
  \/ HandleNotConnected(w)
  \/ HandleSessionExpired(w)

PollHandler(w) ==
  \/ PollSkipsTerminal(w)
  \/ \E k \in Jobs : PollWaits(w, k)
  \/ PollAccepted(w)
  \/ PollRejected(w)
  \/ PollAborts(w)

WorkerStep(w) ==
  \/ Claim(w)
  \/ \E j \in Jobs : Begin(w, j)
  \/ SubmitHandler(w)
  \/ PollHandler(w)

KSeFStep == \E r \in Refs, verdict \in Verdicts \ {"pending"} : KSeFDecides(r, verdict)

Next ==
  \/ HttpStep
  \/ SessionTimesOut
  \/ KSeFStep
  \/ \E w \in Workers : WorkerStep(w) \/ Crash(w)

Spec == Init /\ [][Next]_vars

-----------------------------------------------------------------------------
(* Fairness: the worker loop runs for ever (restart: always, an exception   *)
(* only ends the batch), KSeF decides about every document it took, and a   *)
(* status query that can be answered is not lost for ever.                  *)

Fairness ==
  /\ \A w \in Workers :
       WF_vars(WorkerStep(w)) /\ SF_vars(PollAccepted(w)) /\ SF_vars(PollRejected(w))
  /\ WF_vars(KSeFStep)

FairSpec == Spec /\ Fairness

-----------------------------------------------------------------------------
(* Properties that hold for any number of workers and any direction         *)

InFlightStatuses == ActiveStatuses \union {"FAILED_TEMPORARY"}
InFlight(t) == tx[t].status \in InFlightStatuses
Undecided(t) == tx[t].status \in ActiveStatuses \union RetryableStatuses

JobsOf(t) == {j \in Jobs : job[j].status = "pending" /\ job[j].tx = t}
TransmissionsOf(i) == {t \in Transmissions : tx[t].invoice = i}
DocumentsOf(i) == {r \in Refs : doc[r].invoice = i}

\* No transmission is forgotten: while it is queued, submitted, waiting for a
\* status or waiting for its automatic retry, a committed pending job will
\* come back to it, whatever worker crashed in the middle of a job.
InFlightHasJob == \A t \in Transmissions : InFlight(t) => JobsOf(t) # {}

\* An invoice shown as SENDING has a transmission that is still undecided; it
\* is never left in SENDING by transmissions that all ended.
SendingIsOwned ==
  \A i \in Invoices :
    invoice[i].status = "SENDING" => \E t \in TransmissionsOf(i) : Undecided(t)

\* An invoice shown as ACCEPTED carries the number of a document of this very
\* invoice that KSeF accepted.
NumberIsReal ==
  \A i \in Invoices : invoice[i].status = "ACCEPTED" =>
    \E r \in DocumentsOf(i) : invoice[i].ksef = r /\ doc[r].verdict = "accepted"

\* The pipeline implements the promise of InvoiceDelivery.
AcceptedDocuments ==
  {<<doc[r].invoice, doc[r].edition>> : r \in {x \in Refs : doc[x].verdict = "accepted"}}
Delivery == INSTANCE InvoiceDelivery
              WITH Resubmittable <- Sale,
                   status <- [i \in Invoices |-> invoice[i].status],
                   edition <- [i \in Invoices |-> invoice[i].edition],
                   accepted <- AcceptedDocuments
DeliverySpec == Delivery!Spec

-----------------------------------------------------------------------------
(* Inductive invariant of the properties above.  Rows and documents stay    *)
(* linked: a job to its transmission, a transmission to its invoice, a      *)
(* reference to a document of that invoice.                                 *)

IsDocumentOf(r, i) == r \in Refs /\ doc[r].verdict # "none" /\ doc[r].invoice = i

\* A row of transmissions that is in use belongs to an invoice that was
\* handed over.
TransmissionsAreLinked ==
  \A t \in Transmissions : tx[t].status # "unused" =>
    tx[t].invoice \in Invoices /\ invoice[tx[t].invoice].status # "READY"

\* A row of background_jobs that is in use belongs to a transmission.
JobsAreLinked ==
  \A j \in Jobs : job[j].status # "free" =>
    job[j].tx \in Transmissions /\ tx[job[j].tx].status # "unused"

\* A worker remembers only jobs that were enqueued.
MemoryIsLinked ==
  \A w \in Workers, j \in Jobs : Remembered(j, w) => job[j].status # "free"

RowsAreLinked ==
  TypeOK /\ TransmissionsAreLinked /\ JobsAreLinked /\ MemoryIsLinked

\* What KSeF received was handed over, with a content the invoice had.
DocumentsAreLinked ==
  \A r \in Refs : doc[r].verdict # "none" =>
    /\ doc[r].invoice \in Invoices
    /\ invoice[doc[r].invoice].status # "READY"
    /\ doc[r].edition <= invoice[doc[r].invoice].edition

\* A job in progress sends a content the invoice had, and the reference it
\* got back is of a document of its own invoice.
RunsAreLinked ==
  \A w \in Workers : Busy(w) =>
    /\ run[w].edition <= invoice[RunningInvoice(w)].edition
    /\ Delivered(w) => IsDocumentOf(run[w].ref, RunningInvoice(w))

\* A poll job asks about a document of the invoice of its transmission.
PollsAreLinked ==
  \A j \in Jobs : job[j].status # "free" /\ job[j].kind = "poll" =>
    IsDocumentOf(job[j].ref, tx[job[j].tx].invoice)

\* The number of a successful transmission is of an accepted document.
SuccessIsReal ==
  \A t \in Transmissions : tx[t].status = "SUCCESS" =>
    IsDocumentOf(tx[t].ksef, tx[t].invoice) /\ doc[tx[t].ksef].verdict = "accepted"

LinksAreReal ==
  DocumentsAreLinked /\ RunsAreLinked /\ PollsAreLinked /\ SuccessIsReal /\ NumberIsReal

\* No row, job or document is attributed to something it does not belong to,
\* no transmission is forgotten, no invoice is left in SENDING.
IInv == RowsAreLinked /\ LinksAreReal /\ InFlightHasJob /\ SendingIsOwned

-----------------------------------------------------------------------------
(* Properties of the deployment: one worker process, sale invoices          *)

\* A transmission is worked on by one job, and by none once it is decided or
\* waits for a manual retry: nothing is sent or polled twice at the same time.
OneJobPerTransmission ==
  \A t \in Transmissions :
    /\ Cardinality(JobsOf(t)) <= 1
    /\ ~InFlight(t) => JobsOf(t) = {}

\* At most one transmission of an invoice is on its way; with two of them
\* get_active_for_invoice (scalar_one_or_none) fails on every later request.
AtMostOneInFlight ==
  \A i \in Invoices : Cardinality({t \in TransmissionsOf(i) : InFlight(t)}) <= 1

\* What was decided is what the invoice shows.  A successful transmission shows
\* under the same number, and the document KSeF accepted has the content the
\* invoice has now; an invoice whose transmissions have all failed for good is
\* REJECTED, so it can be corrected and sent again.
SuccessIsShown(t) ==
  LET i == tx[t].invoice IN
  /\ invoice[i].status = "ACCEPTED"
  /\ invoice[i].ksef = tx[t].ksef
  /\ doc[tx[t].ksef].edition = invoice[i].edition
DecisionIsShown ==
  /\ \A t \in Transmissions : tx[t].status = "SUCCESS" => SuccessIsShown(t)
  /\ \A i \in Invoices :
       /\ TransmissionsOf(i) # {}
       /\ \A t \in TransmissionsOf(i) : tx[t].status = "FAILED_PERMANENT"
       => invoice[i].status = "REJECTED"

\* A decided transmission stays decided: no late job revives it.
TerminalIsFinal ==
  [][\A t \in Transmissions :
       tx[t].status \in TerminalStatuses => tx'[t].status = tx[t].status]_vars

\* The row of an ACCEPTED invoice never changes again, its KSeF number included.
AcceptedIsFinal ==
  [][\A i \in Invoices :
       invoice[i].status = "ACCEPTED" => invoice'[i] = invoice[i]]_vars

\* A reply was lost or a crash came before the commit: the reference of the
\* document is stored nowhere, in no job, whatever its status, in no
\* transmission and in no worker's memory.
IsDoubtful(r) ==
  /\ \A j \in Jobs : job[j].ref # r
  /\ \A t \in Transmissions : tx[t].ksef # r
  /\ \A w \in Workers : run[w].ref # r

\* KSeF holds no undecided and no accepted document of a REJECTED invoice, so
\* sending it again cannot book it twice, but for a document whose reply was
\* lost.
RejectedIsNotAtKSeF ==
  \A i \in Invoices : invoice[i].status = "REJECTED" =>
    \A r \in DocumentsOf(i) : IsDoubtful(r) \/ doc[r].verdict = "rejected"

\* KSeF accepts an invoice at most once, the documents aside whose reply was
\* lost.
AcceptedOnce ==
  \A i \in Invoices :
    Cardinality({r \in DocumentsOf(i) : doc[r].verdict = "accepted" /\ ~IsDoubtful(r)}) <= 1

-----------------------------------------------------------------------------
(* Inductive invariant of the deployment, on top of IInv                    *)

Deployment == (\A v, w \in Workers : v = w) /\ Sale = Invoices

\* What the worker remembers is still to be done.  With two workers it is not:
\* a commit of one releases the locks of its whole batch.
MemoryIsPending ==
  \A w \in Workers :
    /\ \A j \in Jobs : Remembered(j, w) => job[j].status = "pending"
    /\ Busy(w) => run[w].job \notin batch[w]

\* A transmission has one pending job, and only while it is in flight.
PendingIsInFlight ==
  \A j \in Jobs : job[j].status = "pending" =>
    /\ InFlight(job[j].tx)
    /\ \A k \in Jobs : job[k].status = "pending" /\ job[k].tx = job[j].tx => k = j

\* An undecided transmission holds its invoice in SENDING, and holds it alone.
\* So a sale invoice passes the checks of a manual retry only when there is
\* nothing to retry.
UndecidedHoldsInvoice ==
  \A t \in Transmissions : Undecided(t) =>
    /\ invoice[tx[t].invoice].status = "SENDING"
    /\ \A s \in TransmissionsOf(tx[t].invoice) : Undecided(s) => s = t

\* The number of a transmission comes with its success, and is the number of
\* its invoice.
SuccessIsAcceptance ==
  /\ \A t \in Transmissions : tx[t].ksef # NoRef => tx[t].status = "SUCCESS"
  /\ \A t \in Transmissions : tx[t].status = "SUCCESS" =>
       /\ invoice[tx[t].invoice].status = "ACCEPTED"
       /\ invoice[tx[t].invoice].ksef = tx[t].ksef
  /\ \A i \in Invoices : invoice[i].status = "ACCEPTED" =>
       \E t \in TransmissionsOf(i) : tx[t].status = "SUCCESS"

\* What is being sent, asked about or was accepted is the content the invoice
\* has now.
ContentIsCurrent ==
  /\ \A w \in Workers : Busy(w) =>
       /\ run[w].edition = invoice[RunningInvoice(w)].edition
       /\ Delivered(w) => doc[run[w].ref].edition = invoice[RunningInvoice(w)].edition
  /\ \A j \in Jobs : job[j].status = "pending" /\ job[j].kind = "poll" =>
       doc[job[j].ref].edition = invoice[tx[job[j].tx].invoice].edition
  /\ \A t \in Transmissions : tx[t].status = "SUCCESS" =>
       doc[tx[t].ksef].edition = invoice[tx[t].invoice].edition

\* A reference is in a poll job, or in the memory of a submit job.
RefsAreOfPolls ==
  /\ \A j \in Jobs : job[j].kind = "submit" => job[j].ref = NoRef
  /\ \A w \in Workers : Delivered(w) => Submitting(w)

\* A document a job was ever told of is rejected, accepted on record, or still
\* asked about.
KnownIsSettled ==
  \A j \in Jobs : job[j].ref # NoRef =>
    \/ doc[job[j].ref].verdict = "rejected"
    \/ \E t \in Transmissions : tx[t].ksef = job[j].ref
    \/ \E k \in Jobs :
         job[k].status = "pending" /\ job[k].kind = "poll" /\ job[k].ref = job[j].ref

DeploymentIInv ==
  /\ MemoryIsPending
  /\ PendingIsInFlight
  /\ UndecidedHoldsInvoice
  /\ SuccessIsAcceptance
  /\ ContentIsCurrent
  /\ RefsAreOfPolls
  /\ KnownIsSettled

-----------------------------------------------------------------------------
(* Liveness *)

\* A queued transmission is taken up by the worker and leaves QUEUED, although
\* jobs of another transmission are in the same batch or are polled again and
\* again, and although the worker may die with a batch claimed.  While a job
\* fails its flush each time this is not so: see RejectionIsRecorded.
QueuedIsAttempted ==
  \A t \in Transmissions : tx[t].status = "QUEUED" ~> tx[t].status # "QUEUED"

\* While the session stays open, every invoice handed over is decided.
SendingIsDecided ==
  \A i \in Invoices : invoice[i].status = "SENDING" ~> invoice[i].status # "SENDING"

-----------------------------------------------------------------------------
(* What the repository says and the code does not do                        *)

\* submit_invoice.py:54-56 logs "Invoice returned to READY_FOR_SUBMISSION due
\* to KSeF unavailability" with every FAILED_RETRYABLE.
RetryableReturnsInvoice ==
  \A t \in Transmissions :
    /\ tx[t].status = "FAILED_RETRYABLE"
    /\ \A s \in TransmissionsOf(tx[t].invoice) : s # t => tx[s].status \in TerminalStatuses
    => invoice[tx[t].invoice].status = "READY"

\* test_ksef_workflow_e2e.py:200: a rejected document ends in FAILED_PERMANENT
\* and REJECTED.  One whose text fits error_message does not either, when the
\* job of one whose text does not fit is ahead of it in every batch.
RejectionIsRecorded ==
  \A r \in Refs : \A i \in Invoices :
    doc[r].invoice = i /\ doc[r].verdict = "rejected" ~> invoice[i].status # "SENDING"
=============================================================================
