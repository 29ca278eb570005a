------------------------- MODULE Submission_proofs -------------------------
(***************************************************************************)
(* Proofs about Submission, for any number of invoices, transmissions,     *)
(* jobs and documents and any set of faults: first those that hold for any *)
(* number of worker processes, then those of the deployment, which has one *)
(* and sends sale invoices.                                                *)
(***************************************************************************)
EXTENDS Submission, FiniteSetTheorems, TLAPS

-----------------------------------------------------------------------------
(* Rows *)

\* What the sync of an invoice writes is an invoice row.
LEMMA SyncedIsRow ==
  ASSUME NEW row \in InvoiceRow, NEW status, NEW ref \in Refs \union {NoRef}
  PROVE  /\ Synced(row, status, ref) \in InvoiceRow
         /\ Synced(row, status, ref).edition = row.edition
         /\ Synced(row, status, ref).status = "READY" <=> row.status = "READY"
BY DEF Synced, InvoiceRow, InvoiceStatuses

\* The initial rows are linked: there are none.
LEMMA RowsInit == Init => RowsAreLinked
<1> SUFFICES ASSUME Init PROVE RowsAreLinked
  OBVIOUS
<1>1. TypeOK
  BY DEF Init, TypeOK, InvoiceRow, InvoiceStatuses, TransmissionRow, JobRow, Run, Idle,
         NoSession, Document
<1>2. TransmissionsAreLinked /\ JobsAreLinked
  BY DEF Init, TransmissionsAreLinked, JobsAreLinked
<1>3. MemoryIsLinked
  BY NullAssumption DEF Init, MemoryIsLinked, Remembered, Idle
<1> QED
  BY <1>1, <1>2, <1>3 DEF RowsAreLinked

\* A worker in the middle of a job has the rows of that job.
LEMMA RunningRows ==
  ASSUME RowsAreLinked, NEW w \in Workers, Busy(w)
  PROVE  /\ run[w].job \in Jobs
         /\ job[run[w].job].status # "free"
         /\ RunningTx(w) \in Transmissions
         /\ tx[RunningTx(w)].status # "unused"
         /\ RunningInvoice(w) \in Invoices
         /\ invoice[RunningInvoice(w)].status # "READY"
<1>1. run[w].job \in Jobs
  BY DEF RowsAreLinked, TypeOK, Run, Busy
<1>2. job[run[w].job].status # "free"
  BY <1>1 DEF RowsAreLinked, MemoryIsLinked, Remembered
<1>3. RunningTx(w) \in Transmissions /\ tx[RunningTx(w)].status # "unused"
  BY <1>1, <1>2 DEF RowsAreLinked, JobsAreLinked, RunningTx
<1> QED
  BY <1>1, <1>2, <1>3 DEF RowsAreLinked, TransmissionsAreLinked, RunningInvoice

\* What a step may do to the rows of transmissions and invoices without
\* breaking a link: no row changes its invoice, is freed or taken, and no
\* invoice enters or leaves READY.
KeepsLinks ==
  /\ tx' \in [Transmissions -> TransmissionRow]
  /\ invoice' \in [Invoices -> InvoiceRow]
  /\ \A t \in Transmissions :
       /\ tx'[t].invoice = tx[t].invoice
       /\ tx'[t].status = "unused" <=> tx[t].status = "unused"
  /\ \A i \in Invoices : invoice'[i].status = "READY" <=> invoice[i].status = "READY"

\* How a handler leaves the job table: its own job is done, and at most one
\* new job of the same transmission is pending.
LeavesJob(w) ==
  \/ JobDone(w)
  \/ \E k \in Jobs, kind \in {"submit", "poll"}, ref \in Refs \union {NoRef} :
       JobDoneAndNext(w, k, PendingJob(kind, RunningTx(w), ref))

\* The rows of job stay rows when a handler commits.
LEMMA LeavesJobType ==
  ASSUME RowsAreLinked, NEW w \in Workers, Busy(w), LeavesJob(w)
  PROVE  /\ job' \in [Jobs -> JobRow]
         /\ \A j \in Jobs : job[j].status # "free" => job'[j].status # "free"
         /\ \A j \in Jobs : job'[j].status # "free" =>
              \/ job'[j].tx = RunningTx(w)
              \/ job[j].status # "free" /\ job'[j].tx = job[j].tx
<1>1. PICK r \in Jobs : r = run[w].job /\ RunningTx(w) = job[r].tx
  BY RunningRows DEF RunningTx
<1>2. job \in [Jobs -> JobRow]
  BY DEF RowsAreLinked, TypeOK
<1>3. CASE JobDone(w)
  BY <1>1, <1>2, <1>3, RunningRows DEF JobDone, Done, JobRow
<1>4. CASE \E k \in Jobs, kind \in {"submit", "poll"}, ref \in Refs \union {NoRef} :
             JobDoneAndNext(w, k, PendingJob(kind, RunningTx(w), ref))
  <2>1. PICK k \in Jobs, kind \in {"submit", "poll"}, ref \in Refs \union {NoRef} :
          job' = [[job EXCEPT ![r].status = "done"]
                    EXCEPT ![k] = PendingJob(kind, RunningTx(w), ref)]
    BY <1>1, <1>4 DEF JobDoneAndNext, Done
  <2>2. PendingJob(kind, RunningTx(w), ref) \in JobRow
    BY RunningRows DEF PendingJob, JobRow
  <2>3. job' \in [Jobs -> JobRow]
    BY <1>2, <2>1, <2>2 DEF JobRow
  <2>4. \A j \in Jobs : j # k => job'[j].tx = job[j].tx
                                 /\ (job'[j].status = "free" <=> job[j].status = "free")
    BY <1>1, <1>2, <2>1, RunningRows DEF JobRow
  <2>5. job'[k].status = "pending" /\ job'[k].tx = RunningTx(w)
    BY <1>2, <2>1 DEF PendingJob
  <2> QED
    BY <2>3, <2>4, <2>5
<1> QED
  BY <1>3, <1>4 DEF LeavesJob

\* A handler that commits keeps the rows linked.
LEMMA CommitKeepsRows ==
  ASSUME RowsAreLinked, NEW w \in Workers, Busy(w), Committed(w), LeavesJob(w), KeepsLinks,
         session' \in [id: Nat, stale: BOOLEAN], opened' = opened, doc' = doc, crashes' = crashes
  PROVE  RowsAreLinked'
<1>1. TypeOK'
  <2>1. job' \in [Jobs -> JobRow]
    BY LeavesJobType
  <2>2. rowLock' \in [Jobs -> Workers \union {NoWorker}]
    BY DEF Committed, RowsAreLinked, TypeOK
  <2>3. batch' \in [Workers -> SUBSET Jobs] /\ run' \in [Workers -> Run]
    BY DEF Committed, RowsAreLinked, TypeOK, Run, Idle
  <2> QED
    BY <2>1, <2>2, <2>3 DEF RowsAreLinked, TypeOK, KeepsLinks
<1>2. TransmissionsAreLinked'
  BY DEF RowsAreLinked, TransmissionsAreLinked, KeepsLinks
<1>3. JobsAreLinked'
  BY LeavesJobType, RunningRows DEF RowsAreLinked, JobsAreLinked, KeepsLinks
<1>4. MemoryIsLinked'
  BY LeavesJobType, NullAssumption
     DEF RowsAreLinked, MemoryIsLinked, Remembered, Committed, TypeOK, Idle
<1> QED
  BY <1>1, <1>2, <1>3, <1>4 DEF RowsAreLinked

\* The effect every committing handler has, whichever way the job ends.
CommitsJob(w) ==
  /\ Busy(w)
  /\ Committed(w)
  /\ LeavesJob(w)
  /\ KeepsLinks
  /\ session' \in [id: Nat, stale: BOOLEAN]
  /\ UNCHANGED <<opened, doc, crashes>>

\* The sync of an invoice keeps the rows of invoices.
LEMMA SyncKeepsInvoices ==
  ASSUME RowsAreLinked, NEW i \in Invoices, NEW status, NEW ref \in Refs \union {NoRef},
         SyncInvoice(i, status, ref)
  PROVE  /\ invoice' \in [Invoices -> InvoiceRow]
         /\ \A k \in Invoices : /\ invoice'[k].status = "READY" <=> invoice[k].status = "READY"
                                /\ invoice'[k].edition = invoice[k].edition
                                /\ k # i => invoice'[k] = invoice[k]
         /\ invoice'[i] = Synced(invoice[i], status, ref)
<1>1. invoice \in [Invoices -> InvoiceRow]
  BY DEF RowsAreLinked, TypeOK
<1>2. Synced(invoice[i], status, ref) \in InvoiceRow
  BY <1>1, SyncedIsRow
<1>3. /\ Synced(invoice[i], status, ref).edition = invoice[i].edition
      /\ Synced(invoice[i], status, ref).status = "READY" <=> invoice[i].status = "READY"
  BY <1>1, SyncedIsRow
<1> QED
  BY <1>1, <1>2, <1>3 DEF SyncInvoice

\* The status a running transmission gets is one of its statuses, and the
\* attempt counter stays a number.
LEMMA RunningTxChange ==
  ASSUME RowsAreLinked, NEW w \in Workers, Busy(w), NEW status \in TransmissionStatuses,
         \/ tx' = [tx EXCEPT ![RunningTx(w)].status = status]
         \/ tx' = [tx EXCEPT ![RunningTx(w)].attempt = @ + 1, ![RunningTx(w)].status = status]
         \/ \E ref \in Refs \union {NoRef} :
              tx' = [tx EXCEPT ![RunningTx(w)].status = status, ![RunningTx(w)].ksef = ref]
  PROVE  /\ tx' \in [Transmissions -> TransmissionRow]
         /\ \A t \in Transmissions : t # RunningTx(w) => tx'[t] = tx[t]
         /\ tx'[RunningTx(w)].invoice = tx[RunningTx(w)].invoice
         /\ tx'[RunningTx(w)].status = status
<1>1. tx \in [Transmissions -> TransmissionRow]
  BY DEF RowsAreLinked, TypeOK
<1>2. PICK t \in Transmissions : t = RunningTx(w)
  BY RunningRows
<1>3. tx[t] \in TransmissionRow
  BY <1>1
<1> SUFFICES ASSUME NEW row \in TransmissionRow, row.invoice = tx[t].invoice, row.status = status,
                    tx' = [tx EXCEPT ![t] = row]
             PROVE  /\ tx' \in [Transmissions -> TransmissionRow]
                    /\ \A s \in Transmissions : s # t => tx'[s] = tx[s]
                    /\ tx'[t].invoice = tx[t].invoice
                    /\ tx'[t].status = status
  <2>1. CASE tx' = [tx EXCEPT ![t].status = status]
    <3> DEFINE row == [tx[t] EXCEPT !.status = status]
    <3>1. row \in TransmissionRow /\ row.invoice = tx[t].invoice /\ row.status = status
      BY <1>3 DEF TransmissionRow
    <3>2. tx' = [tx EXCEPT ![t] = row]
      BY <2>1
    <3> QED
      BY <1>2, <3>1, <3>2
  <2>2. CASE tx' = [tx EXCEPT ![t].attempt = @ + 1, ![t].status = status]
    <3>n. PICK n \in Nat : n = tx[t].attempt + 1
      BY <1>3 DEF TransmissionRow
    <3> DEFINE row == [tx[t] EXCEPT !.attempt = n, !.status = status]
    <3>1. row \in TransmissionRow /\ row.invoice = tx[t].invoice /\ row.status = status
      BY <1>3 DEF TransmissionRow
    <3>2. tx' = [tx EXCEPT ![t] = row]
      BY <1>1, <2>2, <3>n
    <3> QED
      BY <1>2, <3>1, <3>2
  <2>3. ASSUME NEW ref \in Refs \union {NoRef},
               tx' = [tx EXCEPT ![t].status = status, ![t].ksef = ref]
        PROVE  \E row \in TransmissionRow : /\ row.invoice = tx[t].invoice /\ row.status = status
                                            /\ tx' = [tx EXCEPT ![t] = row]
    <3> DEFINE row == [tx[t] EXCEPT !.status = status, !.ksef = ref]
    <3>1. row \in TransmissionRow /\ row.invoice = tx[t].invoice /\ row.status = status
      BY <1>3 DEF TransmissionRow
    <3>2. tx' = [tx EXCEPT ![t] = row]
      BY <1>1, <2>3
    <3> QED
      BY <3>1, <3>2
  <2> QED
    BY <1>2, <2>1, <2>2, <2>3
<1> QED
  BY <1>1

\* Both together, as the handlers use them.
LEMMA ChangeKeepsLinks ==
  ASSUME RowsAreLinked, NEW w \in Workers, Busy(w), NEW status \in TransmissionStatuses,
         \/ tx' = [tx EXCEPT ![RunningTx(w)].status = status]
         \/ tx' = [tx EXCEPT ![RunningTx(w)].attempt = @ + 1, ![RunningTx(w)].status = status]
         \/ \E ref \in Refs \union {NoRef} :
              tx' = [tx EXCEPT ![RunningTx(w)].status = status, ![RunningTx(w)].ksef = ref],
         \/ invoice' = invoice
         \/ \E ref \in Refs \union {NoRef} : SyncInvoice(RunningInvoice(w), status, ref)
  PROVE  KeepsLinks
<1>1. /\ tx' \in [Transmissions -> TransmissionRow]
      /\ \A t \in Transmissions : /\ tx'[t].invoice = tx[t].invoice
                                  /\ tx'[t].status = "unused" <=> tx[t].status = "unused"
  <2>1. /\ tx' \in [Transmissions -> TransmissionRow]
        /\ \A t \in Transmissions : t # RunningTx(w) => tx'[t] = tx[t]
        /\ tx'[RunningTx(w)].invoice = tx[RunningTx(w)].invoice
        /\ tx'[RunningTx(w)].status = status
    BY RunningTxChange
  <2>2. status # "unused" /\ tx[RunningTx(w)].status # "unused"
    BY RunningRows
       DEF TransmissionStatuses, ActiveStatuses, RetryableStatuses, TerminalStatuses
  <2> QED
    BY <2>1, <2>2
<1>2. /\ invoice' \in [Invoices -> InvoiceRow]
      /\ \A i \in Invoices : invoice'[i].status = "READY" <=> invoice[i].status = "READY"
  BY SyncKeepsInvoices, RunningRows DEF RowsAreLinked, TypeOK
<1> QED
  BY <1>1, <1>2 DEF KeepsLinks

\* Every way a handler ends a job commits it in the form above.
LEMMA HandlersCommit ==
  ASSUME RowsAreLinked, NEW w \in Workers,
         \/ \E k \in Jobs : MarkSubmitted(w, k)
         \/ \E k \in Jobs : MarkTemporaryFailureAndRetry(w, k)
         \/ MarkPermanentFailure(w)
         \/ HandleMissingSession(w)
         \/ HandleNotConnected(w)
         \/ HandleSessionExpired(w)
         \/ PollSkipsTerminal(w)
         \/ \E k \in Jobs : PollWaits(w, k)
         \/ PollAccepted(w)
         \/ PollRejected(w)
  PROVE  CommitsJob(w)
<1> USE DEF TransmissionStatuses, ActiveStatuses, RetryableStatuses, TerminalStatuses
<1>s. session \in [id: Nat, stale: BOOLEAN] /\ NoSession \in [id: Nat, stale: BOOLEAN]
  BY DEF RowsAreLinked, TypeOK, NoSession
<1>r. ASSUME Busy(w)
      PROVE  /\ run[w].ref \in Refs \union {NoRef}
             /\ job[run[w].job].ref \in Refs \union {NoRef}
  BY <1>r, RunningRows DEF RowsAreLinked, TypeOK, Run, JobRow
<1>1. CASE \E k \in Jobs : MarkSubmitted(w, k)
  <2>1. PICK k \in Jobs : MarkSubmitted(w, k)
    BY <1>1
  <2>2. Busy(w) /\ Committed(w) /\ UNCHANGED <<sessionVars, doc, crashes>>
    BY <2>1 DEF MarkSubmitted, Submitting
  <2>3. KeepsLinks
    BY <2>1, <2>2, ChangeKeepsLinks DEF MarkSubmitted
  <2>4. LeavesJob(w)
    BY <2>1, <2>2, <1>r DEF MarkSubmitted, LeavesJob
  <2> QED
    BY <2>2, <2>3, <2>4, <1>s DEF CommitsJob, sessionVars
<1>2. CASE \E k \in Jobs : MarkTemporaryFailureAndRetry(w, k)
  <2>1. PICK k \in Jobs : MarkTemporaryFailureAndRetry(w, k)
    BY <1>2
  <2>2. Busy(w) /\ Committed(w) /\ UNCHANGED <<sessionVars, doc, crashes>>
    BY <2>1 DEF MarkTemporaryFailureAndRetry, Submitting
  <2>3. KeepsLinks
    BY <2>1, <2>2, ChangeKeepsLinks DEF MarkTemporaryFailureAndRetry
  <2>4. LeavesJob(w)
    BY <2>1 DEF MarkTemporaryFailureAndRetry, LeavesJob
  <2> QED
    BY <2>2, <2>3, <2>4, <1>s DEF CommitsJob, sessionVars
<1>3. CASE MarkPermanentFailure(w)
  <2>1. Busy(w) /\ Committed(w) /\ LeavesJob(w) /\ UNCHANGED <<sessionVars, doc, crashes>>
    BY <1>3 DEF MarkPermanentFailure, Submitting, LeavesJob
  <2>2. KeepsLinks
    BY <1>3, <2>1, ChangeKeepsLinks DEF MarkPermanentFailure
  <2> QED
    BY <2>1, <2>2, <1>s DEF CommitsJob, sessionVars
<1>4. ASSUME Submitting(w), MarkRetryableFailure(w), session' \in {session, NoSession}
      PROVE  CommitsJob(w)
  <2>1. Busy(w) /\ Committed(w) /\ LeavesJob(w) /\ UNCHANGED <<opened, doc, crashes>>
    BY <1>4 DEF MarkRetryableFailure, Submitting, LeavesJob
  <2>2. KeepsLinks
    BY <1>4, <2>1, ChangeKeepsLinks DEF MarkRetryableFailure
  <2> QED
    BY <2>1, <2>2, <1>4, <1>s DEF CommitsJob
<1>5. CASE HandleMissingSession(w)
  BY <1>4, <1>5 DEF HandleMissingSession, ExpireSeenSession
<1>6. CASE HandleNotConnected(w)
  BY <1>4, <1>6 DEF HandleNotConnected
<1>7. CASE HandleSessionExpired(w)
  BY <1>4, <1>7 DEF HandleSessionExpired
<1>8. CASE PollSkipsTerminal(w)
  <2>1. Busy(w) /\ Committed(w) /\ LeavesJob(w) /\ UNCHANGED <<tx, sessionVars, doc, crashes>>
    BY <1>8 DEF PollSkipsTerminal, Polling, LeavesJob
  <2>2. tx[RunningTx(w)].ksef \in Refs \union {NoRef} /\ tx \in [Transmissions -> TransmissionRow]
    BY <2>1, RunningRows DEF RowsAreLinked, TypeOK, TransmissionRow
  <2>3. /\ invoice' \in [Invoices -> InvoiceRow]
        /\ \A i \in Invoices : invoice'[i].status = "READY" <=> invoice[i].status = "READY"
    BY <1>8, <2>1, <2>2, SyncKeepsInvoices, RunningRows DEF PollSkipsTerminal
  <2> QED
    BY <2>1, <2>2, <2>3, <1>s DEF CommitsJob, KeepsLinks, sessionVars
<1>9. CASE \E k \in Jobs : PollWaits(w, k)
  <2>1. PICK k \in Jobs : PollWaits(w, k)
    BY <1>9
  <2>2. Busy(w) /\ Committed(w) /\ UNCHANGED <<opened, doc, crashes>>
    BY <2>1 DEF PollWaits, PollOpen, Polling
  <2>3. KeepsLinks
    BY <2>1, <2>2, ChangeKeepsLinks DEF PollWaits
  <2>4. LeavesJob(w)
    BY <2>1, <2>2, <1>r DEF PollWaits, LeavesJob
  <2> QED
    BY <2>1, <2>2, <2>3, <2>4, <1>s DEF CommitsJob, PollWaits, ExpireSeenSession
<1>10. CASE PollAccepted(w)
  <2>1. Busy(w) /\ Committed(w) /\ LeavesJob(w) /\ UNCHANGED <<sessionVars, doc, crashes>>
    BY <1>10 DEF PollAccepted, PollOpen, Polling, LeavesJob
  <2>2. KeepsLinks
    BY <1>10, <2>1, <1>r, ChangeKeepsLinks DEF PollAccepted
  <2> QED
    BY <2>1, <2>2, <1>s DEF CommitsJob, sessionVars
<1>11. CASE PollRejected(w)
  <2>1. Busy(w) /\ Committed(w) /\ LeavesJob(w) /\ UNCHANGED <<sessionVars, doc, crashes>>
    BY <1>11 DEF PollRejected, PollOpen, Polling, LeavesJob
  <2>2. KeepsLinks
    BY <1>11, <2>1, ChangeKeepsLinks DEF PollRejected
  <2> QED
    BY <2>1, <2>2, <1>s DEF CommitsJob, sessionVars
<1> QED
  BY <1>1, <1>2, <1>3, <1>5, <1>6, <1>7, <1>8, <1>9, <1>10, <1>11

\* A handler of a worker either commits, delivers a document or rolls back.
LEMMA HandlerCases ==
  ASSUME RowsAreLinked, NEW w \in Workers, SubmitHandler(w) \/ PollHandler(w)
  PROVE  CommitsJob(w) \/ (\E r \in Refs : Deliver(w, r)) \/ PollAborts(w)
BY HandlersCommit DEF SubmitHandler, PollHandler

\* Two jobs, a fresh one and a remembered one, never share a row.
LEMMA RowsNext ==
  ASSUME RowsAreLinked, [Next]_vars
  PROVE  RowsAreLinked'
<1> USE DEF RowsAreLinked
<1>u. UNCHANGED dbVars /\ UNCHANGED workerVars =>
        (TransmissionsAreLinked /\ JobsAreLinked /\ MemoryIsLinked)'
  BY DEF dbVars, workerVars, TransmissionsAreLinked, JobsAreLinked, MemoryIsLinked, Remembered
<1>1. ASSUME NEW i \in Invoices, UpdateInvoice(i) PROVE RowsAreLinked'
  <2>1. invoice' = [invoice EXCEPT ![i] = [invoice[i] EXCEPT !.edition = invoice[i].edition + 1]]
    BY <1>1 DEF UpdateInvoice
  <2>2. PICK n \in Nat : n = invoice[i].edition + 1
    BY DEF TypeOK, InvoiceRow
  <2>3. /\ [invoice[i] EXCEPT !.edition = n] \in InvoiceRow
        /\ [invoice[i] EXCEPT !.edition = n].status = invoice[i].status
    BY DEF TypeOK, InvoiceRow
  <2>4. invoice' \in [Invoices -> InvoiceRow] /\ \A k \in Invoices : invoice'[k].status = invoice[k].status
    BY <2>1, <2>2, <2>3 DEF TypeOK
  <2>5. UNCHANGED <<tx, job, rowLock, batch, run, session, opened, doc, crashes>>
    BY <1>1 DEF UpdateInvoice, workerVars, sessionVars
  <2>6. TypeOK'
    BY <2>4, <2>5 DEF TypeOK
  <2>7. TransmissionsAreLinked' /\ JobsAreLinked' /\ MemoryIsLinked'
    BY <2>4, <2>5 DEF TransmissionsAreLinked, JobsAreLinked, MemoryIsLinked, Remembered
  <2> QED
    BY <2>6, <2>7
<1>2. ASSUME NEW i \in Invoices, NEW t \in Transmissions, NEW j \in Jobs, SubmitInvoice(i, t, j)
      PROVE  RowsAreLinked'
  <2>1. /\ tx' = [tx EXCEPT ![t] = [status |-> "QUEUED", invoice |-> i, attempt |-> 1, ksef |-> NoRef]]
        /\ invoice' = [invoice EXCEPT ![i].status = "SENDING"]
        /\ job' = [job EXCEPT ![j] = PendingJob("submit", t, NoRef)]
        /\ UNCHANGED <<rowLock, batch, run, session, opened, doc, crashes>>
    BY <1>2 DEF SubmitInvoice, workerVars, sessionVars
  <2>2. [status |-> "QUEUED", invoice |-> i, attempt |-> 1, ksef |-> NoRef] \in TransmissionRow
    BY DEF TransmissionRow, TransmissionStatuses, ActiveStatuses
  <2>3. tx' \in [Transmissions -> TransmissionRow]
    BY <2>1, <2>2 DEF TypeOK
  <2>4. invoice' \in [Invoices -> InvoiceRow]
    BY <2>1 DEF TypeOK, InvoiceRow, InvoiceStatuses
  <2>5. job' \in [Jobs -> JobRow]
    BY <2>1 DEF TypeOK, JobRow, PendingJob
  <2>6. TypeOK'
    BY <2>1, <2>3, <2>4, <2>5 DEF TypeOK
  <2>7. \A k \in Invoices : invoice[k].status # "READY" => invoice'[k].status # "READY"
    BY <2>1 DEF TypeOK, InvoiceRow
  <2>8. invoice'[i].status # "READY"
    BY <2>1 DEF TypeOK, InvoiceRow
  <2>9. TransmissionsAreLinked'
    BY <2>1, <2>7, <2>8 DEF TransmissionsAreLinked, TypeOK
  <2>10. JobsAreLinked' /\ MemoryIsLinked'
    BY <2>1 DEF JobsAreLinked, MemoryIsLinked, Remembered, PendingJob, TypeOK
  <2> QED
    BY <2>6, <2>9, <2>10
<1>3. ASSUME NEW t \in Transmissions, NEW j \in Jobs, RetryTransmission(t, j)
      PROVE  RowsAreLinked'
  <2>1. /\ tx' = [tx EXCEPT ![t] = [tx[t] EXCEPT !.attempt = tx[t].attempt + 1, !.status = "QUEUED"]]
        /\ job' = [job EXCEPT ![j] = PendingJob("submit", t, NoRef)]
        /\ UNCHANGED <<invoice, rowLock, batch, run, session, opened, doc, crashes>>
    BY <1>3 DEF RetryTransmission, workerVars, sessionVars, TypeOK
  <2>2. PICK n \in Nat : n = tx[t].attempt + 1
    BY DEF TypeOK, TransmissionRow
  <2>3. /\ [tx[t] EXCEPT !.attempt = n, !.status = "QUEUED"] \in TransmissionRow
        /\ [tx[t] EXCEPT !.attempt = n, !.status = "QUEUED"].invoice = tx[t].invoice
    <3>1. tx[t] \in TransmissionRow /\ "QUEUED" \in TransmissionStatuses
      BY DEF TypeOK, TransmissionStatuses, ActiveStatuses
    <3> QED
      BY <3>1 DEF TransmissionRow
  <2>4. /\ tx' \in [Transmissions -> TransmissionRow]
        /\ \A s \in Transmissions : tx'[s].invoice = tx[s].invoice
        /\ \A s \in Transmissions : s # t => tx'[s] = tx[s]
    BY <2>1, <2>2, <2>3 DEF TypeOK
  <2>5. job' \in [Jobs -> JobRow]
    BY <2>1 DEF TypeOK, JobRow, PendingJob
  <2>6. TypeOK'
    BY <2>1, <2>4, <2>5 DEF TypeOK
  <2>7. tx[t].status # "unused" /\ tx'[t].status # "unused"
    BY <1>3, <2>1 DEF RetryTransmission, CanBeRetried, RetryableStatuses, TypeOK, TransmissionRow
  <2>8. TransmissionsAreLinked'
    BY <2>1, <2>4, <2>7 DEF TransmissionsAreLinked
  <2>9. JobsAreLinked' /\ MemoryIsLinked'
    BY <2>1, <2>4, <2>7 DEF JobsAreLinked, MemoryIsLinked, Remembered, PendingJob, TypeOK
  <2> QED
    BY <2>6, <2>8, <2>9
<1>4. CASE OpenSession \/ CloseSession \/ CheckConnection \/ SessionTimesOut
  <2>1. UNCHANGED dbVars /\ UNCHANGED workerVars /\ UNCHANGED <<doc, crashes>>
    BY <1>4 DEF OpenSession, CloseSession, CheckConnection, SessionTimesOut
  <2>2. opened' \in Nat /\ session' \in [id: Nat, stale: BOOLEAN]
    <3>1. PICK n \in Nat : n = opened + 1
      BY DEF TypeOK
    <3>2. CASE OpenSession
      BY <3>1, <3>2 DEF OpenSession
    <3>3. CASE CloseSession \/ CheckConnection
      <4>1. opened' = opened /\ session' = NoSession
        BY <3>3 DEF CloseSession, CheckConnection
      <4>2. NoSession \in [id: Nat, stale: BOOLEAN]
        BY DEF NoSession
      <4> QED
        BY <4>1, <4>2 DEF TypeOK
    <3>4. CASE SessionTimesOut
      BY <3>4 DEF SessionTimesOut, TypeOK
    <3> QED
      BY <1>4, <3>2, <3>3, <3>4
  <2> QED
    BY <1>u, <2>1, <2>2 DEF TypeOK, dbVars, workerVars
<1>5. CASE KSeFStep
  <2>1. PICK r \in Refs, verdict \in Verdicts : doc' = [doc EXCEPT ![r].verdict = verdict]
    BY <1>5 DEF KSeFStep, KSeFDecides
  <2>2. doc' \in [Refs -> Document]
    BY <2>1 DEF TypeOK, Document
  <2>3. UNCHANGED dbVars /\ UNCHANGED workerVars /\ UNCHANGED <<session, opened, crashes>>
    BY <1>5 DEF KSeFStep, KSeFDecides, sessionVars
  <2> QED
    BY <1>u, <2>2, <2>3 DEF TypeOK, dbVars, workerVars
<1>6. ASSUME NEW w \in Workers, Claim(w) PROVE RowsAreLinked'
  <2>1. PICK B \in SUBSET Claimable :
          /\ batch' = [batch EXCEPT ![w] = B]
          /\ rowLock' = [j \in Jobs |-> IF j \in B THEN w ELSE rowLock[j]]
    BY <1>6 DEF Claim
  <2>2. UNCHANGED <<invoice, tx, job, run, session, opened, doc, crashes>>
    BY <1>6 DEF Claim, dbVars, sessionVars
  <2>3. TypeOK'
    BY <2>1, <2>2 DEF TypeOK, Claimable
  <2>4. TransmissionsAreLinked' /\ JobsAreLinked'
    BY <2>2 DEF TransmissionsAreLinked, JobsAreLinked
  <2>5. MemoryIsLinked'
    BY <2>1, <2>2 DEF MemoryIsLinked, Remembered, Claimable, TypeOK
  <2> QED
    BY <2>3, <2>4, <2>5
<1>7. ASSUME NEW w \in Workers, NEW j \in Jobs, Begin(w, j) PROVE RowsAreLinked'
  <2>1. PICK e \in Nat : e = invoice[tx[job[j].tx].invoice].edition
    <3>1. job[j].tx \in Transmissions /\ tx[job[j].tx].status # "unused"
      BY <1>7 DEF Begin, MemoryIsLinked, Remembered, JobsAreLinked
    <3>2. tx[job[j].tx].invoice \in Invoices
      BY <3>1 DEF TransmissionsAreLinked
    <3> QED
      BY <3>2 DEF TypeOK, InvoiceRow
  <2>2. /\ rowLock' = [rowLock EXCEPT ![j] = w]
        /\ batch' = [batch EXCEPT ![w] = @ \ {j}]
        /\ run' = [run EXCEPT ![w] = [job |-> j, session |-> session.id, live |-> Connected,
                                      edition |-> e, ref |-> NoRef]]
        /\ UNCHANGED <<invoice, tx, job, session, opened, doc, crashes>>
    BY <1>7, <2>1 DEF Begin, dbVars, sessionVars
  <2>3. session.id \in Nat /\ Connected \in BOOLEAN
    BY DEF TypeOK, Connected
  <2>4. TypeOK'
    BY <2>2, <2>3 DEF TypeOK, Run
  <2>5. TransmissionsAreLinked' /\ JobsAreLinked'
    BY <2>2 DEF TransmissionsAreLinked, JobsAreLinked
  <2>6. MemoryIsLinked'
    BY <1>7, <2>2 DEF Begin, MemoryIsLinked, Remembered, TypeOK
  <2> QED
    BY <2>4, <2>5, <2>6
<1>8. ASSUME NEW w \in Workers, NEW r \in Refs, Deliver(w, r) PROVE RowsAreLinked'
  <2>1. RunningInvoice(w) \in Invoices
    BY <1>8, RunningRows DEF Deliver, Submitting
  <2>2. run' = [run EXCEPT ![w].ref = r] /\ UNCHANGED <<invoice, tx, job, rowLock, batch, session, opened, crashes>>
    BY <1>8 DEF Deliver, dbVars, sessionVars
  <2>3. doc' \in [Refs -> Document]
    BY <1>8, <2>1 DEF Deliver, TypeOK, Document, Verdicts, Run
  <2>4. run' \in [Workers -> Run] /\ \A v \in Workers : run'[v].job = run[v].job
    BY <2>2 DEF TypeOK, Run
  <2>5. TypeOK'
    BY <2>2, <2>3, <2>4 DEF TypeOK
  <2>6. TransmissionsAreLinked' /\ JobsAreLinked' /\ MemoryIsLinked'
    BY <2>2, <2>4 DEF TransmissionsAreLinked, JobsAreLinked, MemoryIsLinked, Remembered
  <2> QED
    BY <2>5, <2>6
<1>9. ASSUME NEW w \in Workers, RolledBack(w), session' = session, opened' = opened, doc' = doc,
             crashes' \in Nat
      PROVE  RowsAreLinked'
  <2>1. TypeOK'
    BY <1>9 DEF RolledBack, dbVars, TypeOK, Run, Idle
  <2>2. TransmissionsAreLinked' /\ JobsAreLinked'
    BY <1>9 DEF RolledBack, dbVars, TransmissionsAreLinked, JobsAreLinked
  <2>3. MemoryIsLinked'
    BY <1>9, NullAssumption DEF RolledBack, dbVars, MemoryIsLinked, Remembered, Idle, TypeOK
  <2> QED
    BY <2>1, <2>2, <2>3
<1>10. ASSUME NEW w \in Workers, Crash(w) PROVE RowsAreLinked'
  BY <1>9, <1>10 DEF Crash, sessionVars, TypeOK
<1>11. ASSUME NEW w \in Workers, PollAborts(w) PROVE RowsAreLinked'
  BY <1>9, <1>11 DEF PollAborts, sessionVars, TypeOK
<1>12. ASSUME NEW w \in Workers, CommitsJob(w) PROVE RowsAreLinked'
  BY <1>12, CommitKeepsRows DEF CommitsJob
<1>13. CASE UNCHANGED vars
  BY <1>13, <1>u DEF vars, dbVars, workerVars, TypeOK
<1> QED
  BY <1>1, <1>2, <1>3, <1>4, <1>5, <1>6, <1>7, <1>8, <1>10, <1>11, <1>12, <1>13, HandlerCases
     DEF Next, HttpStep, WorkerStep

\* Type correctness, and every row stays linked: a job to its transmission, a
\* transmission to its invoice (app/persistence/models, the payloads of the
\* jobs), whatever the workers and the HTTP requests do in between.
THEOREM RowsCorrect == Spec => []RowsAreLinked
<1> QED
  BY RowsInit, RowsNext, PTL DEF Spec

\* Every variable keeps its type.
THEOREM TypeCorrect == Spec => []TypeOK
<1>1. RowsAreLinked => TypeOK
  BY DEF RowsAreLinked
<1> QED
  BY <1>1, RowsCorrect, PTL

-----------------------------------------------------------------------------
(* How a job ends                                                           *)

\* The job goes on: the transmission stays in flight, and a job of it is
\* pending again; a poll job asks about a document of this very job.
GoesOn(w) ==
  /\ tx'[RunningTx(w)].status \in InFlightStatuses
  /\ invoice' = invoice
  /\ \E k \in Jobs, kind \in {"submit", "poll"}, ref \in Refs \union {NoRef} :
       /\ JobDoneAndNext(w, k, PendingJob(kind, RunningTx(w), ref))
       /\ kind = "submit" => Submitting(w) /\ ref = NoRef
       /\ kind = "poll" => \/ Delivered(w) /\ ref = run[w].ref
                           \/ Polling(w) /\ ref = job[run[w].job].ref

\* The transmission waits for somebody to open a session and retry it.
Waits(w) ==
  /\ Submitting(w)
  /\ tx'[RunningTx(w)].status = "FAILED_RETRYABLE"
  /\ invoice' = invoice
  /\ JobDone(w)

\* The transmission is decided and the invoice follows.
Ends(w) ==
  /\ tx'[RunningTx(w)].status \in TerminalStatuses
  /\ JobDone(w)
  /\ \E ref \in Refs \union {NoRef} :
       /\ SyncInvoice(RunningInvoice(w), tx'[RunningTx(w)].status, ref)
       /\ tx'[RunningTx(w)].status = "SUCCESS" =>
            /\ tx'[RunningTx(w)].ksef = ref
            /\ \/ tx' = tx
               \/ /\ Polling(w) /\ ref = job[run[w].job].ref
                  /\ doc[ref].verdict = "accepted"
  /\ \/ Submitting(w)
     \/ tx' = tx
     \/ tx'[RunningTx(w)].status = "SUCCESS"
     \/ doc[job[run[w].job].ref].verdict = "rejected"

HandlerEnds(w) ==
  /\ CommitsJob(w)
  /\ \A t \in Transmissions : /\ t # RunningTx(w) => tx'[t] = tx[t]
                              /\ tx'[t].invoice = tx[t].invoice
  /\ \/ tx'[RunningTx(w)].ksef = tx[RunningTx(w)].ksef
     \/ tx'[RunningTx(w)].status = "SUCCESS"
  /\ GoesOn(w) \/ Waits(w) \/ Ends(w)

\* A handler that writes only the status leaves the number of the transmission.
LEMMA NumberUnchanged ==
  ASSUME RowsAreLinked, NEW w \in Workers, Busy(w), NEW status,
         \/ tx' = [tx EXCEPT ![RunningTx(w)].status = status]
         \/ tx' = [tx EXCEPT ![RunningTx(w)].attempt = @ + 1, ![RunningTx(w)].status = status]
  PROVE  tx'[RunningTx(w)].ksef = tx[RunningTx(w)].ksef
<1>1. PICK t \in Transmissions : t = RunningTx(w)
  BY RunningRows
<1>2. tx \in [Transmissions -> TransmissionRow]
  BY DEF RowsAreLinked, TypeOK
<1> QED
  BY <1>1, <1>2 DEF TransmissionRow

\* A handler of a worker ends its job in one of these three ways, delivers a
\* document, or is rolled back.
LEMMA HandlerOutcome ==
  ASSUME RowsAreLinked, NEW w \in Workers, SubmitHandler(w) \/ PollHandler(w)
  PROVE  HandlerEnds(w) \/ (\E r \in Refs : Deliver(w, r)) \/ PollAborts(w)
<1> USE DEF TransmissionStatuses, ActiveStatuses, RetryableStatuses, TerminalStatuses
<1>r. ASSUME Busy(w)
      PROVE  /\ run[w].ref \in Refs \union {NoRef}
             /\ job[run[w].job].ref \in Refs \union {NoRef}
             /\ tx[RunningTx(w)].ksef \in Refs \union {NoRef}
             /\ RunningTx(w) \in Transmissions
             /\ tx \in [Transmissions -> TransmissionRow]
  BY <1>r, RunningRows DEF RowsAreLinked, TypeOK, Run, JobRow, TransmissionRow
<1>1. ASSUME NEW k \in Jobs, MarkSubmitted(w, k) PROVE HandlerEnds(w)
  <2>1. CommitsJob(w) /\ Busy(w) /\ tx' = [tx EXCEPT ![RunningTx(w)].status = "SUBMITTED"]
    BY <1>1, HandlersCommit DEF MarkSubmitted, Submitting
  <2>2. /\ \A t \in Transmissions : t # RunningTx(w) => tx'[t] = tx[t]
        /\ tx'[RunningTx(w)].invoice = tx[RunningTx(w)].invoice
        /\ tx'[RunningTx(w)].status = "SUBMITTED"
    BY <2>1, RunningTxChange
  <2>3. GoesOn(w)
    BY <1>1, <1>r, <2>1, <2>2 DEF MarkSubmitted, GoesOn, InFlightStatuses
  <2> QED
    BY <2>1, <2>2, <2>3, NumberUnchanged DEF HandlerEnds
<1>2. ASSUME NEW k \in Jobs, MarkTemporaryFailureAndRetry(w, k) PROVE HandlerEnds(w)
  <2>1. /\ CommitsJob(w) /\ Busy(w)
        /\ tx' = [tx EXCEPT ![RunningTx(w)].attempt = @ + 1,
                            ![RunningTx(w)].status = "FAILED_TEMPORARY"]
    BY <1>2, HandlersCommit DEF MarkTemporaryFailureAndRetry, Submitting
  <2>2. /\ \A t \in Transmissions : t # RunningTx(w) => tx'[t] = tx[t]
        /\ tx'[RunningTx(w)].invoice = tx[RunningTx(w)].invoice
        /\ tx'[RunningTx(w)].status = "FAILED_TEMPORARY"
    BY <2>1, RunningTxChange
  <2>3. GoesOn(w)
    BY <1>2, <2>2 DEF MarkTemporaryFailureAndRetry, GoesOn, InFlightStatuses
  <2> QED
    BY <2>1, <2>2, <2>3, NumberUnchanged DEF HandlerEnds
<1>3. ASSUME Busy(w), CommitsJob(w), JobDone(w),
             tx' = [tx EXCEPT ![RunningTx(w)].status = "FAILED_PERMANENT"],
             SyncInvoice(RunningInvoice(w), "FAILED_PERMANENT", NoRef),
             Submitting(w) \/ doc[job[run[w].job].ref].verdict = "rejected"
      PROVE  HandlerEnds(w)
  <2>1. /\ \A t \in Transmissions : t # RunningTx(w) => tx'[t] = tx[t]
        /\ tx'[RunningTx(w)].invoice = tx[RunningTx(w)].invoice
        /\ tx'[RunningTx(w)].status = "FAILED_PERMANENT"
    BY <1>3, RunningTxChange
  <2>2. Ends(w)
    BY <1>3, <2>1 DEF Ends
  <2> QED
    BY <1>3, <2>1, <2>2, NumberUnchanged DEF HandlerEnds
<1>4. CASE MarkPermanentFailure(w)
  BY <1>3, <1>4, HandlersCommit DEF MarkPermanentFailure, Submitting
<1>5. CASE HandleMissingSession(w) \/ HandleNotConnected(w) \/ HandleSessionExpired(w)
  <2>1. CommitsJob(w) /\ Submitting(w) /\ Busy(w) /\ MarkRetryableFailure(w)
    BY <1>5, HandlersCommit
       DEF HandleMissingSession, HandleNotConnected, HandleSessionExpired, Submitting
  <2>2. /\ \A t \in Transmissions : t # RunningTx(w) => tx'[t] = tx[t]
        /\ tx'[RunningTx(w)].invoice = tx[RunningTx(w)].invoice
        /\ tx'[RunningTx(w)].status = "FAILED_RETRYABLE"
    BY <2>1, RunningTxChange DEF MarkRetryableFailure
  <2>3. Waits(w)
    BY <2>1, <2>2 DEF MarkRetryableFailure, Waits
  <2> QED
    BY <2>1, <2>2, <2>3, NumberUnchanged DEF HandlerEnds, MarkRetryableFailure
<1>6. CASE PollSkipsTerminal(w)
  <2>1. CommitsJob(w) /\ Busy(w) /\ tx' = tx
    BY <1>6, HandlersCommit DEF PollSkipsTerminal, Polling
  <2>2. Ends(w)
    BY <1>6, <1>r, <2>1 DEF PollSkipsTerminal, Ends
  <2> QED
    BY <2>1, <2>2 DEF HandlerEnds
<1>7. ASSUME NEW k \in Jobs, PollWaits(w, k) PROVE HandlerEnds(w)
  <2>1. CommitsJob(w) /\ Busy(w) /\ tx' = [tx EXCEPT ![RunningTx(w)].status = "WAITING_STATUS"]
    BY <1>7, HandlersCommit DEF PollWaits, PollOpen, Polling
  <2>2. /\ \A t \in Transmissions : t # RunningTx(w) => tx'[t] = tx[t]
        /\ tx'[RunningTx(w)].invoice = tx[RunningTx(w)].invoice
        /\ tx'[RunningTx(w)].status = "WAITING_STATUS"
    BY <2>1, RunningTxChange
  <2>3. GoesOn(w)
    BY <1>7, <1>r, <2>1, <2>2 DEF PollWaits, PollOpen, GoesOn, InFlightStatuses
  <2> QED
    BY <2>1, <2>2, <2>3, NumberUnchanged DEF HandlerEnds
<1>8. CASE PollAccepted(w)
  <2> DEFINE ref == job[run[w].job].ref
  <2>1. /\ CommitsJob(w) /\ Busy(w) /\ Polling(w) /\ JobDone(w)
        /\ tx' = [tx EXCEPT ![RunningTx(w)].status = "SUCCESS", ![RunningTx(w)].ksef = ref]
        /\ SyncInvoice(RunningInvoice(w), "SUCCESS", ref)
        /\ doc[ref].verdict = "accepted"
    BY <1>8, HandlersCommit DEF PollAccepted, PollOpen, Polling, PolledDoc
  <2>2. /\ \A t \in Transmissions : t # RunningTx(w) => tx'[t] = tx[t]
        /\ tx'[RunningTx(w)].invoice = tx[RunningTx(w)].invoice
        /\ tx'[RunningTx(w)].status = "SUCCESS"
    BY <1>r, <2>1, RunningTxChange
  <2>3. tx'[RunningTx(w)].ksef = ref
    BY <1>r, <2>1 DEF TransmissionRow
  <2>4. Ends(w)
    BY <1>r, <2>1, <2>2, <2>3 DEF Ends
  <2> QED
    BY <2>1, <2>2, <2>4 DEF HandlerEnds
<1>9. CASE PollRejected(w)
  BY <1>3, <1>9, HandlersCommit DEF PollRejected, PollOpen, Polling, PolledDoc
<1> QED
  BY <1>1, <1>2, <1>4, <1>5, <1>6, <1>7, <1>8, <1>9 DEF SubmitHandler, PollHandler

-----------------------------------------------------------------------------
(* No transmission is forgotten                                             *)

\* The steps that touch neither transmissions nor jobs nor invoices.
LEMMA OtherSteps ==
  ASSUME RowsAreLinked, [Next]_vars
  PROVE  \/ \E i \in Invoices : UpdateInvoice(i)
         \/ \E i \in Invoices, t \in Transmissions, j \in Jobs : SubmitInvoice(i, t, j)
         \/ \E t \in Transmissions, j \in Jobs : RetryTransmission(t, j)
         \/ \E w \in Workers : HandlerEnds(w)
         \/ \E w \in Workers, r \in Refs : Deliver(w, r)
         \/ \E w \in Workers, j \in Jobs : Begin(w, j)
         \/ KSeFStep
         \/ UNCHANGED dbVars /\ UNCHANGED doc /\ \A w \in Workers : run'[w] = run[w] \/ run'[w] = Idle
<1> DEFINE Quiet ==
      UNCHANGED dbVars /\ UNCHANGED doc /\ \A w \in Workers : run'[w] = run[w] \/ run'[w] = Idle
<1>1. CASE OpenSession \/ CloseSession \/ CheckConnection \/ SessionTimesOut
  BY <1>1 DEF OpenSession, CloseSession, CheckConnection, SessionTimesOut, dbVars, workerVars
<1>2. ASSUME NEW w \in Workers, Claim(w) PROVE Quiet
  BY <1>2 DEF Claim, dbVars
<1>3. ASSUME NEW w \in Workers, RolledBack(w), doc' = doc PROVE Quiet
  BY <1>3 DEF RolledBack, dbVars, RowsAreLinked, TypeOK
<1>4. ASSUME NEW w \in Workers, Crash(w) \/ PollAborts(w) PROVE Quiet
  BY <1>3, <1>4 DEF Crash, PollAborts
<1>5. CASE UNCHANGED vars
  BY <1>5 DEF vars, dbVars
<1> QED
  BY <1>1, <1>2, <1>4, <1>5, HandlerOutcome DEF Next, HttpStep, WorkerStep

\* What a handler leaves pending: the jobs of other transmissions, and a job
\* of its own transmission when it goes on.
LEMMA JobsLeft ==
  ASSUME RowsAreLinked, NEW w \in Workers, HandlerEnds(w)
  PROVE  /\ \A j \in Jobs : job[j].status = "pending" /\ job[j].tx # RunningTx(w) =>
              job'[j].status = "pending" /\ job'[j].tx = job[j].tx
         /\ GoesOn(w) => \E j \in Jobs : job'[j].status = "pending" /\ job'[j].tx = RunningTx(w)
<1>1. Busy(w) /\ LeavesJob(w)
  BY DEF HandlerEnds, CommitsJob
<1>2. PICK r \in Jobs : r = run[w].job /\ RunningTx(w) = job[r].tx
  BY <1>1, RunningRows DEF RunningTx
<1>3. job \in [Jobs -> JobRow]
  BY DEF RowsAreLinked, TypeOK
<1>4. \A j \in Jobs : job[j].status = "pending" /\ job[j].tx # RunningTx(w) => job'[j] = job[j]
  <2>1. CASE JobDone(w)
    BY <1>2, <1>3, <2>1 DEF JobDone, Done
  <2>2. ASSUME NEW k \in Jobs, NEW next, JobDoneAndNext(w, k, next)
        PROVE  \A j \in Jobs : job[j].status = "pending" /\ job[j].tx # RunningTx(w) =>
                 job'[j] = job[j]
    BY <1>2, <1>3, <2>2 DEF JobDoneAndNext, Done, NextRow, FreshRow
  <2> QED
    BY <1>1, <2>1, <2>2 DEF LeavesJob
<1>5. ASSUME GoesOn(w)
      PROVE  \E j \in Jobs : job'[j].status = "pending" /\ job'[j].tx = RunningTx(w)
  BY <1>3, <1>5 DEF GoesOn, JobDoneAndNext, Done, PendingJob
<1> QED
  BY <1>4, <1>5

\* InFlightHasJob is inductive over linked rows.
LEMMA InFlightNext ==
  ASSUME RowsAreLinked, InFlightHasJob, [Next]_vars
  PROVE  InFlightHasJob'
<1> DEFINE HasJob(t) == \E j \in Jobs : job[j].status = "pending" /\ job[j].tx = t
           HasJobNext(t) == \E j \in Jobs : job'[j].status = "pending" /\ job'[j].tx = t
<1>a. \A t \in Transmissions : tx[t].status \in InFlightStatuses => HasJob(t)
  BY DEF InFlightHasJob, InFlight, JobsOf
<1> SUFFICES ASSUME NEW t \in Transmissions, tx'[t].status \in InFlightStatuses
             PROVE  HasJobNext(t)
  BY DEF InFlightHasJob, InFlight, JobsOf
<1>t. tx \in [Transmissions -> TransmissionRow] /\ job \in [Jobs -> JobRow]
  BY DEF RowsAreLinked, TypeOK
<1>1. ASSUME NEW s \in Transmissions, NEW j \in Jobs, FreshRow(j),
             job' = [job EXCEPT ![j] = PendingJob("submit", s, NoRef)],
             \A u \in Transmissions \ {s} : tx'[u] = tx[u]
      PROVE  HasJobNext(t)
  <2>1. job'[j].status = "pending" /\ job'[j].tx = s
    BY <1>t, <1>1 DEF PendingJob
  <2>2. \A k \in Jobs : job[k].status = "pending" => job'[k] = job[k]
    BY <1>t, <1>1 DEF FreshRow
  <2> QED
    BY <1>a, <1>1, <2>1, <2>2
<1>2. ASSUME NEW i \in Invoices, NEW s \in Transmissions, NEW j \in Jobs, SubmitInvoice(i, s, j)
      PROVE  HasJobNext(t)
  BY <1>1, <1>2, <1>t DEF SubmitInvoice
<1>3. ASSUME NEW s \in Transmissions, NEW j \in Jobs, RetryTransmission(s, j)
      PROVE  HasJobNext(t)
  BY <1>1, <1>3, <1>t DEF RetryTransmission
<1>4. ASSUME NEW w \in Workers, HandlerEnds(w) PROVE HasJobNext(t)
  <2>1. CASE t # RunningTx(w)
    BY <1>4, <1>a, <2>1, JobsLeft DEF HandlerEnds
  <2>2. CASE t = RunningTx(w)
    <3>1. GoesOn(w)
      BY <1>4, <2>2 DEF HandlerEnds, Waits, Ends, InFlightStatuses, ActiveStatuses, TerminalStatuses
    <3> QED
      BY <1>4, <2>2, <3>1, JobsLeft
  <2> QED
    BY <2>1, <2>2
<1>5. CASE UNCHANGED <<tx, job>>
  BY <1>5, <1>a
<1> QED
  BY <1>2, <1>3, <1>4, <1>5, OtherSteps
     DEF UpdateInvoice, Deliver, Begin, KSeFStep, KSeFDecides, dbVars

\* While a transmission is queued, submitted, waiting for a status or waiting
\* for its automatic retry, a pending job will come back to it: crashes and
\* rollbacks of any number of workers, whichever jobs they had claimed, lose
\* none (app/worker/__main__.py:67-137).
THEOREM NothingIsForgotten == Spec => []InFlightHasJob
<1>1. Init => InFlightHasJob
  BY DEF Init, InFlightHasJob, InFlight, InFlightStatuses, ActiveStatuses
<1>2. RowsAreLinked /\ InFlightHasJob /\ [Next]_vars => InFlightHasJob'
  BY InFlightNext
<1> QED
  BY <1>1, <1>2, RowsCorrect, PTL DEF Spec

-----------------------------------------------------------------------------
(* No invoice is left in SENDING                                            *)

\* SendingIsOwned is inductive over linked rows.
LEMMA SendingNext ==
  ASSUME RowsAreLinked, SendingIsOwned, [Next]_vars
  PROVE  SendingIsOwned'
<1> USE DEF ActiveStatuses, RetryableStatuses, TerminalStatuses, InFlightStatuses
<1> DEFINE Owned(i) == \E t \in Transmissions : /\ tx[t].invoice = i
                                                /\ tx[t].status \in ActiveStatuses \union RetryableStatuses
           OwnedNext(i) == \E t \in Transmissions : /\ tx'[t].invoice = i
                                                    /\ tx'[t].status \in ActiveStatuses \union RetryableStatuses
<1>a. \A i \in Invoices : invoice[i].status = "SENDING" => Owned(i)
  BY DEF SendingIsOwned, TransmissionsOf, Undecided
<1> SUFFICES ASSUME NEW i \in Invoices, invoice'[i].status = "SENDING"
             PROVE  OwnedNext(i)
  BY DEF SendingIsOwned, TransmissionsOf, Undecided
<1>t. tx \in [Transmissions -> TransmissionRow] /\ invoice \in [Invoices -> InvoiceRow]
  BY DEF RowsAreLinked, TypeOK
<1>1. ASSUME NEW k \in Invoices, UpdateInvoice(k) PROVE OwnedNext(i)
  <2>1. invoice[i].status = "SENDING" /\ tx' = tx
    BY <1>1, <1>t DEF UpdateInvoice, InvoiceRow
  <2> QED
    BY <1>a, <2>1
<1>2. ASSUME NEW k \in Invoices, NEW s \in Transmissions, NEW j \in Jobs, SubmitInvoice(k, s, j)
      PROVE  OwnedNext(i)
  <2>1. tx'[s].invoice = k /\ tx'[s].status = "QUEUED" /\ \A t \in Transmissions \ {s} : tx'[t] = tx[t]
    BY <1>2, <1>t DEF SubmitInvoice
  <2>2. i # k => invoice[i].status = "SENDING"
    BY <1>2, <1>t DEF SubmitInvoice
  <2>3. tx[s].status = "unused"
    BY <1>2 DEF SubmitInvoice
  <2> QED
    BY <1>a, <2>1, <2>2, <2>3
<1>3. ASSUME NEW s \in Transmissions, NEW j \in Jobs, RetryTransmission(s, j)
      PROVE  OwnedNext(i)
  <2>1. /\ tx'[s].invoice = tx[s].invoice /\ tx'[s].status = "QUEUED"
        /\ \A t \in Transmissions \ {s} : tx'[t] = tx[t]
    BY <1>3, <1>t DEF RetryTransmission, TransmissionRow
  <2>2. invoice[i].status = "SENDING"
    BY <1>3 DEF RetryTransmission
  <2> QED
    BY <1>a, <2>1, <2>2
<1>4. ASSUME NEW w \in Workers, HandlerEnds(w) PROVE OwnedNext(i)
  <2>1. /\ RunningTx(w) \in Transmissions
        /\ \A t \in Transmissions : /\ t # RunningTx(w) => tx'[t] = tx[t]
                                    /\ tx'[t].invoice = tx[t].invoice
    BY <1>4, RunningRows DEF HandlerEnds, CommitsJob
  <2>2. CASE GoesOn(w) \/ Waits(w)
    BY <1>a, <2>1, <2>2 DEF GoesOn, Waits
  <2>3. CASE Ends(w)
    <3>1. PICK ref \in Refs \union {NoRef} :
            SyncInvoice(RunningInvoice(w), tx'[RunningTx(w)].status, ref)
      BY <2>3 DEF Ends
    <3>2. RunningInvoice(w) \in Invoices
      BY <1>4, RunningRows DEF HandlerEnds, CommitsJob
    <3>3. /\ \A k \in Invoices : k # RunningInvoice(w) => invoice'[k] = invoice[k]
          /\ invoice'[RunningInvoice(w)] =
               Synced(invoice[RunningInvoice(w)], tx'[RunningTx(w)].status, ref)
      BY <3>1, <3>2, SyncKeepsInvoices
    <3>4. i # RunningInvoice(w)
      BY <1>t, <2>3, <3>2, <3>3 DEF Ends, Synced, InvoiceRow
    <3>5. PICK t \in Transmissions :
            tx[t].invoice = i /\ tx[t].status \in ActiveStatuses \union RetryableStatuses
      BY <1>a, <3>3, <3>4
    <3>6. t # RunningTx(w)
      BY <3>4, <3>5 DEF RunningInvoice
    <3> QED
      BY <2>1, <3>5, <3>6
  <2> QED
    BY <1>4, <2>2, <2>3 DEF HandlerEnds
<1>5. CASE UNCHANGED <<tx, invoice>>
  BY <1>5, <1>a
<1> QED
  BY <1>1, <1>2, <1>3, <1>4, <1>5, OtherSteps DEF Deliver, Begin, KSeFStep, KSeFDecides, dbVars

\* An invoice shown as SENDING has a transmission that is still undecided
\* (app/services/transmission_service.py:71-113, 277-302).
THEOREM SendingIsNotOrphaned == Spec => []SendingIsOwned
<1>1. Init => SendingIsOwned
  BY DEF Init, SendingIsOwned
<1>2. RowsAreLinked /\ SendingIsOwned /\ [Next]_vars => SendingIsOwned'
  BY SendingNext
<1> QED
  BY <1>1, <1>2, RowsCorrect, PTL DEF Spec

-----------------------------------------------------------------------------
(* References and numbers are real                                          *)

LEMMA LinksInit == Init => LinksAreReal
BY NullAssumption
   DEF Init, LinksAreReal, DocumentsAreLinked, RunsAreLinked, PollsAreLinked, SuccessIsReal,
       NumberIsReal, Busy, Idle

\* The parts of the model an in-progress job can be read from stay the same
\* while it is remembered: its row, its transmission's invoice.
LEMMA RememberedJobKeepsTx ==
  ASSUME RowsAreLinked, NEW w \in Workers, NEW v \in Workers, v # w, HandlerEnds(w),
         NEW j \in Jobs, Remembered(j, v)
  PROVE  job'[j].tx = job[j].tx
<1>1. Busy(w) /\ LeavesJob(w) /\ run[w].job \in Jobs
  BY RunningRows DEF HandlerEnds, CommitsJob
<1>2. job \in [Jobs -> JobRow]
  BY DEF RowsAreLinked, TypeOK
<1>3. CASE JobDone(w)
  BY <1>1, <1>2, <1>3 DEF JobDone, Done, JobRow
<1>4. ASSUME NEW k \in Jobs, NEW next, JobDoneAndNext(w, k, next) PROVE job'[j].tx = job[j].tx
  <2>1. k # j
    BY <1>4 DEF JobDoneAndNext, NextRow, FreshRow
  <2> QED
    BY <1>1, <1>2, <1>4, <2>1 DEF JobDoneAndNext, Done, JobRow
<1> QED
  BY <1>1, <1>3, <1>4 DEF LeavesJob

IsDocumentNext(r, i) == r \in Refs /\ doc'[r].verdict # "none" /\ doc'[r].invoice = i

\* A document of an invoice stays one.
LEMMA DocumentsStay ==
  ASSUME RowsAreLinked, [Next]_vars, NEW r, NEW i, IsDocumentOf(r, i)
  PROVE  /\ IsDocumentNext(r, i)
         /\ doc'[r].edition = doc[r].edition
         /\ doc[r].verdict = "accepted" => doc'[r].verdict = "accepted"
<1>1. doc \in [Refs -> Document] /\ r \in Refs
  BY DEF RowsAreLinked, TypeOK, IsDocumentOf
<1>2. ASSUME NEW w \in Workers, NEW s \in Refs, Deliver(w, s)
      PROVE  doc'[r] = doc[r]
  BY <1>1, <1>2 DEF Deliver, IsDocumentOf
<1>3. ASSUME NEW s \in Refs, NEW verdict \in Verdicts, KSeFDecides(s, verdict)
      PROVE  /\ doc'[r].invoice = doc[r].invoice
             /\ doc'[r].edition = doc[r].edition
             /\ doc'[r].verdict # "none"
             /\ doc[r].verdict = "accepted" => doc'[r].verdict = "accepted"
  BY <1>1, <1>3 DEF KSeFDecides, IsDocumentOf, Document, Verdicts
<1>4. CASE doc' = doc
  BY <1>4 DEF IsDocumentOf, IsDocumentNext
<1> QED
  BY <1>2, <1>3, <1>4, OtherSteps
     DEF IsDocumentOf, IsDocumentNext, UpdateInvoice, SubmitInvoice, RetryTransmission, HandlerEnds, CommitsJob,
         Begin, KSeFStep

\* What every step keeps of an invoice: its edition never falls, and it never
\* returns to READY.
LEMMA InvoicesGrow ==
  ASSUME RowsAreLinked, [Next]_vars, NEW i \in Invoices
  PROVE  /\ invoice[i].edition <= invoice'[i].edition
         /\ invoice[i].status # "READY" => invoice'[i].status # "READY"
<1>1. invoice \in [Invoices -> InvoiceRow] /\ invoice[i].edition \in Nat
  BY DEF RowsAreLinked, TypeOK, InvoiceRow
<1>2. ASSUME NEW k \in Invoices, UpdateInvoice(k)
      PROVE  /\ invoice[i].edition <= invoice'[i].edition
             /\ invoice[i].status # "READY" => invoice'[i].status # "READY"
  <2>1. i # k => invoice'[i] = invoice[i]
    BY <1>1, <1>2 DEF UpdateInvoice
  <2>2. i = k => /\ invoice'[i].status = invoice[i].status
                 /\ invoice'[i].edition = invoice[i].edition + 1
    BY <1>1, <1>2 DEF UpdateInvoice, InvoiceRow
  <2> QED
    BY <1>1, <2>1, <2>2
<1>3. ASSUME NEW k \in Invoices, NEW s \in Transmissions, NEW j \in Jobs, SubmitInvoice(k, s, j)
      PROVE  /\ invoice'[i].edition = invoice[i].edition
             /\ invoice[i].status # "READY" => invoice'[i].status # "READY"
  BY <1>1, <1>3 DEF SubmitInvoice, InvoiceRow
<1>4. ASSUME NEW w \in Workers, HandlerEnds(w)
      PROVE  /\ invoice'[i].edition = invoice[i].edition
             /\ invoice[i].status # "READY" => invoice'[i].status # "READY"
  <2>1. RunningInvoice(w) \in Invoices
    BY <1>4, RunningRows DEF HandlerEnds, CommitsJob
  <2>2. CASE GoesOn(w) \/ Waits(w)
    BY <2>2 DEF GoesOn, Waits
  <2>3. CASE Ends(w)
    BY <2>1, <2>3, SyncKeepsInvoices DEF Ends
  <2> QED
    BY <1>4, <2>2, <2>3 DEF HandlerEnds
<1>5. CASE invoice' = invoice
  BY <1>1, <1>5
<1>6. \/ \E k \in Invoices : UpdateInvoice(k)
      \/ \E k \in Invoices, s \in Transmissions, j \in Jobs : SubmitInvoice(k, s, j)
      \/ \E w \in Workers : HandlerEnds(w)
      \/ invoice' = invoice
  BY OtherSteps DEF RetryTransmission, Deliver, Begin, KSeFStep, KSeFDecides, dbVars
<1>7. invoice[i].edition <= invoice[i].edition
  BY <1>1
<1> QED
  BY <1>2, <1>3, <1>4, <1>5, <1>6, <1>7

\* The invoice of a transmission or of a running job is fixed.
LEMMA TxKeepsInvoice ==
  ASSUME RowsAreLinked, [Next]_vars, NEW t \in Transmissions, tx[t].status # "unused"
  PROVE  tx'[t].invoice = tx[t].invoice
<1>1. tx \in [Transmissions -> TransmissionRow]
  BY DEF RowsAreLinked, TypeOK
<1>2. ASSUME NEW i \in Invoices, NEW s \in Transmissions, NEW j \in Jobs, SubmitInvoice(i, s, j)
      PROVE  tx'[t].invoice = tx[t].invoice
  BY <1>1, <1>2 DEF SubmitInvoice
<1>3. ASSUME NEW s \in Transmissions, NEW j \in Jobs, RetryTransmission(s, j)
      PROVE  tx'[t].invoice = tx[t].invoice
  BY <1>1, <1>3 DEF RetryTransmission, TransmissionRow
<1>4. ASSUME NEW w \in Workers, HandlerEnds(w) PROVE tx'[t].invoice = tx[t].invoice
  BY <1>4 DEF HandlerEnds
<1> QED
  BY <1>2, <1>3, <1>4, OtherSteps
     DEF UpdateInvoice, Deliver, Begin, KSeFStep, KSeFDecides, dbVars

\* A worker that stays in the middle of a job stays with its invoice.
LEMMA RunKeepsInvoice ==
  ASSUME RowsAreLinked, [Next]_vars, NEW w \in Workers, Busy(w), Busy(w)', run'[w].job = run[w].job
  PROVE  RunningTx(w)' = RunningTx(w) /\ RunningInvoice(w)' = RunningInvoice(w)
<1>1. /\ run[w].job \in Jobs /\ job[run[w].job].status # "free"
      /\ RunningTx(w) \in Transmissions /\ tx[RunningTx(w)].status # "unused"
  BY RunningRows
<1>2. run \in [Workers -> Run] /\ job \in [Jobs -> JobRow]
  BY DEF RowsAreLinked, TypeOK
<1>3. ASSUME NEW s \in Transmissions, NEW j \in Jobs, FreshRow(j),
             job' = [job EXCEPT ![j] = PendingJob("submit", s, NoRef)]
      PROVE  job'[run[w].job] = job[run[w].job]
  BY <1>1, <1>2, <1>3 DEF FreshRow, Remembered
<1>4. ASSUME NEW i \in Invoices, NEW s \in Transmissions, NEW j \in Jobs, SubmitInvoice(i, s, j)
      PROVE  job'[run[w].job].tx = job[run[w].job].tx
  BY <1>3, <1>4 DEF SubmitInvoice
<1>5. ASSUME NEW s \in Transmissions, NEW j \in Jobs, RetryTransmission(s, j)
      PROVE  job'[run[w].job].tx = job[run[w].job].tx
  BY <1>3, <1>5 DEF RetryTransmission
<1>6. ASSUME NEW v \in Workers, HandlerEnds(v)
      PROVE  job'[run[w].job].tx = job[run[w].job].tx
  <2>1. v # w
    BY <1>2, <1>6 DEF HandlerEnds, CommitsJob, Committed, Busy, Idle
  <2> QED
    BY <1>1, <1>6, <2>1, RememberedJobKeepsTx DEF Remembered
<1>7. job'[run[w].job].tx = job[run[w].job].tx
  BY <1>4, <1>5, <1>6, OtherSteps
     DEF UpdateInvoice, Deliver, Begin, KSeFStep, KSeFDecides, dbVars
<1> QED
  BY <1>1, <1>7, TxKeepsInvoice DEF RunningTx, RunningInvoice

LEMMA DocumentsNext ==
  ASSUME RowsAreLinked, DocumentsAreLinked, RunsAreLinked, [Next]_vars
  PROVE  DocumentsAreLinked'
<1> SUFFICES ASSUME NEW r \in Refs, doc'[r].verdict # "none"
             PROVE  /\ doc'[r].invoice \in Invoices
                    /\ invoice'[doc'[r].invoice].status # "READY"
                    /\ doc'[r].edition <= invoice'[doc'[r].invoice].edition
  BY DEF DocumentsAreLinked
<1>t. /\ doc \in [Refs -> Document] /\ doc' \in [Refs -> Document]
      /\ invoice \in [Invoices -> InvoiceRow] /\ invoice' \in [Invoices -> InvoiceRow]
      /\ run \in [Workers -> Run]
  BY RowsNext DEF RowsAreLinked, TypeOK
<1>1. CASE doc[r].verdict # "none"
  <2>1. PICK i \in Invoices : IsDocumentOf(r, i) /\ invoice[i].status # "READY"
                              /\ doc[r].edition <= invoice[i].edition
    BY <1>1 DEF DocumentsAreLinked, IsDocumentOf
  <2>2. doc'[r].invoice = i /\ doc'[r].edition = doc[r].edition
    BY <2>1, DocumentsStay DEF IsDocumentNext
  <2>3. invoice[i].edition <= invoice'[i].edition /\ invoice'[i].status # "READY"
    BY <2>1, InvoicesGrow
  <2>4. doc[r].edition \in Nat /\ invoice[i].edition \in Nat /\ invoice'[i].edition \in Nat
    BY <1>t DEF Document, InvoiceRow
  <2> QED
    BY <2>1, <2>2, <2>3, <2>4
<1>2. CASE doc[r].verdict = "none"
  <2>1. PICK w \in Workers : Deliver(w, r)
    <3>1. ASSUME NEW s \in Refs, NEW verdict \in Verdicts, KSeFDecides(s, verdict) PROVE FALSE
      BY <1>2, <1>t, <3>1 DEF KSeFDecides
    <3>2. ASSUME NEW w \in Workers, NEW s \in Refs, Deliver(w, s) PROVE s = r
      BY <1>2, <1>t, <3>2 DEF Deliver
    <3> QED
      BY <1>2, <3>1, <3>2, OtherSteps
         DEF UpdateInvoice, SubmitInvoice, RetryTransmission, HandlerEnds, CommitsJob, Begin, KSeFStep
  <2>2. Busy(w) /\ invoice' = invoice
    BY <2>1 DEF Deliver, Submitting, dbVars
  <2>3. doc'[r].invoice = RunningInvoice(w) /\ doc'[r].edition = run[w].edition
    BY <1>t, <2>1 DEF Deliver
  <2> QED
    BY <2>2, <2>3, RunningRows DEF RunsAreLinked
<1> QED
  BY <1>1, <1>2

LEMMA RunsNext ==
  ASSUME RowsAreLinked, RunsAreLinked, [Next]_vars
  PROVE  RunsAreLinked'
<1> SUFFICES ASSUME NEW w \in Workers, Busy(w)'
             PROVE  /\ run'[w].edition <= invoice'[RunningInvoice(w)'].edition
                    /\ run'[w].ref # NoRef => IsDocumentNext(run'[w].ref, RunningInvoice(w)')
  BY DEF RunsAreLinked, Delivered, IsDocumentOf, IsDocumentNext
<1>t. /\ run \in [Workers -> Run] /\ run' \in [Workers -> Run]
      /\ invoice \in [Invoices -> InvoiceRow] /\ invoice' \in [Invoices -> InvoiceRow]
  BY RowsNext DEF RowsAreLinked, TypeOK
<1>1. ASSUME Busy(w), run'[w].job = run[w].job, run'[w].edition = run[w].edition
      PROVE  /\ run'[w].edition <= invoice'[RunningInvoice(w)'].edition
             /\ run[w].ref # NoRef => IsDocumentNext(run[w].ref, RunningInvoice(w)')
             /\ RunningInvoice(w)' = RunningInvoice(w)
  <2>1. RunningInvoice(w)' = RunningInvoice(w) /\ RunningInvoice(w) \in Invoices
    BY <1>1, RunningRows, RunKeepsInvoice
  <2>2. /\ run[w].edition <= invoice[RunningInvoice(w)].edition
        /\ run[w].ref # NoRef => IsDocumentOf(run[w].ref, RunningInvoice(w))
    BY <1>1 DEF RunsAreLinked, Delivered
  <2>3. invoice[RunningInvoice(w)].edition <= invoice'[RunningInvoice(w)].edition
    BY <2>1, InvoicesGrow
  <2>4. /\ run[w].edition \in Nat /\ invoice[RunningInvoice(w)].edition \in Nat
        /\ invoice'[RunningInvoice(w)].edition \in Nat
    BY <1>t, <2>1 DEF Run, InvoiceRow
  <2>5. run[w].edition <= invoice'[RunningInvoice(w)].edition
    BY <2>2, <2>3, <2>4
  <2>6. run[w].ref # NoRef => IsDocumentNext(run[w].ref, RunningInvoice(w))
    BY <2>2, DocumentsStay
  <2> QED
    BY <1>1, <2>1, <2>5, <2>6
<1>2. ASSUME run'[w] = run[w]
      PROVE  /\ run'[w].edition <= invoice'[RunningInvoice(w)'].edition
             /\ run'[w].ref # NoRef => IsDocumentNext(run'[w].ref, RunningInvoice(w)')
  <2>1. Busy(w)
    BY <1>2 DEF Busy
  <2> QED
    BY <1>1, <1>2, <2>1
<1>3. ASSUME NEW v \in Workers, NEW r \in Refs, Deliver(v, r)
      PROVE  /\ run'[w].edition <= invoice'[RunningInvoice(w)'].edition
             /\ run'[w].ref # NoRef => IsDocumentNext(run'[w].ref, RunningInvoice(w)')
  <2>1. CASE v # w
    BY <1>2, <1>3, <1>t, <2>1 DEF Deliver
  <2>2. CASE v = w
    <3>1. Busy(w) /\ run'[w].job = run[w].job /\ run'[w].edition = run[w].edition /\ run'[w].ref = r
      BY <1>3, <1>t, <2>2 DEF Deliver, Submitting, Run
    <3>2. doc'[r].verdict = "pending" /\ doc'[r].invoice = RunningInvoice(w)
      BY <1>3, <2>2 DEF Deliver, RowsAreLinked, TypeOK
    <3> QED
      BY <1>1, <3>1, <3>2 DEF IsDocumentNext
  <2> QED
    BY <2>1, <2>2
<1>4. ASSUME NEW v \in Workers, NEW j \in Jobs, Begin(v, j)
      PROVE  /\ run'[w].edition <= invoice'[RunningInvoice(w)'].edition
             /\ run'[w].ref # NoRef => IsDocumentNext(run'[w].ref, RunningInvoice(w)')
  <2>1. CASE v # w
    BY <1>2, <1>4, <1>t, <2>1 DEF Begin
  <2>2. CASE v = w
    <3>1. /\ run'[w].job = j /\ run'[w].ref = NoRef
          /\ run'[w].edition = invoice[tx[job[j].tx].invoice].edition
      BY <1>4, <1>t, <2>2 DEF Begin
    <3>2. RunningInvoice(w)' = tx[job[j].tx].invoice /\ invoice' = invoice
      BY <1>4, <3>1 DEF Begin, dbVars, RunningInvoice, RunningTx
    <3>3. run'[w].edition \in Nat
      BY <1>t DEF Run
    <3> QED
      BY <3>1, <3>2, <3>3
  <2> QED
    BY <2>1, <2>2
<1>5. ASSUME NEW v \in Workers, HandlerEnds(v) PROVE run'[w] = run[w]
  BY <1>5, <1>t DEF HandlerEnds, CommitsJob, Committed, Busy, Idle
<1>6. run'[w] # Idle
  BY DEF Busy, Idle
<1>7. \/ run'[w] = run[w]
      \/ \E v \in Workers, r \in Refs : Deliver(v, r)
      \/ \E v \in Workers, j \in Jobs : Begin(v, j)
  BY <1>5, <1>6, OtherSteps
     DEF UpdateInvoice, SubmitInvoice, RetryTransmission, KSeFStep, KSeFDecides, workerVars
<1> QED
  BY <1>2, <1>3, <1>4, <1>7

LEMMA PollsNext ==
  ASSUME RowsAreLinked, RunsAreLinked, PollsAreLinked, [Next]_vars
  PROVE  PollsAreLinked'
<1> SUFFICES ASSUME NEW j \in Jobs, job'[j].status # "free", job'[j].kind = "poll"
             PROVE  IsDocumentNext(job'[j].ref, tx'[job'[j].tx].invoice)
  BY DEF PollsAreLinked, IsDocumentOf, IsDocumentNext
<1>t. job \in [Jobs -> JobRow] /\ job' \in [Jobs -> JobRow]
  BY RowsNext DEF RowsAreLinked, TypeOK
<1>1. ASSUME job[j].status # "free", job'[j].kind = job[j].kind, job'[j].ref = job[j].ref,
             job'[j].tx = job[j].tx
      PROVE  IsDocumentNext(job'[j].ref, tx'[job'[j].tx].invoice)
  <2>1. IsDocumentOf(job[j].ref, tx[job[j].tx].invoice)
    BY <1>1 DEF PollsAreLinked
  <2>2. tx'[job[j].tx].invoice = tx[job[j].tx].invoice
    BY <1>1, TxKeepsInvoice DEF RowsAreLinked, JobsAreLinked
  <2> QED
    BY <1>1, <2>1, <2>2, DocumentsStay
<1>2. ASSUME NEW t \in Transmissions, NEW k \in Jobs,
             job' = [job EXCEPT ![k] = PendingJob("submit", t, NoRef)]
      PROVE  IsDocumentNext(job'[j].ref, tx'[job'[j].tx].invoice)
  <2>1. k # j
    BY <1>2, <1>t DEF PendingJob
  <2>2. job'[j] = job[j]
    BY <1>2, <1>t, <2>1
  <2> QED
    BY <1>1, <2>2
<1>3. ASSUME NEW w \in Workers, HandlerEnds(w)
      PROVE  IsDocumentNext(job'[j].ref, tx'[job'[j].tx].invoice)
  <2>1. /\ Busy(w) /\ run[w].job \in Jobs /\ job[run[w].job].status # "free"
        /\ RunningTx(w) \in Transmissions /\ tx[RunningTx(w)].status # "unused"
    BY <1>3, RunningRows DEF HandlerEnds, CommitsJob
  <2>2. /\ Done(w)[j].kind = job[j].kind /\ Done(w)[j].ref = job[j].ref /\ Done(w)[j].tx = job[j].tx
        /\ Done(w)[j].status = "free" <=> job[j].status = "free"
    BY <1>t, <2>1 DEF Done, JobRow
  <2>a. ASSUME job'[j] = Done(w)[j]
        PROVE  IsDocumentNext(job'[j].ref, tx'[job'[j].tx].invoice)
    <3>1. /\ job[j].status # "free" /\ job'[j].kind = job[j].kind /\ job'[j].ref = job[j].ref
          /\ job'[j].tx = job[j].tx
      BY <2>2, <2>a
    <3> QED
      BY <1>1, <3>1
  <2>3. CASE JobDone(w)
    BY <2>3, <2>a DEF JobDone
  <2>4. CASE GoesOn(w)
    <3>1. PICK k \in Jobs, kind \in {"submit", "poll"}, ref \in Refs \union {NoRef} :
            /\ job' = [Done(w) EXCEPT ![k] = PendingJob(kind, RunningTx(w), ref)]
            /\ kind = "poll" => \/ Delivered(w) /\ ref = run[w].ref
                                \/ Polling(w) /\ ref = job[run[w].job].ref
      BY <2>4 DEF GoesOn, JobDoneAndNext
    <3>2. CASE j # k
      <4>1. job'[j] = Done(w)[j]
        BY <1>t, <3>1, <3>2 DEF Done
      <4> QED
        BY <2>a, <4>1
    <3>3. CASE j = k
      <4>1. job'[j].kind = kind /\ job'[j].tx = RunningTx(w) /\ job'[j].ref = ref
        BY <1>t, <3>1, <3>3 DEF PendingJob, Done
      <4>2. IsDocumentOf(ref, RunningInvoice(w))
        BY <2>1, <3>1, <4>1 DEF RunsAreLinked, PollsAreLinked, Polling, RunningInvoice, RunningTx
      <4>3. tx'[RunningTx(w)].invoice = RunningInvoice(w)
        BY <2>1, TxKeepsInvoice DEF RunningInvoice
      <4> QED
        BY <4>1, <4>2, <4>3, DocumentsStay
    <3> QED
      BY <3>2, <3>3
  <2> QED
    BY <1>3, <2>3, <2>4 DEF HandlerEnds, Waits, Ends
<1>4. CASE job' = job
  BY <1>1, <1>4
<1> QED
  BY <1>2, <1>3, <1>4, OtherSteps
     DEF UpdateInvoice, SubmitInvoice, RetryTransmission, Deliver, Begin, KSeFStep, KSeFDecides, dbVars

LEMMA SuccessNext ==
  ASSUME RowsAreLinked, PollsAreLinked, SuccessIsReal, [Next]_vars
  PROVE  SuccessIsReal'
<1> SUFFICES ASSUME NEW t \in Transmissions, tx'[t].status = "SUCCESS"
             PROVE  /\ IsDocumentNext(tx'[t].ksef, tx'[t].invoice)
                    /\ doc'[tx'[t].ksef].verdict = "accepted"
  BY DEF SuccessIsReal, IsDocumentOf, IsDocumentNext
<1>t. tx \in [Transmissions -> TransmissionRow]
  BY DEF RowsAreLinked, TypeOK
<1>1. ASSUME tx'[t] = tx[t]
      PROVE  /\ IsDocumentNext(tx'[t].ksef, tx'[t].invoice)
             /\ doc'[tx'[t].ksef].verdict = "accepted"
  <2>1. IsDocumentOf(tx[t].ksef, tx[t].invoice) /\ doc[tx[t].ksef].verdict = "accepted"
    BY <1>1 DEF SuccessIsReal
  <2> QED
    BY <1>1, <2>1, DocumentsStay
<1>2. ASSUME NEW i \in Invoices, NEW s \in Transmissions, NEW j \in Jobs, SubmitInvoice(i, s, j)
      PROVE  tx'[t] = tx[t]
  BY <1>2, <1>t DEF SubmitInvoice
<1>3. ASSUME NEW s \in Transmissions, NEW j \in Jobs, RetryTransmission(s, j)
      PROVE  tx'[t] = tx[t]
  BY <1>3, <1>t DEF RetryTransmission, TransmissionRow
<1>4. ASSUME NEW w \in Workers, HandlerEnds(w), tx'[t] # tx[t]
      PROVE  /\ IsDocumentNext(tx'[t].ksef, tx'[t].invoice)
             /\ doc'[tx'[t].ksef].verdict = "accepted"
  <2>1. t = RunningTx(w) /\ Ends(w) /\ tx'[t].invoice = tx[t].invoice /\ Busy(w) /\ doc' = doc
    BY <1>4
       DEF HandlerEnds, CommitsJob, GoesOn, Waits, InFlightStatuses, ActiveStatuses
  <2>2. /\ Polling(w) /\ tx'[t].ksef = job[run[w].job].ref
        /\ doc[job[run[w].job].ref].verdict = "accepted"
    BY <1>4, <2>1 DEF Ends
  <2>3. IsDocumentOf(job[run[w].job].ref, RunningInvoice(w))
    BY <2>1, <2>2, RunningRows DEF PollsAreLinked, Polling, RunningInvoice, RunningTx
  <2> QED
    BY <2>1, <2>2, <2>3, DocumentsStay DEF RunningInvoice
<1> QED
  BY <1>1, <1>2, <1>3, <1>4, OtherSteps
     DEF UpdateInvoice, Deliver, Begin, KSeFStep, KSeFDecides, dbVars

LEMMA NumberNext ==
  ASSUME RowsAreLinked, PollsAreLinked, SuccessIsReal, NumberIsReal, [Next]_vars
  PROVE  NumberIsReal'
<1> SUFFICES ASSUME NEW i \in Invoices, invoice'[i].status = "ACCEPTED"
             PROVE  IsDocumentNext(invoice'[i].ksef, i) /\ doc'[invoice'[i].ksef].verdict = "accepted"
  BY DEF NumberIsReal, DocumentsOf, IsDocumentNext
<1>t. invoice \in [Invoices -> InvoiceRow] /\ doc \in [Refs -> Document]
  BY DEF RowsAreLinked, TypeOK
<1>1. ASSUME invoice[i].status = "ACCEPTED", invoice'[i].ksef = invoice[i].ksef
      PROVE  IsDocumentNext(invoice'[i].ksef, i) /\ doc'[invoice'[i].ksef].verdict = "accepted"
  <2>1. IsDocumentOf(invoice[i].ksef, i) /\ doc[invoice[i].ksef].verdict = "accepted"
    BY <1>1 DEF NumberIsReal, DocumentsOf, IsDocumentOf
  <2> QED
    BY <1>1, <2>1, DocumentsStay
<1>2. ASSUME NEW k \in Invoices, UpdateInvoice(k)
      PROVE  invoice[i].status = "ACCEPTED" /\ invoice'[i].ksef = invoice[i].ksef
  BY <1>2, <1>t DEF UpdateInvoice, InvoiceRow
<1>3. ASSUME NEW k \in Invoices, NEW s \in Transmissions, NEW j \in Jobs, SubmitInvoice(k, s, j)
      PROVE  invoice[i].status = "ACCEPTED" /\ invoice'[i].ksef = invoice[i].ksef
  BY <1>3, <1>t DEF SubmitInvoice, InvoiceRow
<1>4. ASSUME NEW w \in Workers, HandlerEnds(w)
      PROVE  IsDocumentNext(invoice'[i].ksef, i) /\ doc'[invoice'[i].ksef].verdict = "accepted"
  <2>1. CASE invoice' = invoice
    BY <1>1, <2>1
  <2>2. CASE invoice' # invoice
    <3>1. PICK ref \in Refs \union {NoRef} :
            /\ SyncInvoice(RunningInvoice(w), tx'[RunningTx(w)].status, ref)
            /\ tx'[RunningTx(w)].status = "SUCCESS" => tx'[RunningTx(w)].ksef = ref
      BY <1>4, <2>2 DEF HandlerEnds, GoesOn, Waits, Ends
    <3>2. Busy(w) /\ RunningTx(w) \in Transmissions /\ RunningInvoice(w) \in Invoices
          /\ tx'[RunningTx(w)].invoice = RunningInvoice(w)
      BY <1>4, RunningRows DEF HandlerEnds, CommitsJob, RunningInvoice
    <3>3. /\ \A k \in Invoices : k # RunningInvoice(w) => invoice'[k] = invoice[k]
          /\ invoice'[RunningInvoice(w)] =
               Synced(invoice[RunningInvoice(w)], tx'[RunningTx(w)].status, ref)
      BY <3>1, <3>2, SyncKeepsInvoices
    <3>4. CASE invoice'[i] = invoice[i]
      BY <1>1, <3>4
    <3>5. CASE invoice'[i] # invoice[i]
      <4>1. i = RunningInvoice(w) /\ tx'[RunningTx(w)].status = "SUCCESS" /\ invoice'[i].ksef = ref
        <5> DEFINE status == tx'[RunningTx(w)].status
        <5>1. i = RunningInvoice(w) /\ invoice'[i] = Synced(invoice[i], status, ref)
          BY <3>3, <3>5
        <5>2. invoice[i] \in InvoiceRow
          BY <1>t
        <5> HIDE DEF status
        <5>3. status = "SUCCESS" /\ invoice'[i].ksef = ref
          BY <5>1, <5>2, <3>5 DEF Synced, InvoiceRow
        <5> QED
          BY <5>1, <5>3 DEF status
      <4>2. IsDocumentNext(ref, i) /\ doc'[ref].verdict = "accepted"
        BY <3>1, <3>2, <4>1, SuccessNext DEF SuccessIsReal, IsDocumentOf, IsDocumentNext
      <4> QED
        BY <4>1, <4>2
    <3> QED
      BY <3>4, <3>5
  <2> QED
    BY <2>1, <2>2
<1>5. CASE invoice' = invoice
  BY <1>1, <1>5
<1> QED
  BY <1>1, <1>2, <1>3, <1>4, <1>5, OtherSteps
     DEF RetryTransmission, Deliver, Begin, KSeFStep, KSeFDecides, dbVars

\* Every reference, number and document belongs to the invoice it is stored
\* with, and no document carries a content the invoice never had.
THEOREM LinksCorrect == Spec => []LinksAreReal
<1>1. RowsAreLinked /\ LinksAreReal /\ [Next]_vars => LinksAreReal'
  BY DocumentsNext, RunsNext, PollsNext, SuccessNext, NumberNext DEF LinksAreReal
<1> QED
  BY <1>1, LinksInit, RowsCorrect, PTL DEF Spec

\* An ACCEPTED invoice carries the number of a document of its own that KSeF
\* accepted: no crash, retry, stale batch or change of session ever attributes
\* a number to another invoice (app/worker/job_handlers/poll_ksef_status.py:88-111).
THEOREM NumbersAreReal == Spec => []NumberIsReal
<1>1. LinksAreReal => NumberIsReal
  BY DEF LinksAreReal
<1> QED
  BY <1>1, LinksCorrect, PTL

\* The whole inductive invariant.
THEOREM InvariantHolds == Spec => []IInv
<1>1. RowsAreLinked /\ LinksAreReal /\ InFlightHasJob /\ SendingIsOwned => IInv
  BY DEF IInv
<1> QED
  BY <1>1, RowsCorrect, LinksCorrect, NothingIsForgotten, SendingIsNotOrphaned, PTL

-----------------------------------------------------------------------------
(* The pipeline implements the promise of InvoiceDelivery                   *)

statusOf == [i \in Invoices |-> invoice[i].status]
editionOf == [i \in Invoices |-> invoice[i].edition]

LEMMA DeliveryInit == Init => Delivery!Init
<1> SUFFICES ASSUME Init PROVE Delivery!Init
  OBVIOUS
<1>1. statusOf = [i \in Invoices |-> "READY"] /\ editionOf = [i \in Invoices |-> 0]
  BY DEF Init, statusOf, editionOf
<1>2. AcceptedDocuments = {}
  BY DEF Init, AcceptedDocuments
<1> QED
  BY <1>1, <1>2 DEF Delivery!Init, statusOf, editionOf

\* A step that changes no invoice row and no verdict of a document is a stutter.
LEMMA DeliveryStutter ==
  ASSUME statusOf' = statusOf, editionOf' = editionOf, AcceptedDocuments' = AcceptedDocuments
  PROVE  UNCHANGED Delivery!vars
BY DEF Delivery!vars, statusOf, editionOf

\* The decision a handler writes to an invoice is a Confirm or a Refuse.
LEMMA EndsIsDecision ==
  ASSUME RowsAreLinked, LinksAreReal, LinksAreReal', [Next]_vars, NEW w \in Workers, HandlerEnds(w)
  PROVE  [Delivery!Next]_(Delivery!vars)
<1>t. invoice \in [Invoices -> InvoiceRow] /\ doc \in [Refs -> Document]
  BY DEF RowsAreLinked, TypeOK
<1>1. AcceptedDocuments' = AcceptedDocuments /\ doc' = doc
  BY DEF HandlerEnds, CommitsJob, AcceptedDocuments
<1>2. CASE invoice' = invoice
  BY <1>1, <1>2, DeliveryStutter DEF statusOf, editionOf
<1>3. CASE invoice' # invoice
  <2>1. PICK ref \in Refs \union {NoRef} :
          SyncInvoice(RunningInvoice(w), tx'[RunningTx(w)].status, ref)
    BY <1>3 DEF HandlerEnds, GoesOn, Waits, Ends
  <2>2. PICK i \in Invoices : i = RunningInvoice(w)
    BY RunningRows DEF HandlerEnds, CommitsJob
  <2>3. /\ \A k \in Invoices : k # i => invoice'[k] = invoice[k]
        /\ \A k \in Invoices : invoice'[k].edition = invoice[k].edition
        /\ invoice'[i] = Synced(invoice[i], tx'[RunningTx(w)].status, ref)
        /\ invoice' \in [Invoices -> InvoiceRow]
    BY <2>1, <2>2, SyncKeepsInvoices
  <2>4. editionOf' = editionOf
    BY <2>3 DEF editionOf
  <2>5. CASE invoice'[i].status = invoice[i].status
    <3>1. statusOf' = statusOf
      BY <2>3, <2>5 DEF statusOf
    <3> QED
      BY <1>1, <2>4, <3>1, DeliveryStutter
  <2>6. CASE invoice'[i].status # invoice[i].status
    <3>1. /\ invoice[i].status = "SENDING"
          /\ invoice'[i].status \in {"ACCEPTED", "REJECTED"}
      BY <1>t, <2>3, <2>6 DEF Synced, InvoiceRow
    <3>2. statusOf' = [statusOf EXCEPT ![i] = invoice'[i].status] /\ statusOf[i] = "SENDING"
      BY <1>t, <2>3, <3>1 DEF statusOf
    <3>3. CASE invoice'[i].status = "REJECTED"
      BY <1>1, <2>4, <3>2, <3>3
         DEF Delivery!Next, Delivery!Refuse, statusOf, editionOf
    <3>4. CASE invoice'[i].status = "ACCEPTED"
      <4>1. PICK r \in Refs : doc'[r].invoice = i /\ doc'[r].verdict = "accepted"
        BY <3>4 DEF LinksAreReal, NumberIsReal, DocumentsOf
      <4>2. /\ doc[r].invoice = i /\ doc[r].verdict = "accepted"
            /\ doc[r].edition <= invoice[i].edition
        BY <1>1, <4>1 DEF LinksAreReal, DocumentsAreLinked
      <4>3. doc[r].edition \in 0..editionOf[i]
        BY <1>t, <4>2 DEF editionOf, Document, InvoiceRow
      <4>4. <<i, doc[r].edition>> \in AcceptedDocuments
        BY <4>2 DEF AcceptedDocuments
      <4>5. Delivery!Confirm(i)
        BY <1>1, <2>4, <3>2, <3>4, <4>3, <4>4 DEF Delivery!Confirm, statusOf, editionOf
      <4> QED
        BY <4>5 DEF Delivery!Next
    <3> QED
      BY <3>1, <3>3, <3>4
  <2> QED
    BY <2>5, <2>6
<1> QED
  BY <1>2, <1>3

\* The verdict of KSeF on a document is an acceptance of its invoice or a stutter.
LEMMA VerdictIsAcceptance ==
  ASSUME RowsAreLinked, LinksAreReal, KSeFStep
  PROVE  [Delivery!Next]_(Delivery!vars)
<1>1. PICK r \in Refs, verdict \in Verdicts \ {"pending"} : KSeFDecides(r, verdict)
  BY DEF KSeFStep
<1>2. doc \in [Refs -> Document] /\ invoice \in [Invoices -> InvoiceRow]
  BY DEF RowsAreLinked, TypeOK
<1>3. statusOf' = statusOf /\ editionOf' = editionOf
  BY <1>1 DEF KSeFDecides, dbVars, statusOf, editionOf
<1>4. /\ doc[r].verdict = "pending" /\ doc'[r].verdict = verdict
      /\ doc'[r].invoice = doc[r].invoice /\ doc'[r].edition = doc[r].edition
      /\ \A s \in Refs : s # r => doc'[s] = doc[s]
  BY <1>1, <1>2 DEF KSeFDecides, Document
<1>5. CASE verdict # "accepted"
  <2>1. \A s \in Refs : /\ doc'[s].verdict = "accepted" <=> doc[s].verdict = "accepted"
                        /\ doc'[s].invoice = doc[s].invoice /\ doc'[s].edition = doc[s].edition
    BY <1>4, <1>5
  <2>2. AcceptedDocuments' = AcceptedDocuments
    BY <2>1 DEF AcceptedDocuments
  <2> QED
    BY <1>3, <2>2, DeliveryStutter
<1>6. CASE verdict = "accepted"
  <2>1. PICK i \in Invoices : /\ doc[r].invoice = i /\ invoice[i].status # "READY"
                              /\ doc[r].edition <= invoice[i].edition
    BY <1>4 DEF LinksAreReal, DocumentsAreLinked
  <2>2. PICK e \in 0..editionOf[i] : e = doc[r].edition
    BY <1>2, <2>1 DEF editionOf, Document, InvoiceRow
  <2>3. AcceptedDocuments' = AcceptedDocuments \union {<<i, e>>}
    BY <1>4, <1>6, <2>1, <2>2 DEF AcceptedDocuments
  <2>4. statusOf[i] # "READY"
    BY <2>1 DEF statusOf
  <2>5. Delivery!KSeFAccepts(i)
    BY <1>3, <2>2, <2>3, <2>4 DEF Delivery!KSeFAccepts, statusOf, editionOf
  <2> QED
    BY <2>5 DEF Delivery!Next
<1> QED
  BY <1>5, <1>6

LEMMA DeliveryNext ==
  ASSUME RowsAreLinked, LinksAreReal, LinksAreReal', [Next]_vars
  PROVE  [Delivery!Next]_(Delivery!vars)
<1>t. invoice \in [Invoices -> InvoiceRow] /\ doc \in [Refs -> Document]
  BY DEF RowsAreLinked, TypeOK
<1>1. ASSUME NEW i \in Invoices, UpdateInvoice(i) PROVE Delivery!Edit(i)
  <2>1. /\ statusOf' = statusOf /\ statusOf[i] \in {"READY", "REJECTED"}
        /\ editionOf' = [editionOf EXCEPT ![i] = @ + 1]
        /\ AcceptedDocuments' = AcceptedDocuments
    BY <1>1, <1>t
       DEF UpdateInvoice, EditableStatuses, statusOf, editionOf, AcceptedDocuments, InvoiceRow
  <2> QED
    BY <2>1 DEF Delivery!Edit, Delivery!Editable, statusOf, editionOf
<1>2. ASSUME NEW i \in Invoices, NEW t \in Transmissions, NEW j \in Jobs, SubmitInvoice(i, t, j)
      PROVE  Delivery!HandOver(i)
  <2>1. /\ statusOf' = [statusOf EXCEPT ![i] = "SENDING"]
        /\ editionOf' = editionOf
        /\ AcceptedDocuments' = AcceptedDocuments
        /\ statusOf[i] = "READY" \/ (statusOf[i] = "REJECTED" /\ i \in Sale)
    BY <1>2, <1>t
       DEF SubmitInvoice, CanBeSubmitted, statusOf, editionOf, AcceptedDocuments, InvoiceRow
  <2> QED
    BY <2>1 DEF Delivery!HandOver, statusOf, editionOf
<1>3. ASSUME NEW w \in Workers, NEW r \in Refs, Deliver(w, r)
      PROVE  UNCHANGED Delivery!vars
  <2>1. \A s \in Refs : doc'[s].verdict = "accepted" \/ doc[s].verdict = "accepted" => doc'[s] = doc[s]
    BY <1>3, <1>t DEF Deliver
  <2>2. AcceptedDocuments' = AcceptedDocuments
    BY <2>1 DEF AcceptedDocuments
  <2>3. statusOf' = statusOf /\ editionOf' = editionOf
    BY <1>3 DEF Deliver, dbVars, statusOf, editionOf
  <2> QED
    BY <2>2, <2>3, DeliveryStutter
<1>4. CASE invoice' = invoice /\ doc' = doc
  BY <1>4, DeliveryStutter DEF statusOf, editionOf, AcceptedDocuments
<1>5. \/ \E i \in Invoices : UpdateInvoice(i)
      \/ \E i \in Invoices, t \in Transmissions, j \in Jobs : SubmitInvoice(i, t, j)
      \/ \E w \in Workers : HandlerEnds(w)
      \/ \E w \in Workers, r \in Refs : Deliver(w, r)
      \/ KSeFStep
      \/ invoice' = invoice /\ doc' = doc
  BY OtherSteps DEF RetryTransmission, Begin, dbVars
<1> QED
  BY <1>1, <1>2, <1>3, <1>4, <1>5, EndsIsDecision, VerdictIsAcceptance DEF Delivery!Next

\* The submission pipeline implements InvoiceDelivery: whatever the workers,
\* the network and the sessions do, an invoice is edited only while READY or
\* REJECTED, is handed over only from there, and becomes ACCEPTED only after
\* KSeF accepted a document with a content the invoice has or had.
THEOREM PipelineDelivers == Spec => DeliverySpec
<1>1. RowsAreLinked /\ LinksAreReal /\ LinksAreReal' /\ [Next]_vars
        => [Delivery!Next]_(Delivery!vars)
  BY DeliveryNext
<1> QED
  BY <1>1, DeliveryInit, RowsCorrect, LinksCorrect, PTL DEF Spec, DeliverySpec, Delivery!Spec

-----------------------------------------------------------------------------
(* The deployment: one worker process, sale invoices                        *)

Deployed ==
  Deployment /\ RowsAreLinked /\ LinksAreReal /\ SendingIsOwned /\ DeploymentIInv

\* A job in progress is the only pending job of its transmission, which is in
\* flight and holds its invoice in SENDING.
LEMMA RunningIsInFlight ==
  ASSUME Deployed, NEW w \in Workers, Busy(w)
  PROVE  /\ run[w].job \in Jobs
         /\ job[run[w].job].status = "pending"
         /\ \A j \in Jobs : job[j].status = "pending" /\ job[j].tx = RunningTx(w) => j = run[w].job
         /\ RunningTx(w) \in Transmissions
         /\ InFlight(RunningTx(w)) /\ Undecided(RunningTx(w))
         /\ RunningInvoice(w) \in Invoices
         /\ invoice[RunningInvoice(w)].status = "SENDING"
<1>1. /\ run[w].job \in Jobs /\ RunningTx(w) \in Transmissions /\ RunningInvoice(w) \in Invoices
  BY RunningRows DEF Deployed
<1>2. job[run[w].job].status = "pending"
  BY <1>1 DEF Deployed, DeploymentIInv, MemoryIsPending, Remembered
<1>3. /\ InFlight(RunningTx(w))
      /\ \A j \in Jobs : job[j].status = "pending" /\ job[j].tx = RunningTx(w) => j = run[w].job
  BY <1>1, <1>2 DEF Deployed, DeploymentIInv, PendingIsInFlight, RunningTx
<1>4. Undecided(RunningTx(w))
  BY <1>3 DEF InFlight, InFlightStatuses, Undecided, RetryableStatuses
<1>5. invoice[RunningInvoice(w)].status = "SENDING"
  BY <1>1, <1>4 DEF Deployed, DeploymentIInv, UndecidedHoldsInvoice, RunningInvoice
<1> QED
  BY <1>1, <1>2, <1>3, <1>4, <1>5

\* The same of a pending job nobody works on.
LEMMA PendingIsSending ==
  ASSUME Deployed, NEW j \in Jobs, job[j].status = "pending"
  PROVE  /\ job[j].tx \in Transmissions
         /\ InFlight(job[j].tx) /\ Undecided(job[j].tx)
         /\ tx[job[j].tx].invoice \in Invoices
         /\ invoice[tx[job[j].tx].invoice].status = "SENDING"
<1>1. job[j].tx \in Transmissions /\ tx[job[j].tx].invoice \in Invoices
  BY DEF Deployed, RowsAreLinked, JobsAreLinked, TransmissionsAreLinked
<1>2. InFlight(job[j].tx)
  BY DEF Deployed, DeploymentIInv, PendingIsInFlight
<1>3. Undecided(job[j].tx)
  BY <1>2 DEF InFlight, InFlightStatuses, Undecided, RetryableStatuses
<1> QED
  BY <1>1, <1>2, <1>3 DEF Deployed, DeploymentIInv, UndecidedHoldsInvoice

\* A manual retry finds its invoice in SENDING and is refused.
LEMMA RetryIsRefused ==
  ASSUME Deployed, NEW t \in Transmissions
  PROVE  ~CanBeRetried(t)
<1> SUFFICES ASSUME CanBeRetried(t) PROVE FALSE
  OBVIOUS
<1>1. tx[t].status \in RetryableStatuses
  BY DEF CanBeRetried
<1>2. tx[t].invoice \in Sale
  BY <1>1
     DEF Deployed, Deployment, RowsAreLinked, TransmissionsAreLinked, RetryableStatuses
<1>3. invoice[tx[t].invoice].status = "SENDING"
  BY <1>1 DEF Deployed, DeploymentIInv, UndecidedHoldsInvoice, Undecided
<1> QED
  BY <1>2, <1>3 DEF CanBeRetried, CanBeSubmitted

\* The job of worker w is closed ...
Closed(w, j) == IF j = run[w].job THEN [job[j] EXCEPT !.status = "done"] ELSE job[j]
\* ... and the job table is otherwise as it was, but for row k.
PassesOn(w, k, next) ==
  /\ k = run[w].job \/ job[k].status # "pending"
  /\ \A v \in Workers : k \notin batch[v] \/ k = run[w].job
  /\ \A j \in Jobs : job'[j] = IF j = k THEN next ELSE Closed(w, j)

\* The job table after a handler.
LEMMA JobsAfter ==
  ASSUME Deployed, NEW w \in Workers, HandlerEnds(w)
  PROVE  \/ /\ Waits(w) \/ Ends(w)
            /\ \A j \in Jobs : job'[j] = Closed(w, j)
         \/ /\ GoesOn(w)
            /\ \E k \in Jobs, kind \in {"submit", "poll"}, ref \in Refs \union {NoRef} :
                 /\ PassesOn(w, k, PendingJob(kind, RunningTx(w), ref))
                 /\ kind = "submit" => Submitting(w) /\ ref = NoRef
                 /\ kind = "poll" => \/ Delivered(w) /\ ref = run[w].ref
                                     \/ Polling(w) /\ ref = job[run[w].job].ref
<1>1. Busy(w) /\ run[w].job \in Jobs
  BY RunningIsInFlight DEF HandlerEnds, CommitsJob
<1>2. job \in [Jobs -> JobRow]
  BY DEF Deployed, RowsAreLinked, TypeOK
<1>3. CASE Waits(w) \/ Ends(w)
  <2>1. job' = [job EXCEPT ![run[w].job].status = "done"]
    BY <1>3 DEF Waits, Ends, JobDone, Done
  <2> QED
    BY <1>1, <1>2, <1>3, <2>1 DEF Closed
<1>4. CASE GoesOn(w)
  <2>1. PICK k \in Jobs, kind \in {"submit", "poll"}, ref \in Refs \union {NoRef} :
          /\ JobDoneAndNext(w, k, PendingJob(kind, RunningTx(w), ref))
          /\ kind = "submit" => Submitting(w) /\ ref = NoRef
          /\ kind = "poll" => \/ Delivered(w) /\ ref = run[w].ref
                              \/ Polling(w) /\ ref = job[run[w].job].ref
    BY <1>4 DEF GoesOn
  <2>2. job' = [[job EXCEPT ![run[w].job].status = "done"]
                  EXCEPT ![k] = PendingJob(kind, RunningTx(w), ref)]
    BY <2>1 DEF JobDoneAndNext, Done
  <2>3. \A j \in Jobs : job'[j] = IF j = k THEN PendingJob(kind, RunningTx(w), ref) ELSE Closed(w, j)
    BY <1>1, <1>2, <2>2 DEF Closed
  <2>4. /\ k = run[w].job \/ job[k].status # "pending"
        /\ \A v \in Workers : k \notin batch[v] \/ k = run[w].job
    BY <2>1 DEF JobDoneAndNext, NextRow, FreshRow, Remembered
  <2> QED
    BY <1>4, <2>1, <2>3, <2>4 DEF PassesOn
<1> QED
  BY <1>3, <1>4 DEF HandlerEnds

\* Nothing is enqueued, sent or decided yet.
LEMMA DeploymentInit == Init /\ Deployment => Deployed
<1> SUFFICES ASSUME Init, Deployment PROVE Deployed
  OBVIOUS
<1>1. RowsAreLinked /\ LinksAreReal
  BY RowsInit, LinksInit
<1>2. SendingIsOwned
  BY DEF Init, SendingIsOwned
<1>3. MemoryIsPending
  BY NullAssumption DEF Init, MemoryIsPending, Remembered, Busy, Idle
<1>4. PendingIsInFlight /\ UndecidedHoldsInvoice /\ SuccessIsAcceptance
  BY DEF Init, PendingIsInFlight, UndecidedHoldsInvoice, SuccessIsAcceptance, Undecided,
         ActiveStatuses, RetryableStatuses
<1>5. ContentIsCurrent /\ RefsAreOfPolls /\ KnownIsSettled
  BY DEF Init, ContentIsCurrent, RefsAreOfPolls, KnownIsSettled, Busy, Delivered, Idle
<1> QED
  BY <1>1, <1>2, <1>3, <1>4, <1>5 DEF Deployed, DeploymentIInv

\* The worker remembers pending jobs only: it is alone to finish them.
LEMMA MemoryNext ==
  ASSUME Deployed, [Next]_vars
  PROVE  MemoryIsPending'
<1> SUFFICES ASSUME NEW w \in Workers
             PROVE  /\ \A j \in Jobs : j \in batch'[w] \/ run'[w].job = j => job'[j].status = "pending"
                    /\ run'[w].job # NoJob => run'[w].job \notin batch'[w]
  BY DEF MemoryIsPending, Remembered, Busy
<1> DEFINE Goal == /\ \A j \in Jobs : j \in batch'[w] \/ run'[w].job = j => job'[j].status = "pending"
                   /\ run'[w].job # NoJob => run'[w].job \notin batch'[w]
<1>t. /\ job \in [Jobs -> JobRow] /\ run \in [Workers -> Run] /\ batch \in [Workers -> SUBSET Jobs]
      /\ RowsAreLinked
  BY DEF Deployed, RowsAreLinked, TypeOK
<1>a. /\ \A j \in Jobs : j \in batch[w] \/ run[w].job = j => job[j].status = "pending"
      /\ run[w].job # NoJob => run[w].job \notin batch[w]
  BY DEF Deployed, DeploymentIInv, MemoryIsPending, Remembered, Busy
<1>o. \A v \in Workers : v = w
  BY DEF Deployed, Deployment
<1>1. ASSUME batch' = batch, run'[w].job = run[w].job,
             \A j \in Jobs : job[j].status = "pending" => job'[j].status = "pending"
      PROVE  Goal
  BY <1>1, <1>a
<1>2. ASSUME NEW i \in Invoices, NEW t \in Transmissions, NEW j \in Jobs, SubmitInvoice(i, t, j)
      PROVE  Goal
  BY <1>1, <1>2, <1>t DEF SubmitInvoice, workerVars, PendingJob
<1>3. ASSUME NEW t \in Transmissions, NEW j \in Jobs, RetryTransmission(t, j) PROVE Goal
  BY <1>3, RetryIsRefused DEF RetryTransmission
<1>4. ASSUME NEW r \in Refs, Deliver(w, r) PROVE Goal
  <2>1. run'[w].job = run[w].job /\ batch' = batch /\ job' = job
    BY <1>4, <1>t DEF Deliver, Run, dbVars
  <2> QED
    BY <1>1, <2>1
<1>5. CASE Claim(w)
  <2>1. PICK B \in SUBSET Claimable : batch' = [batch EXCEPT ![w] = B]
    BY <1>5 DEF Claim
  <2>2. run' = run /\ job' = job /\ run[w].job = NoJob
    BY <1>5 DEF Claim, dbVars, Busy
  <2> QED
    BY <2>1, <2>2, <1>t, NullAssumption DEF Claimable
<1>6. ASSUME NEW j \in Jobs, Begin(w, j) PROVE Goal
  <2>1. batch'[w] = batch[w] \ {j} /\ run'[w].job = j /\ job' = job /\ j \in batch[w]
    BY <1>6, <1>t DEF Begin, dbVars
  <2> QED
    BY <2>1, <1>a
<1>7. ASSUME RolledBack(w) PROVE Goal
  <2>1. batch'[w] = {} /\ run'[w].job = NoJob
    BY <1>7, <1>t DEF RolledBack, Idle
  <2> QED
    BY <2>1, NullAssumption
<1>8. CASE HandlerEnds(w)
  <2>1. batch' = batch /\ run'[w].job = NoJob /\ Busy(w)
    BY <1>8, <1>t DEF HandlerEnds, CommitsJob, Committed, Idle
  <2>2. SUFFICES ASSUME NEW j \in Jobs, j \in batch[w] PROVE job'[j].status = "pending"
    BY <2>1, NullAssumption
  <2>3. job[j].status = "pending" /\ j # run[w].job
    BY <1>a, <2>1, <2>2 DEF Busy
  <2>4. \A k \in Jobs : \A next : PassesOn(w, k, next) => k # j
    BY <2>2, <2>3 DEF PassesOn
  <2> QED
    BY <1>8, <2>3, <2>4, JobsAfter DEF PassesOn, Closed
<1>9. CASE UNCHANGED <<job, batch, run>>
  BY <1>1, <1>9
<1>10. \/ \E i \in Invoices, t \in Transmissions, j \in Jobs : SubmitInvoice(i, t, j)
       \/ \E t \in Transmissions, j \in Jobs : RetryTransmission(t, j)
       \/ \E r \in Refs : Deliver(w, r)
       \/ Claim(w)
       \/ \E j \in Jobs : Begin(w, j)
       \/ RolledBack(w)
       \/ HandlerEnds(w)
       \/ UNCHANGED <<job, batch, run>>
  <2>1. ASSUME NEW v \in Workers, WorkerStep(v) \/ Crash(v)
        PROVE  \/ \E r \in Refs : Deliver(w, r)
               \/ Claim(w)
               \/ \E j \in Jobs : Begin(w, j)
               \/ RolledBack(w)
               \/ HandlerEnds(w)
    BY <1>o, <1>t, <2>1, HandlerOutcome DEF WorkerStep, Crash, PollAborts
  <2>2. CASE OpenSession \/ CloseSession \/ CheckConnection \/ SessionTimesOut \/ KSeFStep
             \/ (\E i \in Invoices : UpdateInvoice(i)) \/ UNCHANGED vars
    BY <2>2 DEF OpenSession, CloseSession, CheckConnection, SessionTimesOut, KSeFStep, KSeFDecides,
         UpdateInvoice, dbVars, workerVars, vars
  <2> QED
    BY <2>1, <2>2 DEF Next, HttpStep
<1> QED
  BY <1>2, <1>3, <1>4, <1>5, <1>6, <1>7, <1>8, <1>9, <1>10

\* A transmission keeps one pending job, while it is in flight.
LEMMA PendingNext ==
  ASSUME Deployed, [Next]_vars
  PROVE  PendingIsInFlight'
<1> USE DEF InFlight
<1> SUFFICES ASSUME NEW j \in Jobs, job'[j].status = "pending"
             PROVE  /\ tx'[job'[j].tx].status \in InFlightStatuses
                    /\ \A k \in Jobs : job'[k].status = "pending" /\ job'[k].tx = job'[j].tx => k = j
  BY DEF PendingIsInFlight
<1> DEFINE Goal == /\ tx'[job'[j].tx].status \in InFlightStatuses
                   /\ \A k \in Jobs : job'[k].status = "pending" /\ job'[k].tx = job'[j].tx => k = j
<1>t. /\ job \in [Jobs -> JobRow] /\ tx \in [Transmissions -> TransmissionRow]
      /\ RowsAreLinked
  BY DEF Deployed, RowsAreLinked, TypeOK
<1>a. \A k \in Jobs : job[k].status = "pending" =>
        /\ job[k].tx \in Transmissions
        /\ tx[job[k].tx].status \in InFlightStatuses
        /\ \A l \in Jobs : job[l].status = "pending" /\ job[l].tx = job[k].tx => l = k
  BY PendingIsSending DEF Deployed, DeploymentIInv, PendingIsInFlight
<1>1. ASSUME NEW i \in Invoices, NEW t \in Transmissions, NEW n \in Jobs, SubmitInvoice(i, t, n)
      PROVE  Goal
  <2>1. /\ tx[t].status = "unused" /\ tx'[t].status = "QUEUED"
        /\ \A s \in Transmissions : s # t => tx'[s] = tx[s]
        /\ job'[n].tx = t
        /\ \A k \in Jobs : k # n => job'[k] = job[k]
    BY <1>1, <1>t DEF SubmitInvoice, PendingJob
  <2>2. \A k \in Jobs : job[k].status = "pending" => job[k].tx # t
    BY <1>a, <2>1 DEF InFlightStatuses, ActiveStatuses
  <2> QED
    BY <1>a, <2>1, <2>2 DEF InFlightStatuses, ActiveStatuses
<1>2. ASSUME NEW t \in Transmissions, NEW n \in Jobs, RetryTransmission(t, n) PROVE Goal
  BY <1>2, RetryIsRefused DEF RetryTransmission
<1>3. ASSUME NEW w \in Workers, HandlerEnds(w) PROVE Goal
  <2>1. /\ run[w].job \in Jobs /\ job[run[w].job].status = "pending" /\ RunningTx(w) \in Transmissions
        /\ \A k \in Jobs : job[k].status = "pending" /\ job[k].tx = RunningTx(w) => k = run[w].job
        /\ \A t \in Transmissions : t # RunningTx(w) => tx'[t] = tx[t]
    BY <1>3, RunningIsInFlight DEF HandlerEnds, CommitsJob
  <2>2. \A k \in Jobs : Closed(w, k).status = "pending" =>
          job[k].status = "pending" /\ Closed(w, k) = job[k] /\ job[k].tx # RunningTx(w)
    BY <1>t, <2>1 DEF Closed, JobRow
  <2>3. CASE \A k \in Jobs : job'[k] = Closed(w, k)
    <3>1. \A k \in Jobs : job'[k].status = "pending" =>
            job[k].status = "pending" /\ job'[k] = job[k] /\ job[k].tx # RunningTx(w)
      BY <2>2, <2>3
    <3> QED
      BY <1>a, <2>1, <3>1
  <2>4. ASSUME GoesOn(w), NEW n \in Jobs, NEW kind, NEW ref,
               PassesOn(w, n, PendingJob(kind, RunningTx(w), ref))
        PROVE  Goal
    <3>1. job'[n].tx = RunningTx(w) /\ tx'[RunningTx(w)].status \in InFlightStatuses
      BY <2>4 DEF PassesOn, PendingJob, GoesOn
    <3>2. \A k \in Jobs : k # n /\ job'[k].status = "pending" =>
            job[k].status = "pending" /\ job'[k] = job[k] /\ job[k].tx # RunningTx(w)
      BY <2>2, <2>4 DEF PassesOn
    <3> QED
      BY <1>a, <2>1, <3>1, <3>2
  <2> QED
    BY <1>3, <2>3, <2>4, JobsAfter
<1>4. CASE UNCHANGED <<job, tx>>
  BY <1>4, <1>a
<1> QED
  BY <1>1, <1>2, <1>3, <1>4, <1>t, OtherSteps
     DEF UpdateInvoice, Deliver, Begin, KSeFStep, KSeFDecides, dbVars

\* What a handler does to the invoices: nothing while the transmission is
\* undecided, and the decision of an invoice that was SENDING.
LEMMA InvoicesAfter ==
  ASSUME Deployed, NEW w \in Workers, HandlerEnds(w)
  PROVE  /\ \A i \in Invoices : i # RunningInvoice(w) => invoice'[i] = invoice[i]
         /\ invoice'[RunningInvoice(w)].edition = invoice[RunningInvoice(w)].edition
         /\ \/ /\ invoice' = invoice
               /\ tx'[RunningTx(w)].status \in InFlightStatuses \union {"FAILED_RETRYABLE"}
            \/ /\ tx'[RunningTx(w)].status = "FAILED_PERMANENT"
               /\ invoice'[RunningInvoice(w)].status = "REJECTED"
            \/ /\ tx'[RunningTx(w)].status = "SUCCESS"
               /\ Polling(w)
               /\ tx'[RunningTx(w)].ksef = job[run[w].job].ref
               /\ doc[job[run[w].job].ref].verdict = "accepted"
               /\ invoice'[RunningInvoice(w)].status = "ACCEPTED"
               /\ invoice'[RunningInvoice(w)].ksef = job[run[w].job].ref
<1>1. /\ RunningTx(w) \in Transmissions /\ InFlight(RunningTx(w))
      /\ RunningInvoice(w) \in Invoices /\ invoice[RunningInvoice(w)].status = "SENDING"
  BY RunningIsInFlight DEF HandlerEnds, CommitsJob
<1>2. CASE GoesOn(w) \/ Waits(w)
  BY <1>2 DEF GoesOn, Waits
<1>3. CASE Ends(w)
  <2>1. PICK ref \in Refs \union {NoRef} :
          /\ SyncInvoice(RunningInvoice(w), tx'[RunningTx(w)].status, ref)
          /\ tx'[RunningTx(w)].status = "SUCCESS" =>
               /\ tx'[RunningTx(w)].ksef = ref
               /\ \/ tx' = tx
                  \/ /\ Polling(w) /\ ref = job[run[w].job].ref
                     /\ doc[ref].verdict = "accepted"
    BY <1>3 DEF Ends
  <2>2. /\ \A i \in Invoices : i # RunningInvoice(w) => invoice'[i] = invoice[i]
        /\ invoice'[RunningInvoice(w)].edition = invoice[RunningInvoice(w)].edition
        /\ invoice'[RunningInvoice(w)] =
             Synced(invoice[RunningInvoice(w)], tx'[RunningTx(w)].status, ref)
    BY <1>1, <2>1, SyncKeepsInvoices DEF Deployed
  <2>3. invoice[RunningInvoice(w)] \in InvoiceRow
    BY <1>1 DEF Deployed, RowsAreLinked, TypeOK
  <2>4. tx' # tx
    BY <1>1, <1>3 DEF Ends, TerminalStatuses, InFlight, InFlightStatuses, ActiveStatuses
  <2>5. CASE tx'[RunningTx(w)].status = "FAILED_PERMANENT"
    <3>1. invoice'[RunningInvoice(w)].status = "REJECTED"
      BY <1>1, <2>2, <2>3, <2>5 DEF Synced, InvoiceRow
    <3> QED
      BY <2>2, <2>5, <3>1
  <2>6. CASE tx'[RunningTx(w)].status = "SUCCESS"
    <3>1. invoice'[RunningInvoice(w)].status = "ACCEPTED" /\ invoice'[RunningInvoice(w)].ksef = ref
      BY <1>1, <2>2, <2>3, <2>6 DEF Synced, InvoiceRow
    <3> QED
      BY <2>1, <2>2, <2>4, <2>6, <3>1
  <2> QED
    BY <1>3, <2>5, <2>6 DEF Ends, TerminalStatuses
<1> QED
  BY <1>2, <1>3 DEF HandlerEnds

\* An undecided transmission holds its invoice alone.
LEMMA UndecidedNext ==
  ASSUME Deployed, [Next]_vars
  PROVE  UndecidedHoldsInvoice'
<1> DEFINE Open == ActiveStatuses \union RetryableStatuses
<1> SUFFICES ASSUME NEW t \in Transmissions, tx'[t].status \in Open
             PROVE  /\ invoice'[tx'[t].invoice].status = "SENDING"
                    /\ \A s \in Transmissions :
                         tx'[s].invoice = tx'[t].invoice /\ tx'[s].status \in Open => s = t
  BY DEF UndecidedHoldsInvoice, Undecided, TransmissionsOf
<1> DEFINE Goal == /\ invoice'[tx'[t].invoice].status = "SENDING"
                   /\ \A s \in Transmissions :
                        tx'[s].invoice = tx'[t].invoice /\ tx'[s].status \in Open => s = t
<1>t. /\ tx \in [Transmissions -> TransmissionRow] /\ invoice \in [Invoices -> InvoiceRow]
      /\ RowsAreLinked
  BY DEF Deployed, RowsAreLinked, TypeOK
<1>a. \A u \in Transmissions : tx[u].status \in Open =>
        /\ tx[u].invoice \in Invoices
        /\ invoice[tx[u].invoice].status = "SENDING"
        /\ \A s \in Transmissions :
             tx[s].invoice = tx[u].invoice /\ tx[s].status \in Open => s = u
  BY DEF Deployed, DeploymentIInv, UndecidedHoldsInvoice, Undecided, TransmissionsOf,
         RowsAreLinked, TransmissionsAreLinked, ActiveStatuses, RetryableStatuses
<1>1. ASSUME tx' = tx, \A i \in Invoices : invoice[i].status = "SENDING" => invoice'[i].status = "SENDING"
      PROVE  Goal
  BY <1>1, <1>a
<1>2. ASSUME NEW i \in Invoices, UpdateInvoice(i) PROVE Goal
  <2>1. \A k \in Invoices : invoice'[k].status = invoice[k].status
    BY <1>2, <1>t DEF UpdateInvoice, InvoiceRow
  <2> QED
    BY <1>1, <1>2, <2>1 DEF UpdateInvoice
<1>3. ASSUME NEW i \in Invoices, NEW n \in Transmissions, NEW j \in Jobs, SubmitInvoice(i, n, j)
      PROVE  Goal
  <2>1. /\ tx'[n].invoice = i /\ tx'[n].status = "QUEUED"
        /\ \A s \in Transmissions : s # n => tx'[s] = tx[s]
        /\ invoice'[i].status = "SENDING"
        /\ \A k \in Invoices : k # i => invoice'[k] = invoice[k]
    BY <1>3, <1>t DEF SubmitInvoice, InvoiceRow
  <2>2. invoice[i].status # "SENDING"
    BY <1>3 DEF SubmitInvoice, CanBeSubmitted
  <2>3. \A s \in Transmissions : tx[s].status \in Open => tx[s].invoice # i
    BY <1>a, <2>2
  <2> QED
    BY <1>a, <2>1, <2>3
<1>4. ASSUME NEW s \in Transmissions, NEW j \in Jobs, RetryTransmission(s, j) PROVE Goal
  BY <1>4, RetryIsRefused DEF RetryTransmission
<1>5. ASSUME NEW w \in Workers, HandlerEnds(w) PROVE Goal
  <2>1. /\ RunningTx(w) \in Transmissions /\ tx[RunningTx(w)].status \in Open
        /\ RunningInvoice(w) \in Invoices
        /\ \A s \in Transmissions : /\ s # RunningTx(w) => tx'[s] = tx[s]
                                    /\ tx'[s].invoice = tx[s].invoice
    BY <1>5, RunningIsInFlight DEF HandlerEnds, CommitsJob, Undecided
  <2>2. \A s \in Transmissions : tx'[s].status \in Open => tx[s].status \in Open
    BY <2>1
  <2>3. CASE t = RunningTx(w)
    <3>1. invoice' = invoice
      BY <1>5, <2>3, InvoicesAfter DEF ActiveStatuses, RetryableStatuses
    <3> QED
      BY <1>a, <2>1, <2>2, <3>1
  <2>4. CASE t # RunningTx(w)
    <3>1. tx[t].status \in Open /\ tx'[t].invoice = tx[t].invoice
      BY <2>1, <2>2
    <3>2. tx[t].invoice # RunningInvoice(w)
      BY <1>a, <2>1, <2>4, <3>1 DEF RunningInvoice
    <3>3. invoice'[tx[t].invoice] = invoice[tx[t].invoice]
      BY <1>5, <1>a, <3>1, <3>2, InvoicesAfter
    <3> QED
      BY <1>a, <2>1, <2>2, <3>1, <3>3
  <2> QED
    BY <2>3, <2>4
<1>6. CASE UNCHANGED <<tx, invoice>>
  BY <1>1, <1>6
<1> QED
  BY <1>2, <1>3, <1>4, <1>5, <1>6, <1>t, OtherSteps DEF Deliver, Begin, KSeFStep, KSeFDecides, dbVars

\* The number of a transmission is the number of its invoice, and every
\* ACCEPTED invoice has it from a transmission.
LEMMA AcceptanceNext ==
  ASSUME Deployed, [Next]_vars
  PROVE  SuccessIsAcceptance'
<1> DEFINE Shown(t) == /\ tx[t].ksef # NoRef => tx[t].status = "SUCCESS"
                       /\ tx[t].status = "SUCCESS" =>
                            /\ invoice[tx[t].invoice].status = "ACCEPTED"
                            /\ invoice[tx[t].invoice].ksef = tx[t].ksef
           ShownNext(t) == /\ tx'[t].ksef # NoRef => tx'[t].status = "SUCCESS"
                           /\ tx'[t].status = "SUCCESS" =>
                                /\ invoice'[tx'[t].invoice].status = "ACCEPTED"
                                /\ invoice'[tx'[t].invoice].ksef = tx'[t].ksef
           Has(i) == \E t \in Transmissions : tx[t].invoice = i /\ tx[t].status = "SUCCESS"
           HasNext(i) == \E t \in Transmissions : tx'[t].invoice = i /\ tx'[t].status = "SUCCESS"
           Goal == /\ \A t \in Transmissions : ShownNext(t)
                   /\ \A i \in Invoices : invoice'[i].status = "ACCEPTED" => HasNext(i)
<1>q. SUFFICES Goal
  BY DEF SuccessIsAcceptance, TransmissionsOf
<1>t. /\ tx \in [Transmissions -> TransmissionRow] /\ invoice \in [Invoices -> InvoiceRow]
      /\ RowsAreLinked
  BY DEF Deployed, RowsAreLinked, TypeOK
<1>l. \A t \in Transmissions : tx[t].status # "unused" => tx[t].invoice \in Invoices
  BY DEF Deployed, RowsAreLinked, TransmissionsAreLinked
<1>a. /\ \A t \in Transmissions : Shown(t)
      /\ \A i \in Invoices : invoice[i].status = "ACCEPTED" => Has(i)
  BY DEF Deployed, DeploymentIInv, SuccessIsAcceptance, TransmissionsOf
<1>1. ASSUME NEW i \in Invoices, UpdateInvoice(i) PROVE Goal
  <2>1. /\ tx' = tx
        /\ \A k \in Invoices : /\ invoice'[k].status = invoice[k].status
                               /\ invoice'[k].ksef = invoice[k].ksef
    BY <1>1, <1>t DEF UpdateInvoice, InvoiceRow
  <2> QED
    BY <1>a, <1>l, <2>1
<1>2. ASSUME NEW i \in Invoices, NEW n \in Transmissions, NEW j \in Jobs, SubmitInvoice(i, n, j)
      PROVE  Goal
  <2>1. /\ tx[n].status = "unused" /\ tx'[n].status = "QUEUED" /\ tx'[n].ksef = NoRef
        /\ \A s \in Transmissions : s # n => tx'[s] = tx[s]
        /\ invoice'[i].status = "SENDING"
        /\ \A k \in Invoices : k # i => invoice'[k] = invoice[k]
    BY <1>2, <1>t DEF SubmitInvoice, InvoiceRow
  <2>2. invoice[i].status # "ACCEPTED"
    BY <1>2 DEF SubmitInvoice, CanBeSubmitted
  <2>3. \A t \in Transmissions : tx[t].status = "SUCCESS" => tx[t].invoice # i /\ t # n
    BY <1>a, <2>1, <2>2
  <2>4. \A t \in Transmissions : ShownNext(t)
    BY <1>a, <1>l, <2>1, <2>3
  <2>5. \A k \in Invoices : invoice'[k].status = "ACCEPTED" => HasNext(k)
    BY <1>a, <2>1, <2>3
  <2> QED
    BY <2>4, <2>5
<1>3. ASSUME NEW s \in Transmissions, NEW j \in Jobs, RetryTransmission(s, j) PROVE Goal
  BY <1>3, RetryIsRefused DEF RetryTransmission
<1>4. ASSUME NEW w \in Workers, HandlerEnds(w) PROVE Goal
  <2>1. /\ RunningTx(w) \in Transmissions /\ tx[RunningTx(w)].status # "SUCCESS"
        /\ tx[RunningTx(w)].ksef = NoRef
        /\ RunningInvoice(w) \in Invoices /\ invoice[RunningInvoice(w)].status = "SENDING"
        /\ \A s \in Transmissions : /\ s # RunningTx(w) => tx'[s] = tx[s]
                                    /\ tx'[s].invoice = tx[s].invoice
    BY <1>4, <1>a, RunningIsInFlight
       DEF HandlerEnds, CommitsJob, InFlight, InFlightStatuses, ActiveStatuses
  <2>2. \A t \in Transmissions : tx[t].status = "SUCCESS" =>
          t # RunningTx(w) /\ tx[t].invoice # RunningInvoice(w)
    BY <1>a, <2>1
  <2>3. \A i \in Invoices : i # RunningInvoice(w) => invoice'[i] = invoice[i]
    BY <1>4, InvoicesAfter
  <2>4. \A t \in Transmissions : t # RunningTx(w) => ShownNext(t)
    BY <1>a, <1>l, <2>1, <2>2, <2>3
  <2>5. \A i \in Invoices : i # RunningInvoice(w) /\ invoice'[i].status = "ACCEPTED" => HasNext(i)
    BY <1>a, <2>1, <2>2, <2>3
  <2>6. tx'[RunningTx(w)].invoice = RunningInvoice(w)
    BY <2>1 DEF RunningInvoice
  <2>7. ShownNext(RunningTx(w))
    BY <1>4, <2>1, <2>6, InvoicesAfter DEF HandlerEnds, InFlightStatuses, ActiveStatuses
  <2>8. invoice'[RunningInvoice(w)].status = "ACCEPTED" => HasNext(RunningInvoice(w))
    BY <1>4, <2>1, <2>6, InvoicesAfter
  <2> QED
    BY <2>1, <2>4, <2>5, <2>7, <2>8
<1>5. CASE UNCHANGED <<tx, invoice>>
  BY <1>5, <1>a
<1> HIDE DEF Goal
<1> QED
  BY <1>1, <1>2, <1>3, <1>4, <1>5, <1>t, OtherSteps DEF Deliver, Begin, KSeFStep, KSeFDecides, dbVars

\* The content of an invoice that is being sent or was accepted stays.
LEMMA EditionStays ==
  ASSUME Deployed, [Next]_vars, NEW i \in Invoices, invoice[i].status \in {"SENDING", "ACCEPTED"}
  PROVE  invoice'[i].edition = invoice[i].edition
<1>t. invoice \in [Invoices -> InvoiceRow] /\ RowsAreLinked
  BY DEF Deployed, RowsAreLinked, TypeOK
<1>1. ASSUME NEW k \in Invoices, UpdateInvoice(k) PROVE invoice'[i].edition = invoice[i].edition
  <2>1. k # i
    BY <1>1 DEF UpdateInvoice, EditableStatuses
  <2> QED
    BY <1>1, <1>t, <2>1 DEF UpdateInvoice
<1>2. ASSUME NEW k \in Invoices, NEW t \in Transmissions, NEW j \in Jobs, SubmitInvoice(k, t, j)
      PROVE  invoice'[i].edition = invoice[i].edition
  BY <1>2, <1>t DEF SubmitInvoice, InvoiceRow
<1>3. ASSUME NEW w \in Workers, HandlerEnds(w) PROVE invoice'[i].edition = invoice[i].edition
  BY <1>3, InvoicesAfter
<1> QED
  BY <1>1, <1>2, <1>3, <1>t, OtherSteps
     DEF RetryTransmission, Deliver, Begin, KSeFStep, KSeFDecides, dbVars

\* A worker that is busy after a step was busy with it before, has just
\* begun, or has just delivered.
LEMMA BusySteps ==
  ASSUME Deployed, [Next]_vars, NEW w \in Workers, Busy(w)'
  PROVE  \/ run'[w] = run[w] /\ Busy(w)
         \/ \E r \in Refs : Deliver(w, r)
         \/ \E j \in Jobs : Begin(w, j)
<1>t. run \in [Workers -> Run] /\ RowsAreLinked /\ \A v \in Workers : v = w
  BY DEF Deployed, Deployment, RowsAreLinked, TypeOK
<1>1. ~HandlerEnds(w) /\ run'[w] # Idle
  BY <1>t DEF HandlerEnds, CommitsJob, Committed, Busy, Idle
<1>2. run'[w] = run[w] => Busy(w)
  BY DEF Busy
<1> QED
  BY <1>t, <1>1, <1>2, OtherSteps
     DEF UpdateInvoice, SubmitInvoice, RetryTransmission, KSeFStep, KSeFDecides, workerVars

\* A job in progress sends the content its invoice has now.
LEMMA RunsCurrentNext ==
  ASSUME Deployed, [Next]_vars, NEW w \in Workers, Busy(w)'
  PROVE  /\ run'[w].edition = invoice'[RunningInvoice(w)'].edition
         /\ run'[w].ref # NoRef => doc'[run'[w].ref].edition = invoice'[RunningInvoice(w)'].edition
<1> DEFINE Goal ==
      /\ run'[w].edition = invoice'[RunningInvoice(w)'].edition
      /\ run'[w].ref # NoRef => doc'[run'[w].ref].edition = invoice'[RunningInvoice(w)'].edition
<1>t. /\ run \in [Workers -> Run] /\ doc \in [Refs -> Document]
      /\ RowsAreLinked /\ RunsAreLinked
  BY DEF Deployed, LinksAreReal, RowsAreLinked, TypeOK
<1>a. ASSUME Busy(w), run'[w].job = run[w].job
      PROVE  /\ RunningInvoice(w)' = RunningInvoice(w)
             /\ run[w].edition = invoice'[RunningInvoice(w)].edition
             /\ run[w].ref # NoRef => doc'[run[w].ref].edition = invoice'[RunningInvoice(w)].edition
  <2>1. RunningInvoice(w)' = RunningInvoice(w)
    BY <1>a, <1>t, RunKeepsInvoice
  <2>2. invoice'[RunningInvoice(w)].edition = invoice[RunningInvoice(w)].edition
    BY <1>a, RunningIsInFlight, EditionStays
  <2>3. /\ run[w].edition = invoice[RunningInvoice(w)].edition
        /\ run[w].ref # NoRef => doc[run[w].ref].edition = invoice[RunningInvoice(w)].edition
    BY <1>a DEF Deployed, DeploymentIInv, ContentIsCurrent, Delivered
  <2>4. run[w].ref # NoRef => doc'[run[w].ref].edition = doc[run[w].ref].edition
    BY <1>a, <1>t, DocumentsStay DEF RunsAreLinked, Delivered
  <2> QED
    BY <2>1, <2>2, <2>3, <2>4
<1>1. CASE run'[w] = run[w] /\ Busy(w)
  BY <1>1, <1>a
<1>2. ASSUME NEW r \in Refs, Deliver(w, r) PROVE Goal
  <2>1. /\ Busy(w) /\ run'[w].job = run[w].job /\ run'[w].edition = run[w].edition
        /\ run'[w].ref = r /\ doc'[r].edition = run[w].edition
    BY <1>2, <1>t DEF Deliver, Submitting, Run
  <2> QED
    BY <1>a, <2>1
<1>3. ASSUME NEW j \in Jobs, Begin(w, j) PROVE Goal
  <2>1. /\ run'[w].job = j /\ run'[w].ref = NoRef
        /\ run'[w].edition = invoice[tx[job[j].tx].invoice].edition
    BY <1>3, <1>t DEF Begin
  <2>2. RunningInvoice(w)' = tx[job[j].tx].invoice /\ invoice' = invoice
    BY <1>3, <2>1 DEF Begin, dbVars, RunningInvoice, RunningTx
  <2> QED
    BY <2>1, <2>2
<1> QED
  BY <1>1, <1>2, <1>3, BusySteps

\* A pending poll job asks about the content its invoice has now.
LEMMA PollsCurrentNext ==
  ASSUME Deployed, [Next]_vars, NEW j \in Jobs, job'[j].status = "pending", job'[j].kind = "poll"
  PROVE  doc'[job'[j].ref].edition = invoice'[tx'[job'[j].tx].invoice].edition
<1>t. /\ job \in [Jobs -> JobRow] /\ RowsAreLinked /\ RunsAreLinked /\ PollsAreLinked
  BY DEF Deployed, LinksAreReal, RowsAreLinked, TypeOK
<1>a. ASSUME job'[j] = job[j]
      PROVE  doc'[job'[j].ref].edition = invoice'[tx'[job'[j].tx].invoice].edition
  <2>1. /\ doc[job[j].ref].edition = invoice[tx[job[j].tx].invoice].edition
        /\ IsDocumentOf(job[j].ref, tx[job[j].tx].invoice)
    BY <1>a, <1>t DEF Deployed, DeploymentIInv, ContentIsCurrent, PollsAreLinked
  <2>2. /\ tx[job[j].tx].status # "unused" /\ job[j].tx \in Transmissions
    BY <1>a, <1>t DEF RowsAreLinked, JobsAreLinked
  <2>3. tx'[job[j].tx].invoice = tx[job[j].tx].invoice
    BY <2>2, <1>t, TxKeepsInvoice
  <2>4. invoice'[tx[job[j].tx].invoice].edition = invoice[tx[job[j].tx].invoice].edition
    BY <1>a, PendingIsSending, EditionStays
  <2>5. doc'[job[j].ref].edition = doc[job[j].ref].edition
    BY <1>t, <2>1, DocumentsStay
  <2> QED
    BY <1>a, <2>1, <2>3, <2>4, <2>5
<1>1. ASSUME NEW n \in Jobs, NEW t, job' = [job EXCEPT ![n] = PendingJob("submit", t, NoRef)]
      PROVE  job'[j] = job[j]
  BY <1>1, <1>t DEF PendingJob
<1>2. ASSUME NEW w \in Workers, HandlerEnds(w), job'[j] # job[j]
      PROVE  doc'[job'[j].ref].edition = invoice'[tx'[job'[j].tx].invoice].edition
  <2>1. /\ run[w].job \in Jobs /\ RunningTx(w) \in Transmissions /\ Busy(w)
        /\ RunningInvoice(w) \in Invoices /\ invoice[RunningInvoice(w)].status = "SENDING"
        /\ tx'[RunningTx(w)].invoice = RunningInvoice(w)
        /\ doc' = doc
    BY <1>2, RunningIsInFlight DEF HandlerEnds, CommitsJob, RunningInvoice
  <2>2. ~\A k \in Jobs : job'[k] = Closed(w, k)
    BY <1>t, <1>2 DEF Closed, JobRow
  <2>3. PICK k \in Jobs, kind \in {"submit", "poll"}, ref \in Refs \union {NoRef} :
          /\ PassesOn(w, k, PendingJob(kind, RunningTx(w), ref))
          /\ kind = "poll" => \/ Delivered(w) /\ ref = run[w].ref
                              \/ Polling(w) /\ ref = job[run[w].job].ref
    BY <1>2, <2>2, JobsAfter
  <2>4. j = k
    BY <1>t, <1>2, <2>3 DEF PassesOn, Closed, JobRow
  <2>5. job'[j].tx = RunningTx(w) /\ job'[j].ref = ref /\ kind = "poll"
    BY <2>3, <2>4 DEF PassesOn, PendingJob
  <2>6. doc[ref].edition = invoice[RunningInvoice(w)].edition
    BY <2>1, <2>3, <2>5, RunningIsInFlight
       DEF Deployed, DeploymentIInv, ContentIsCurrent, Polling, RunningInvoice, RunningTx
  <2>7. invoice'[RunningInvoice(w)].edition = invoice[RunningInvoice(w)].edition
    BY <2>1, EditionStays
  <2> QED
    BY <2>1, <2>5, <2>6, <2>7
<1>3. CASE job' = job
  BY <1>3, <1>a
<1> QED
  BY <1>a, <1>1, <1>2, <1>3, <1>t, OtherSteps
     DEF UpdateInvoice, SubmitInvoice, RetryTransmission, Deliver, Begin, KSeFStep, KSeFDecides, dbVars

\* What KSeF accepted for a transmission is the content its invoice has now.
LEMMA SuccessCurrentNext ==
  ASSUME Deployed, [Next]_vars, NEW t \in Transmissions, tx'[t].status = "SUCCESS"
  PROVE  doc'[tx'[t].ksef].edition = invoice'[tx'[t].invoice].edition
<1>t. /\ tx \in [Transmissions -> TransmissionRow] /\ RowsAreLinked /\ SuccessIsReal
  BY DEF Deployed, LinksAreReal, RowsAreLinked, TypeOK
<1>a. ASSUME tx'[t] = tx[t]
      PROVE  doc'[tx'[t].ksef].edition = invoice'[tx'[t].invoice].edition
  <2>1. /\ doc[tx[t].ksef].edition = invoice[tx[t].invoice].edition
        /\ IsDocumentOf(tx[t].ksef, tx[t].invoice)
        /\ invoice[tx[t].invoice].status = "ACCEPTED"
    BY <1>a, <1>t
       DEF Deployed, DeploymentIInv, ContentIsCurrent, SuccessIsAcceptance, SuccessIsReal
  <2>2. tx[t].invoice \in Invoices
    BY <1>a, <1>t DEF RowsAreLinked, TransmissionsAreLinked
  <2>3. /\ invoice'[tx[t].invoice].edition = invoice[tx[t].invoice].edition
        /\ doc'[tx[t].ksef].edition = doc[tx[t].ksef].edition
    BY <1>t, <2>1, <2>2, EditionStays, DocumentsStay
  <2> QED
    BY <1>a, <2>1, <2>3
<1>1. ASSUME NEW i \in Invoices, NEW s \in Transmissions, NEW j \in Jobs, SubmitInvoice(i, s, j)
      PROVE  tx'[t] = tx[t]
  BY <1>1, <1>t DEF SubmitInvoice
<1>2. ASSUME NEW s \in Transmissions, NEW j \in Jobs, RetryTransmission(s, j)
      PROVE  tx'[t] = tx[t]
  BY <1>2, RetryIsRefused DEF RetryTransmission
<1>3. ASSUME NEW w \in Workers, HandlerEnds(w), tx'[t] # tx[t]
      PROVE  doc'[tx'[t].ksef].edition = invoice'[tx'[t].invoice].edition
  <2>1. /\ t = RunningTx(w) /\ run[w].job \in Jobs /\ job[run[w].job].status = "pending"
        /\ RunningInvoice(w) \in Invoices /\ invoice[RunningInvoice(w)].status = "SENDING"
        /\ tx'[t].invoice = RunningInvoice(w) /\ doc' = doc
    BY <1>3, RunningIsInFlight DEF HandlerEnds, CommitsJob, RunningInvoice
  <2>2. Polling(w) /\ tx'[t].ksef = job[run[w].job].ref
    BY <1>3, <2>1, InvoicesAfter DEF InFlightStatuses, ActiveStatuses
  <2>3. doc[job[run[w].job].ref].edition = invoice[RunningInvoice(w)].edition
    BY <2>1, <2>2 DEF Deployed, DeploymentIInv, ContentIsCurrent, Polling, RunningInvoice, RunningTx
  <2>4. invoice'[RunningInvoice(w)].edition = invoice[RunningInvoice(w)].edition
    BY <2>1, EditionStays
  <2> QED
    BY <2>1, <2>2, <2>3, <2>4
<1>4. CASE tx' = tx
  BY <1>4, <1>a
<1> QED
  BY <1>a, <1>1, <1>2, <1>3, <1>4, <1>t, OtherSteps
     DEF UpdateInvoice, Deliver, Begin, KSeFStep, KSeFDecides, dbVars

\* The three together.
LEMMA ContentNext ==
  ASSUME Deployed, [Next]_vars
  PROVE  ContentIsCurrent'
BY RunsCurrentNext, PollsCurrentNext, SuccessCurrentNext DEF ContentIsCurrent, Delivered

\* Only a poll job carries a reference, and only a submit job gets one.
LEMMA RefsNext ==
  ASSUME Deployed, [Next]_vars
  PROVE  RefsAreOfPolls'
<1>t. /\ job \in [Jobs -> JobRow] /\ run \in [Workers -> Run] /\ RowsAreLinked
      /\ \A v, w \in Workers : v = w
  BY DEF Deployed, Deployment, RowsAreLinked, TypeOK
<1>a. /\ \A j \in Jobs : job[j].kind = "submit" => job[j].ref = NoRef
      /\ \A w \in Workers : run[w].ref # NoRef => Submitting(w)
  BY DEF Deployed, DeploymentIInv, RefsAreOfPolls, Delivered
<1>1. ASSUME NEW j \in Jobs, job'[j].kind = "submit" PROVE job'[j].ref = NoRef
  <2>1. ASSUME NEW n \in Jobs, NEW t, job' = [job EXCEPT ![n] = PendingJob("submit", t, NoRef)]
        PROVE  job'[j].ref = NoRef
    BY <1>1, <1>a, <1>t, <2>1 DEF PendingJob
  <2>2. ASSUME NEW w \in Workers, HandlerEnds(w) PROVE job'[j].ref = NoRef
    <3>1. /\ Closed(w, j).kind = job[j].kind
          /\ Closed(w, j).ref = job[j].ref
      BY <1>t DEF Closed, JobRow
    <3>2. CASE job'[j] = Closed(w, j)
      BY <1>1, <1>a, <3>1, <3>2
    <3>3. CASE job'[j] # Closed(w, j)
      <4>1. PICK k \in Jobs, kind \in {"submit", "poll"}, ref \in Refs \union {NoRef} :
              /\ PassesOn(w, k, PendingJob(kind, RunningTx(w), ref))
              /\ kind = "submit" => ref = NoRef
        BY <2>2, <3>3, JobsAfter
      <4> QED
        BY <1>1, <3>3, <4>1 DEF PassesOn, PendingJob
    <3> QED
      BY <3>2, <3>3
  <2>3. CASE job' = job
    BY <1>1, <1>a, <2>3
  <2> QED
    BY <1>t, <2>1, <2>2, <2>3, OtherSteps
       DEF UpdateInvoice, SubmitInvoice, RetryTransmission, Deliver, Begin, KSeFStep, KSeFDecides, dbVars
<1>2. ASSUME NEW w \in Workers, run'[w].ref # NoRef PROVE Submitting(w)'
  <2>1. CASE run'[w] = run[w]
    <3>1. Submitting(w) /\ Busy(w) /\ Busy(w)'
      BY <1>2, <1>a, <2>1 DEF Submitting, Busy
    <3>2. job'[run[w].job] = job[run[w].job]
      <4>1. run[w].job \in Jobs /\ Remembered(run[w].job, w)
        BY <3>1, RunningIsInFlight DEF Remembered
      <4>2. ASSUME NEW n \in Jobs, NEW t, FreshRow(n),
                   job' = [job EXCEPT ![n] = PendingJob("submit", t, NoRef)]
            PROVE  job'[run[w].job] = job[run[w].job]
        BY <1>t, <4>1, <4>2 DEF FreshRow
      <4>3. ~ \E v \in Workers : HandlerEnds(v)
        BY <1>t, <2>1, <3>1 DEF HandlerEnds, CommitsJob, Committed, Busy, Idle
      <4> QED
        BY <1>t, <4>2, <4>3, OtherSteps
           DEF UpdateInvoice, SubmitInvoice, RetryTransmission, Deliver, Begin, KSeFStep, KSeFDecides,
               dbVars
    <3> QED
      BY <2>1, <3>1, <3>2 DEF Submitting, Busy
  <2>2. ASSUME NEW r \in Refs, Deliver(w, r) PROVE Submitting(w)'
    <3>1. Submitting(w) /\ run'[w].job = run[w].job /\ job' = job
      BY <1>t, <2>2 DEF Deliver, Run, dbVars
    <3> QED
      BY <3>1 DEF Submitting, Busy
  <2>3. ASSUME NEW j \in Jobs, Begin(w, j) PROVE FALSE
    BY <1>2, <1>t, <2>3 DEF Begin
  <2>4. CASE ~Busy(w)' /\ run'[w] # run[w]
    <3>1. run'[w] = Idle \/ \E r \in Refs : Deliver(w, r)
      <4>1. CASE \E v \in Workers : HandlerEnds(v)
        BY <1>t, <4>1 DEF HandlerEnds, CommitsJob, Committed
      <4>2. CASE \E v \in Workers, j \in Jobs : Begin(v, j)
        BY <1>t, <2>3, <4>2
      <4>3. CASE \E v \in Workers, r \in Refs : Deliver(v, r)
        BY <1>t, <4>3
      <4> QED
        BY <1>t, <2>4, <4>1, <4>2, <4>3, OtherSteps
           DEF UpdateInvoice, SubmitInvoice, RetryTransmission, KSeFStep, KSeFDecides, workerVars
    <3> QED
      BY <1>2, <2>2, <3>1 DEF Idle
  <2> QED
    BY <2>1, <2>2, <2>3, <2>4, BusySteps
<1> QED
  BY <1>1, <1>2 DEF RefsAreOfPolls, Delivered

\* What a job was told of is rejected, on record, or asked about.
LEMMA KnownNext ==
  ASSUME Deployed, [Next]_vars
  PROVE  KnownIsSettled'
<1> DEFINE Settled(r) ==
             \/ doc[r].verdict = "rejected"
             \/ \E t \in Transmissions : tx[t].ksef = r
             \/ \E k \in Jobs : job[k].status = "pending" /\ job[k].kind = "poll" /\ job[k].ref = r
           SettledNext(r) ==
             \/ doc'[r].verdict = "rejected"
             \/ \E t \in Transmissions : tx'[t].ksef = r
             \/ \E k \in Jobs : job'[k].status = "pending" /\ job'[k].kind = "poll" /\ job'[k].ref = r
<1> SUFFICES ASSUME NEW j \in Jobs, job'[j].ref # NoRef PROVE SettledNext(job'[j].ref)
  BY DEF KnownIsSettled
<1>t. /\ job \in [Jobs -> JobRow] /\ tx \in [Transmissions -> TransmissionRow]
      /\ doc \in [Refs -> Document] /\ RowsAreLinked
  BY DEF Deployed, RowsAreLinked, TypeOK
<1>a. \A k \in Jobs : job[k].ref # NoRef => Settled(job[k].ref)
  BY DEF Deployed, DeploymentIInv, KnownIsSettled
<1>s. \A t \in Transmissions : tx[t].ksef # NoRef => tx[t].status = "SUCCESS"
  BY DEF Deployed, DeploymentIInv, SuccessIsAcceptance
\* A step that keeps the documents that were rejected, the numbers and the
\* pending poll jobs keeps what is settled.
<1>1. ASSUME NEW r, r # NoRef, Settled(r),
             doc[r].verdict = "rejected" => doc'[r].verdict = "rejected",
             \A t \in Transmissions : tx[t].ksef = r => tx'[t].ksef = r,
             \A k \in Jobs : job[k].status = "pending" /\ job[k].ref = r => job'[k] = job[k]
      PROVE  SettledNext(r)
  BY <1>1
<1>2. ASSUME NEW i \in Invoices, NEW s \in Transmissions, NEW n \in Jobs, SubmitInvoice(i, s, n)
      PROVE  SettledNext(job'[j].ref)
  <2>1. /\ doc' = doc /\ tx[s].status = "unused" /\ job[n].status # "pending"
        /\ \A t \in Transmissions : t # s => tx'[t] = tx[t]
        /\ \A k \in Jobs : k # n => job'[k] = job[k]
        /\ job'[n].ref = NoRef
    BY <1>2, <1>t DEF SubmitInvoice, FreshRow, PendingJob
  <2>2. job'[j] = job[j] /\ tx[s].ksef = NoRef
    BY <1>s, <2>1
  <2>3. Settled(job[j].ref)
    BY <1>a, <2>2
  <2> QED
    BY <1>1, <2>1, <2>2, <2>3
<1>3. ASSUME NEW s \in Transmissions, NEW n \in Jobs, RetryTransmission(s, n)
      PROVE  SettledNext(job'[j].ref)
  BY <1>3, RetryIsRefused DEF RetryTransmission
<1>4. ASSUME NEW w \in Workers, NEW r \in Refs, Deliver(w, r) PROVE SettledNext(job'[j].ref)
  <2>1. /\ tx' = tx /\ job' = job /\ doc[r].verdict = "none"
        /\ \A x \in Refs : x # r => doc'[x] = doc[x]
    BY <1>4, <1>t DEF Deliver, dbVars
  <2>2. Settled(job[j].ref)
    BY <1>a, <2>1
  <2>3. job[j].ref \in Refs
    BY <1>t, <2>1 DEF JobRow
  <2> QED
    BY <1>1, <2>1, <2>2, <2>3
<1>5. CASE KSeFStep
  <2>1. PICK r \in Refs, verdict \in Verdicts : KSeFDecides(r, verdict)
    BY <1>5 DEF KSeFStep
  <2>2. /\ tx' = tx /\ job' = job /\ doc[r].verdict = "pending"
        /\ \A x \in Refs : x # r => doc'[x] = doc[x]
    BY <1>t, <2>1 DEF KSeFDecides, dbVars
  <2>3. Settled(job[j].ref) /\ job[j].ref \in Refs
    BY <1>a, <1>t, <2>2 DEF JobRow
  <2> QED
    BY <1>1, <2>2, <2>3
<1>6. ASSUME NEW w \in Workers, HandlerEnds(w) PROVE SettledNext(job'[j].ref)
  <2>1. /\ run[w].job \in Jobs /\ job[run[w].job].status = "pending" /\ Busy(w)
        /\ RunningTx(w) \in Transmissions /\ tx[RunningTx(w)].ksef = NoRef
        /\ \A t \in Transmissions : t # RunningTx(w) => tx'[t] = tx[t]
        /\ doc' = doc
        /\ tx'[RunningTx(w)].status # tx[RunningTx(w)].status
             \/ tx'[RunningTx(w)].status \in InFlightStatuses
    BY <1>6, <1>s, RunningIsInFlight
       DEF HandlerEnds, CommitsJob, InFlight, InFlightStatuses, ActiveStatuses
  <2>2. \A t \in Transmissions : tx[t].ksef # NoRef => tx'[t].ksef = tx[t].ksef
    BY <2>1
  <2>3. \A k \in Jobs : /\ Closed(w, k).ref = job[k].ref /\ Closed(w, k).kind = job[k].kind
                        /\ k # run[w].job => Closed(w, k) = job[k]
    BY <1>t DEF Closed, JobRow
  \* What was settled by another job than the one of w, is.
  <2>4. ASSUME NEW r, r # NoRef, Settled(r), r # job[run[w].job].ref
        PROVE  SettledNext(r)
    <3>1. \A k \in Jobs : job[k].status = "pending" /\ job[k].ref = r => job'[k] = job[k]
      <4> SUFFICES ASSUME NEW k \in Jobs, job[k].status = "pending", job[k].ref = r
                   PROVE  job'[k] = job[k]
        OBVIOUS
      <4>1. k # run[w].job
        BY <2>4
      <4>2. \A n \in Jobs : \A next : PassesOn(w, n, next) => n # k
        BY <4>1 DEF PassesOn
      <4> QED
        BY <1>6, <2>3, <4>1, <4>2, JobsAfter DEF PassesOn
    <3> QED
      BY <1>1, <2>1, <2>2, <2>4, <3>1
  \* The job of w leaves its own reference settled.
  <2>5. ASSUME job[run[w].job].ref # NoRef
        PROVE  SettledNext(job[run[w].job].ref)
    <3>1. Polling(w) /\ ~Submitting(w) /\ ~Delivered(w)
      <4>1. job[run[w].job].kind = "poll"
        BY <1>t, <2>1, <2>5 DEF Deployed, DeploymentIInv, RefsAreOfPolls, JobRow
      <4> QED
        BY <2>1, <4>1
           DEF Deployed, DeploymentIInv, RefsAreOfPolls, Polling, Submitting
    <3>2. CASE GoesOn(w)
      <4>1. ~Waits(w) /\ ~Ends(w)
        BY <3>1, <3>2 DEF GoesOn, Waits, Ends, InFlightStatuses, ActiveStatuses, TerminalStatuses
      <4>2. PICK k \in Jobs, kind \in {"submit", "poll"}, ref \in Refs \union {NoRef} :
              /\ PassesOn(w, k, PendingJob(kind, RunningTx(w), ref))
              /\ kind = "submit" => Submitting(w) /\ ref = NoRef
              /\ kind = "poll" => \/ Delivered(w) /\ ref = run[w].ref
                                  \/ Polling(w) /\ ref = job[run[w].job].ref
        BY <1>6, <4>1, JobsAfter
      <4>3. kind = "poll" /\ ref = job[run[w].job].ref
        BY <3>1, <4>2
      <4> QED
        BY <4>2, <4>3 DEF PassesOn, PendingJob
    <3>3. CASE Ends(w)
      <4>1. tx'[RunningTx(w)].status \in TerminalStatuses /\ tx' # tx
        BY <2>1, <3>3, RunningIsInFlight
           DEF Ends, TerminalStatuses, InFlight, InFlightStatuses, ActiveStatuses
      <4>2. CASE tx'[RunningTx(w)].status = "SUCCESS"
        BY <1>6, <2>1, <4>2, InvoicesAfter DEF InFlightStatuses, ActiveStatuses
      <4>3. CASE tx'[RunningTx(w)].status # "SUCCESS"
        BY <2>1, <3>1, <3>3, <4>1, <4>3 DEF Ends
      <4> QED
        BY <4>2, <4>3
    <3> QED
      BY <1>6, <3>1, <3>2, <3>3 DEF HandlerEnds, Waits
  <2>6. \A k \in Jobs : job[k].ref # NoRef => SettledNext(job[k].ref)
    BY <1>a, <2>4, <2>5
  <2>7. CASE job'[j] = Closed(w, j)
    BY <2>3, <2>6, <2>7
  <2>8. CASE job'[j] # Closed(w, j)
    <3>1. PICK k \in Jobs, kind \in {"submit", "poll"}, ref \in Refs \union {NoRef} :
            /\ PassesOn(w, k, PendingJob(kind, RunningTx(w), ref))
            /\ kind = "submit" => ref = NoRef
      BY <1>6, <2>8, JobsAfter
    <3>2. job'[j].ref = ref /\ job'[j].status = "pending" /\ job'[j].kind = kind
      BY <2>8, <3>1 DEF PassesOn, PendingJob
    <3> QED
      BY <3>1, <3>2
  <2> QED
    BY <2>7, <2>8
<1>7. CASE UNCHANGED <<tx, job, doc>>
  BY <1>7, <1>a
<1> QED
  BY <1>2, <1>3, <1>4, <1>5, <1>6, <1>7, <1>t, OtherSteps DEF UpdateInvoice, Begin, dbVars

\* The invariant is inductive.
LEMMA DeployedNext ==
  ASSUME Deployed, [Next]_vars
  PROVE  Deployed'
<1>1. RowsAreLinked' /\ LinksAreReal' /\ SendingIsOwned'
  BY RowsNext, DocumentsNext, RunsNext, PollsNext, SuccessNext, NumberNext, SendingNext
     DEF Deployed, LinksAreReal
<1>2. DeploymentIInv'
  BY MemoryNext, PendingNext, UndecidedNext, AcceptanceNext, ContentNext, RefsNext, KnownNext
     DEF DeploymentIInv
<1>3. Deployment'
  BY DEF Deployed, Deployment
<1> QED
  BY <1>1, <1>2, <1>3 DEF Deployed

\* The whole inductive invariant of the deployment, whatever crashes happen and
\* whatever replies, sessions and retries come in between: with one worker
\* process and sale invoices only, a transmission has one pending job while it
\* is in flight, an undecided one holds its invoice alone, and what KSeF was
\* sent and told a job about is settled or still asked about.
THEOREM DeploymentHolds == Deployment /\ Spec => []Deployed
BY DeploymentInit, DeployedNext, PTL DEF Spec

\* A set without two different elements.
LEMMA AtMostOne ==
  ASSUME NEW S, \A x, y \in S : x = y
  PROVE  Cardinality(S) <= 1
<1>1. CASE S = {}
  BY <1>1, FS_EmptySet
<1>2. ASSUME NEW x \in S PROVE Cardinality(S) <= 1
  <2>1. S = {x}
    BY <1>2
  <2> QED
    BY <2>1, FS_Singleton
<1> QED
  BY <1>1, <1>2

\* In the deployment a transmission is worked on by one job, and by none once
\* it is decided or waits for a manual retry: nothing is sent or polled twice
\* at the same time (app/worker/__main__.py:67-137, the two handlers).
THEOREM OneJobEach == Deployment /\ Spec => []OneJobPerTransmission
<1>1. Deployed => OneJobPerTransmission
  <2> SUFFICES ASSUME Deployed, NEW t \in Transmissions
               PROVE  Cardinality(JobsOf(t)) <= 1 /\ (~InFlight(t) => JobsOf(t) = {})
    BY DEF OneJobPerTransmission
  <2>1. \A j, k \in JobsOf(t) : j = k /\ InFlight(t)
    BY DEF Deployed, DeploymentIInv, PendingIsInFlight, JobsOf
  <2> QED
    BY <2>1, AtMostOne
<1> QED
  BY <1>1, DeploymentHolds, PTL

\* In the deployment at most one transmission of an invoice is on its way, so
\* get_active_for_invoice finds at most one row
\* (app/persistence/repositories/transmission_repository.py).
THEOREM OneInFlight == Deployment /\ Spec => []AtMostOneInFlight
<1>1. Deployed => AtMostOneInFlight
  <2> SUFFICES ASSUME Deployed, NEW i \in Invoices
               PROVE  Cardinality({t \in TransmissionsOf(i) : InFlight(t)}) <= 1
    BY DEF AtMostOneInFlight
  <2>1. \A t \in Transmissions : InFlight(t) => Undecided(t)
    BY DEF InFlight, InFlightStatuses, Undecided, RetryableStatuses
  <2>2. \A s, t \in {t \in TransmissionsOf(i) : InFlight(t)} : s = t
    BY <2>1 DEF Deployed, DeploymentIInv, UndecidedHoldsInvoice, TransmissionsOf
  <2> QED
    BY <2>2, AtMostOne
<1> QED
  BY <1>1, DeploymentHolds, PTL

\* In the deployment what was decided is what the invoice shows: the number
\* and the content KSeF accepted, or REJECTED when every transmission failed
\* for good (app/services/transmission_service.py:277-302).
THEOREM DecisionsAreShown == Deployment /\ Spec => []DecisionIsShown
<1>1. Deployed => DecisionIsShown
  <2> SUFFICES ASSUME Deployed PROVE DecisionIsShown
    OBVIOUS
  <2>1. \A t \in Transmissions : tx[t].status = "SUCCESS" => SuccessIsShown(t)
    BY DEF Deployed, DeploymentIInv, SuccessIsAcceptance, ContentIsCurrent, SuccessIsShown
  <2>2. ASSUME NEW i \in Invoices, TransmissionsOf(i) # {},
               \A t \in TransmissionsOf(i) : tx[t].status = "FAILED_PERMANENT"
        PROVE  invoice[i].status = "REJECTED"
    <3>1. invoice[i].status # "READY"
      BY <2>2 DEF Deployed, RowsAreLinked, TransmissionsAreLinked, TransmissionsOf
    <3>2. invoice[i].status # "SENDING"
      BY <2>2 DEF Deployed, SendingIsOwned, Undecided, ActiveStatuses, RetryableStatuses
    <3>3. invoice[i].status # "ACCEPTED"
      BY <2>2 DEF Deployed, DeploymentIInv, SuccessIsAcceptance
    <3>4. invoice[i].status \in InvoiceStatuses
      BY DEF Deployed, RowsAreLinked, TypeOK, InvoiceRow
    <3> QED
      BY <3>1, <3>2, <3>3, <3>4 DEF InvoiceStatuses
  <2> QED
    BY <2>1, <2>2 DEF DecisionIsShown
<1> QED
  BY <1>1, DeploymentHolds, PTL

\* In the deployment a decided transmission stays decided: no late job, retry
\* or rollback revives it (poll_ksef_status.py:63-86, transmission_service.py).
THEOREM DecisionsAreFinal == Deployment /\ Spec => TerminalIsFinal
<1>1. ASSUME Deployed, [Next]_vars, NEW t \in Transmissions, tx[t].status \in TerminalStatuses
      PROVE  tx'[t].status = tx[t].status
  <2>t. tx \in [Transmissions -> TransmissionRow] /\ RowsAreLinked
    BY <1>1 DEF Deployed, RowsAreLinked, TypeOK
  <2>1. ASSUME NEW i \in Invoices, NEW s \in Transmissions, NEW j \in Jobs, SubmitInvoice(i, s, j)
        PROVE  tx'[t].status = tx[t].status
    BY <1>1, <2>1, <2>t DEF SubmitInvoice, TerminalStatuses
  <2>2. ASSUME NEW s \in Transmissions, NEW j \in Jobs, RetryTransmission(s, j) PROVE FALSE
    BY <1>1, <2>2, RetryIsRefused DEF RetryTransmission
  <2>3. ASSUME NEW w \in Workers, HandlerEnds(w) PROVE tx'[t].status = tx[t].status
    <3>1. t # RunningTx(w)
      BY <1>1, <2>3, RunningIsInFlight
         DEF HandlerEnds, CommitsJob, InFlight, InFlightStatuses, ActiveStatuses, TerminalStatuses
    <3> QED
      BY <2>3, <3>1 DEF HandlerEnds
  <2> QED
    BY <1>1, <2>1, <2>2, <2>3, <2>t, OtherSteps
       DEF UpdateInvoice, Deliver, Begin, KSeFStep, KSeFDecides, dbVars
<1>2. Deployed /\ [Next]_vars =>
        [\A t \in Transmissions : tx[t].status \in TerminalStatuses => tx'[t].status = tx[t].status]_vars
  BY <1>1
<1> QED
  BY <1>2, DeploymentHolds, PTL DEF Spec, TerminalIsFinal

\* In the deployment the row of an ACCEPTED invoice never changes again: no
\* edit, submission or late decision touches it
\* (app/services/invoice_service.py, transmission_service.py:277-302).
THEOREM AcceptanceIsFinal == Deployment /\ Spec => AcceptedIsFinal
<1>1. ASSUME Deployed, [Next]_vars, NEW i \in Invoices, invoice[i].status = "ACCEPTED"
      PROVE  invoice'[i] = invoice[i]
  <2>t. invoice \in [Invoices -> InvoiceRow] /\ RowsAreLinked
    BY <1>1 DEF Deployed, RowsAreLinked, TypeOK
  <2>1. ASSUME NEW k \in Invoices, UpdateInvoice(k) PROVE invoice'[i] = invoice[i]
    <3>1. k # i
      BY <1>1, <2>1 DEF UpdateInvoice, EditableStatuses
    <3> QED
      BY <2>1, <2>t, <3>1 DEF UpdateInvoice
  <2>2. ASSUME NEW k \in Invoices, NEW s \in Transmissions, NEW j \in Jobs, SubmitInvoice(k, s, j)
        PROVE  invoice'[i] = invoice[i]
    BY <1>1, <2>2, <2>t DEF SubmitInvoice, CanBeSubmitted
  <2>3. ASSUME NEW w \in Workers, HandlerEnds(w) PROVE invoice'[i] = invoice[i]
    <3>1. invoice[RunningInvoice(w)].status = "SENDING"
      BY <1>1, <2>3, RunningIsInFlight DEF HandlerEnds, CommitsJob
    <3> QED
      BY <1>1, <2>3, <3>1, InvoicesAfter
  <2> QED
    BY <1>1, <2>1, <2>2, <2>3, <2>t, OtherSteps
       DEF RetryTransmission, Deliver, Begin, KSeFStep, KSeFDecides, dbVars
<1>2. Deployed /\ [Next]_vars =>
        [\A i \in Invoices : invoice[i].status = "ACCEPTED" => invoice'[i] = invoice[i]]_vars
  BY <1>1
<1> QED
  BY <1>2, DeploymentHolds, PTL DEF Spec, AcceptedIsFinal

\* A document whose reference is on record is rejected, accepted under the
\* number of its invoice, asked about by a pending poll job, or about to be by
\* the submit job that got it; the last two hold the invoice in SENDING.
LEMMA OnRecord ==
  ASSUME Deployed, NEW i \in Invoices, NEW r \in DocumentsOf(i), ~IsDoubtful(r)
  PROVE  \/ doc[r].verdict = "rejected"
         \/ invoice[i].status = "ACCEPTED" /\ invoice[i].ksef = r
         \/ /\ invoice[i].status = "SENDING"
            /\ \E k \in Jobs : /\ job[k].status = "pending" /\ tx[job[k].tx].invoice = i
                               /\ job[k].kind = "poll" /\ job[k].ref = r
         \/ /\ invoice[i].status = "SENDING"
            /\ \E w \in Workers : /\ Submitting(w) /\ RunningInvoice(w) = i
                                  /\ run[w].ref = r
<1>r. r \in Refs /\ r # NoRef /\ doc[r].invoice = i
  BY NullAssumption DEF DocumentsOf
<1>1. ASSUME NEW t \in Transmissions, tx[t].ksef = r
      PROVE  invoice[i].status = "ACCEPTED" /\ invoice[i].ksef = r
  <2>1. tx[t].status = "SUCCESS"
    BY <1>1, <1>r DEF Deployed, DeploymentIInv, SuccessIsAcceptance
  <2>2. tx[t].invoice = i
    BY <1>1, <1>r, <2>1 DEF Deployed, LinksAreReal, SuccessIsReal, IsDocumentOf
  <2> QED
    BY <1>1, <2>1, <2>2 DEF Deployed, DeploymentIInv, SuccessIsAcceptance
<1>2. ASSUME NEW k \in Jobs, job[k].status = "pending", job[k].kind = "poll", job[k].ref = r
      PROVE  invoice[i].status = "SENDING" /\ tx[job[k].tx].invoice = i
  <2>1. tx[job[k].tx].invoice = i
    BY <1>2, <1>r DEF Deployed, LinksAreReal, PollsAreLinked, IsDocumentOf
  <2> QED
    BY <1>2, <2>1, PendingIsSending
<1>3. ASSUME NEW w \in Workers, run[w].ref = r
      PROVE  /\ invoice[i].status = "SENDING"
             /\ Submitting(w) /\ RunningInvoice(w) = i
  <2>1. Delivered(w) /\ Submitting(w) /\ Busy(w)
    BY <1>3, <1>r DEF Deployed, DeploymentIInv, RefsAreOfPolls, Delivered, Submitting
  <2>2. RunningInvoice(w) = i
    BY <1>3, <1>r, <2>1 DEF Deployed, LinksAreReal, RunsAreLinked, IsDocumentOf
  <2> QED
    BY <2>1, <2>2, RunningIsInFlight
<1>4. ASSUME NEW j \in Jobs, job[j].ref = r
      PROVE  \/ doc[r].verdict = "rejected"
             \/ \E t \in Transmissions : tx[t].ksef = r
             \/ \E k \in Jobs : job[k].status = "pending" /\ job[k].kind = "poll" /\ job[k].ref = r
  BY <1>4, <1>r DEF Deployed, DeploymentIInv, KnownIsSettled
<1> QED
  BY <1>1, <1>2, <1>3, <1>4 DEF IsDoubtful

\* In the deployment KSeF holds no undecided and no accepted document of a
\* REJECTED invoice but one whose reply was lost, so sending it again cannot
\* book it twice (submit_invoice.py, poll_ksef_status.py).
THEOREM RejectedIsGone == Deployment /\ Spec => []RejectedIsNotAtKSeF
<1>1. Deployed => RejectedIsNotAtKSeF
  BY OnRecord DEF RejectedIsNotAtKSeF
<1> QED
  BY <1>1, DeploymentHolds, PTL

\* In the deployment KSeF accepts an invoice at most once, the documents aside
\* whose reply was lost.
THEOREM NoDoubleAcceptance == Deployment /\ Spec => []AcceptedOnce
<1>1. Deployed => AcceptedOnce
  <2> SUFFICES ASSUME Deployed, NEW i \in Invoices,
                      NEW r \in DocumentsOf(i), doc[r].verdict = "accepted", ~IsDoubtful(r),
                      NEW s \in DocumentsOf(i), doc[s].verdict = "accepted", ~IsDoubtful(s)
               PROVE  r = s
    BY AtMostOne DEF AcceptedOnce
  <2>u. \A t, u \in Transmissions :
          tx[t].invoice = i /\ tx[u].invoice = i /\ Undecided(t) /\ Undecided(u) => t = u
    BY DEF Deployed, DeploymentIInv, UndecidedHoldsInvoice, TransmissionsOf
  <2>p. \A k, l \in Jobs :
          /\ job[k].status = "pending" /\ tx[job[k].tx].invoice = i
          /\ job[l].status = "pending" /\ tx[job[l].tx].invoice = i
          => k = l
    BY <2>u, PendingIsSending DEF Deployed, DeploymentIInv, PendingIsInFlight
  <2>w. \A w \in Workers : Submitting(w) /\ RunningInvoice(w) = i =>
          /\ run[w].job \in Jobs /\ job[run[w].job].status = "pending"
          /\ tx[job[run[w].job].tx].invoice = i /\ job[run[w].job].kind = "submit"
    BY RunningIsInFlight DEF Submitting, RunningInvoice, RunningTx
  <2>o. \A v, w \in Workers : v = w
    BY DEF Deployed, Deployment
  <2> QED
    BY <2>p, <2>w, <2>o, OnRecord
<1> QED
  BY <1>1, DeploymentHolds, PTL
=============================================================================
