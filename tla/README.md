# TLA+ verification of the KSeF backend

The program (`src/app`, Python, FastAPI, SQLAlchemy, PostgreSQL) issues invoices, sends them to
the national e-invoice system KSeF, books payments against them and keeps a FIFO warehouse.
One web process serves HTTP requests; one worker process polls a job table. Everything they
share is in the database and, outside it, at KSeF.

Contents: [inventory](#inventory), [modules](#modules), [runs and bounds](#runs-and-bounds),
[fairness](#fairness), [proofs](#proofs), [disagreements](#disagreements-between-code-and-text),
[not modelled](#what-is-not-modelled), [plan](#plan).

## Inventory

| component | state | operations | what is hard |
|---|---|---|---|
| Submission (`services/transmission_service.py`, `worker/job_handlers/submit_invoice.py`, `poll_ksef_status.py`) | rows of `transmissions`, status and KSeF number of `invoices` | submit, manual retry, submit handler, poll handler | a reply lost after delivery, a crash before the commit, retries of two kinds, an old session |
| Job queue (`worker/__main__.py`, `persistence/models/background_job.py`) | rows of `background_jobs`, the batch in memory | claim, run, finish, fail | row locks end with the first commit of a batch; a job whose flush fails takes the batch with it |
| KSeF session (`services/ksef_session_service.py`) | rows of `ksef_sessions`, the counter of failed probes | open, close, expire, probe | check, then a slow call, then an insert; an expiry mark that is rolled back |
| Purchase sync (`services/ksef_sync_service.py`, the job `sync_purchase_invoices`) | row of `ksef_sync_states`, purchase invoices | synchronise, job | overlapping runs, a row loaded before its lock, documents that show up late, failed downloads |
| Invoices (`services/invoice_service.py`) | rows of `invoices` | create, update, mark ready, number | number = count + 1 with no constraint; months change; purchases count too |
| Content of an invoice (`invoice_totals.py`, `domain/models/invoice.py`, `mapper.py`, `xml_parser.py`, contractors, settings, NBP, REGON) | the invoice, contractor, override, settings | enter, edit, validate, map to FA(3), read FA(3) | roundings in four places, two merges of an override, settings that change in between |
| Warehouse (`services/warehouse_document_service.py`) | documents, layers, movements, balances, number counters | create, update, cancel, post | unlocked reads long before the writes; a failure at the last line |
| Stock (`services/stock_service.py`) | stock rows, movements | movement | a locked read that returns the object read before the lock |
| Payments (`services/payment_service.py`) | bank transactions, allocations, `payment_status` | import, match, allocate, reverse, form payment, lists of debts | read, check, write without a lock; sums taken in two places |
| Idempotency (`services/idempotency_service.py`) | `idempotency_keys` | acquire, complete, fail | marks live in the transaction they should guard |

Interaction: requests and the worker never call each other. A submit inserts a transmission and
a job and sets the invoice SENDING in one transaction; the worker claims jobs, calls KSeF in the
middle of a transaction, and writes transmission, invoice and the next job before its commit.
Session rows are written by requests, by the status check and by the worker (a 401 or 403
expires the session it meets). A synchronisation imports invoices in its request; the job beside
it does so in the worker. What comes in is counted when the next invoice gets its number.

What makes each part correct is stated as properties below, and what is hard to test as hazards
in `PROJECT.json`, each at its line.

## Modules

| module | models | theorems in |
|---|---|---|
| `InvoiceDelivery` | abstract: what the pipeline promises about one invoice (READY, SENDING, ACCEPTED, REJECTED) | |
| `Submission` | requests, job table, workers, session row and KSeF; implements `InvoiceDelivery` | `Submission_proofs` |
| `Sessions` | open, close, expiry and probe of KSeF sessions | `Sessions_proofs` |
| `PurchaseSync` | the two imports of purchase invoices | `PurchaseSync_proofs` |
| `Invoicing` | local numbers, months and statuses of invoices | `Office_proofs` |
| `Documents` | one invoice from the form to the buyer's copy | `Documents_proofs` |
| `Stock` | stock of a product and its log | `Office_proofs` |
| `Warehouse` | warehouse documents, layers, balances, numbers | `Warehouse_proofs` |
| `Payments` | statement lines, allocations, form payments, lists of debts | `Payments_proofs` |
| | facts about sums of rows, for the proofs of `Warehouse`, `Payments` and `Documents` | `Sums_proofs` |
| `MCSubmission`, `MCSessions`, `MCPurchaseSync`, `MCWarehouse`, `MCPayments` | instances for TLC | |
| `MCOffice` | instances of `Invoicing`, `Documents` and `Stock` for TLC | |

`Invoicing`, `Documents` and `Stock` share no variable; `MCOffice` checks them in one run, whose
variable `part` says of which of the three a behaviour is. They meet the other modules as the
sections below say: `Submission` decides what `Invoicing` and `Documents` call "sent",
and `Payments` what an edit of the total does.

### Submission

State: `invoice`, `tx`, `job` are tables; a row that does not exist yet is "unused" or "free".
`rowLock` is the lock FOR UPDATE SKIP LOCKED puts on a claimed row, `batch` the list of jobs a
worker keeps in memory, `run` the job it is in the middle of, `session` the ACTIVE row of
`ksef_sessions`, `doc` what KSeF has received.

| action | code |
|---|---|
| `UpdateInvoice`, `SubmitInvoice`, `RetryTransmission` | one request each; it takes the row locks it needs first, so it is one step |
| `OpenSession`, `CloseSession`, `SessionTimesOut`, `CheckConnection` | `ksef_session_service.py` |
| `Claim` | `claimable_jobs`: rows are locked, read and put in the batch |
| `Begin` | the handler is entered; the reads of the handler are fresh, the job list is not |
| `Deliver` | `send_invoice` inside the open transaction; it may happen at KSeF and still fail |
| `MarkSubmitted`, `MarkPermanentFailure`, `MarkRetryableFailure`, `MarkTemporaryFailureAndRetry`, `HandleMissingSession`, `HandleNotConnected`, `HandleSessionExpired` | the ends of the submit handler, each with its commit |
| `PollSkipsTerminal`, `PollWaits`, `PollAccepted`, `PollRejected`, `PollAborts` | the ends of the poll handler |
| `Crash` | the transaction and the memory of the worker are gone, KSeF keeps what it has |

The first commit of a batch releases every row lock it holds (`Committed`), which is why two
workers may run one job. With the one worker of `docker-compose.yml` they may not.

Abstracted: one seller; at most one ACTIVE session; content is an edition number; "refused"
stands for every validation, mapping or non-transient HTTP error; `available_at` is written by
the code and not filtered by the claim query, so it has no effect on the model.

### Sessions

One seller NIP. An open is three steps (`OpenSession` finds no ACTIVE row, `RedeemTokens` and
`OpenOnlineSession` talk to KSeF, `InsertSession` writes), a close three (`CloseSession`,
`CloseOnlineSession`, `TerminateSession`); `GiveUp` ends either. Each reads the ACTIVE row with
`scalar_one_or_none`, which raises when there are two: `TheActive(s)` is false then.
`CheckConnection` is `GET /ksef/status` with its probe and threshold, `WorkerFindsLate` and
`MarkSessionExpired` are the worker. A request that meets a late session marks it and raises,
so its mark is rolled back; the worker catches the error and commits it. `overlapped` is a
history variable: two opens were once in progress together. `Submission` has one ACTIVE row at
most and no steps inside an open: that this is so is `OneActiveSession`.

### PurchaseSync

`SyncPurchases` loads the row of the synchronisation, `MarkRunning` takes its lock and the
window, `QueryReceivedInvoices` and `ImportInvoice` are the import, `MarkSuccess` its commit;
`EnqueueSync`, `StartJob`, `JobDone` and `JobFailed` are the job with dates of its own, which
takes no lock. `Listing` is the chain of endpoints of `query_received_invoices`: an endpoint
that is not there is passed over, a query that takes too long is an empty list. `NextDay` and
`Arrive` are the calendar and KSeF. `dropped` and `syncDays` are history variables.

### Invoicing

A request that numbers an invoice locks it and counts its month (`CountMonth`), looks for the
number (`CheckNumber`), and writes it (`CommitNumber`). `mark_as_ready` tries again after a
collision or an error of the database (`TryAgain`, `MarkReadyAgain`), a submission does not.
`UpdateInvoice` moves the date to another month, `ImportPurchase` brings invoices with numbers
of their suppliers, which may look like ours. `trouble[m]` is a history variable: "raced" when
two requests numbered month m at once, "disturbed" when anything but numbering changed what is
counted or found there.

### Documents

`CreateDocument` and `UpdateDocument` check the form and compute lines and sums
(`BuildItem`, `WithContent`), `ToOrm` stores a price of two decimals, `SubmitDocument` validates
(`ReasonsToRefuse`) and maps to FA(3) (`ToXml`), `Import` is this program at the buyer (`Parse`).
`CreateManual`, `RegonSync`, `UpdateOverride` and `UpdateSettings` change the parties in between.
Money is in grosze, so every rounding is the one of the code. `entered` is a history variable:
the buyer the user saw when the invoice was entered last.

### Stock

`LoadStock`, `LockStock` and `ApplyMovement` are the statements of `create_movement`. The locked
SELECT of SQLAlchemy returns the object already in the session with its old attributes, so
`ApplyMovement` starts from what `LoadStock` read. `overlapped` are the products on which two
movements worked at once.

### Warehouse

A request is a READ COMMITTED transaction that locks nothing before it writes, so `Load`,
`AddLayer`, `ReadLayers`, `TakeLayers`, `ReadBalance`, `StoreBalance` and `MarkPosted` are
separate steps, and `Rollback` may end a request anywhere before its commit. `written[c]` is
what request c wrote and nobody else sees; it locks those rows. `Over(written, committed)` is
what c reads. `overlapped` is a history variable: two requests were once in progress together.
`BalanceLayers`, `MovementsDetail` and `FifoMovements` are what the lists show, and the
properties are about what is shown.

Abstracted: prices, notes and reasons, the catalogue of items, dates (one day) and the year in
a number. The row locks of a consumption are taken in one step; one by one they would only add
deadlocks, which are rollbacks.

### Payments

A request is again a READ COMMITTED transaction; only the form of an invoice locks its invoice
first. `written[c]` is as in `Warehouse`. `loaded[c]` are the entry and the invoice the session
of c holds in memory: SQLAlchemy does not read them again, and an UPDATE writes only the columns
that differ from what was loaded (`Updated`), so a request may leave what another has committed,
or may write nothing and lock nothing. `settled` is a history variable: the rows that were last
changed by a request that was alone and summed their allocations again.

| action | code |
|---|---|
| `ImportCsv`, `Rematch`, then for each line `AutoMatch` or `Leave` | `import_csv`, `run_matching_for_transaction`, `_run_matching_for_orm` |
| `AllocateManual`; `ReverseAllocation`, `MarkReversed` | the two requests by hand |
| `UpdateInvoice`; `UpdateInvoiceAndPay`, then `FormHasNone` or `FormHasOne`, `Renew` | `PUT /invoices/{id}` without and with `amount_paid` |
| `ReadSum`, `WriteEntry`, `ReadPaid`, `WriteInvoice` | the second half of `_do_allocate` and of `reverse_allocation` |
| `Rollback` | a failed check, a deadlock, the end of the process |

`OpenView` (list and summary of the open invoices), `Debts` (settlements) and `UnmatchedEntries`
are what the user is shown; they are operators, since they change nothing.

Abstracted: the clues a text gives for an invoice are a constant number of points; amounts are
small naturals, so "within 2 %" is "equal"; outgoing lines, currency and dates are left out.

## Runs and bounds

| run | question | bounds |
|---|---|---|
| `one_worker` | the deployment with every fault: is the end of a transmission final, and what the invoice shows? | 1 sale invoice, 2 transmissions, 2 jobs, 2 documents, 2 sessions, 1 edit, 1 crash, 2 attempts |
| `two_workers` | what is left of it when a second worker is started? | 2 invoices, 2 transmissions, 3 jobs, 2 documents; a request is refused, a reply or a poll is lost, a process dies once |
| `liveness` | is everything decided in the end, and no queued job left waiting? | 2 sale invoices, 2 transmissions, 2 jobs, 2 documents, 1 crash, 2 attempts; the session stays open |
| `unavailable` | what becomes of an invoice that finds no session? | 1 sale invoice, 1 transmission, 1 job |
| `oversized` | is a rejection recorded while another one cannot be? | 2 sale invoices, each with a transmission, a job and a document; no other fault |
| `sessions` | can a NIP be left with two ACTIVE rows, or with a late one? | 2 sessions, 3 requests |
| `purchase_sync` | is a document imported twice, or missed? | 1 document, 5 days, a window of 3, 2 clients and a job, 3 requests |
| `warehouse` | posting, statement by statement | 3 documents, 3 layers, 2 clients, 3 requests; one or two lines |
| `posted_twice` | two posts of one draft at once | 1 document, 2 clients, 2 requests |
| `payments` | matching, allocations, reversals and forms at once | 1 invoice, 2 statement lines and a cash entry, 3 allocations, 2 clients, 4 requests |
| `cash_entry_reused` | is an entry never overdrawn, one request after the other? | 2 invoices and their cash entries, 1 client, 4 requests |
| `office` | numbers of invoices; content of an invoice; stock | 3 invoices (1 purchase), 2 months, 2 requests, 1 moved; 22 forms with 7 contents, 2 changes; 2 products, 2 clerks, 4 movements |

Two transmissions are the least in which an old one can disturb a new one; two jobs are the
least in which a job has a successor (rows of finished jobs are used again). A document more
than transmissions lets a POST be repeated. In `liveness` and `oversized` there are two invoices,
so that a job waits in a batch behind the job of another one. `MaxAttempts` is 5 in the code; 2 or 3 reach the
limit and the branch before it. In the warehouse two receipts and one issue of two lines make
an issue that spans layers and leaves the last one partly used; two clients are enough for
every overlap of two statements. Three requests are the least in which two opens overlap and a
third meets what they left; five days and a window of three make a synchronisation after a
pause longer than the window. `MAX_RETRIES` is 3 in the code, 2 has a last turn and one before
it. The forms of `office` have lines at which a half grosz is rounded (0.045 zl times 7,
3 times 3.33 at 8 %), one with nothing to pay, a rate FA(3) does not know, and dates at the
edge of what is allowed. `MaxSessions`, `MaxEdits`, `MaxCrashes`, `MaxRequests`, `MaxSyncs`,
`MaxJobs`, `MaxForeign`, `MaxImports`, `MaxMoved`, `MaxChanges` and `MaxMovements` only bound
the search. Deadlock is not checked where the bounds end a behaviour: when they are used up and
every job is done, nothing is left to do. Symmetry is used only where every set is of
interchangeable values, and not with liveness.

What the runs show.

*Submission.* Whatever fails, a transmission in flight keeps a committed job
(`InFlightHasJob`), an invoice in SENDING keeps an undecided transmission (`SendingIsOwned`), an
accepted invoice has the number of a document KSeF accepted (`NumberIsReal`), and the pipeline
implements `InvoiceDelivery` (`DeliverySpec`). These hold for several workers and both
directions. `OneJobPerTransmission`, `AtMostOneInFlight`, `DecisionIsShown`, `TerminalIsFinal`
and `AcceptedIsFinal` are claimed for one worker and sale invoices only: a second worker breaks
some of them, and so does a purchase invoice, whose FAILED_TEMPORARY transmission a manual retry
can revive beside its pending automatic one. `RejectedIsNotAtKSeF` and `AcceptedOnce` need that
no reply is lost and no job is interrupted: the code resends without asking, so these two faults
can book an invoice twice, and the properties state exactly that limit.

`SendingIsDecided` and `QueuedIsAttempted` are claimed while the session stays open and no
rejection text is too long for its column. The jobs of two invoices share the worker then, and
neither a poll that is repeated nor a crash that drops a claimed batch leaves a queued
transmission behind. With a rejection text that is too long this ends: its poll rolls back the
batch together with its counter of attempts, so the limit of attempts is never reached, and the
query of the next batch puts it before every job of a later `available_at`. `oversized` shows
what that does to another invoice: KSeF rejected it, its poll waits behind in every batch, and it
is SENDING for ever. The model takes the jobs of a batch in any order and fairness does not
force the other job to come first; in the code the order by `available_at` keeps it behind.

*Sessions and imports.* Two ACTIVE rows, which would make every later request of the NIP fail,
need two opens that overlapped; a late session never blocks the next one for ever, because the
status check commits what the requests roll back. Requests do not import a document twice, nor
does the job (`ImportedOnce`); a request beside the job can, and the property says so.
`NothingIsMissed` is about documents at most a day late that no completed synchronisation left:
the day by which windows overlap is what it needs, and a later document is lost.

*Invoices.* A number is issued twice only if two requests numbered a month at once
(`NumbersAreUnique`, part of `IInv`); as long as nothing else happens in a month its numbers
have no gap, whatever fails (`NumberedInSequence`); and a number stays with its invoice
(`NumberIsKept`). An invoice moved to another month leaves a count whose next number exists: the
month cannot be numbered until something else is counted in it. That is a state of the model,
not a violation: no text of the repository promises otherwise.

*Content.* Nothing that create and update compute is refused for its sums by the submission
(`NotRefusedForItsSums`); the document agrees with itself (`SentAddsUp`); and the buyer's copy
agrees with the seller's row but for the fields the property excepts (`BuyerReadsWhatWasSold`).

*Stock and warehouse.* The quantity of a product is what its log adds up to as long as no two
movements of it overlapped (`StockIsItsLog`). `NumbersAreUnique` and `UnpostedHasNoEffect` of the
warehouse hold whatever overlaps. `BalanceIsStock`, `CostIsTraceable`, `OldestLayersGoFirst`,
`DecidedIsFinal` and `TakesEffectOnceAlone` are claimed as long as no two requests overlapped,
because that is all the code provides: between an unlocked read and the write that depends on it
anything may commit. They are still about several steps: two lines of one document, a
consumption over several layers, a rollback half-way, a balance read before a layer is written.

*Payments.* Overlaps do leave a wrong balance or status behind; what the code provides is that
nothing is counted up and down, so `SettledIsRight`: a request that is alone puts right what it
touches, whatever was left before it. Four requests are enough for an entry, two that overlap
on it, and the one that repairs. `HistoryIsKept` holds whatever overlaps. `DebtsAgree`: the two
lists of debts tell the same, and the truth of what is settled. `BankLineIsNotOverdrawn` and
`FormPaymentIsAsEntered` are claimed without overlaps, since the checks they rest on are made on
rows that are not locked; two lines of one statement make an import go on after a match, and one
of them has no clue and is left to the user. `FormPaymentIsAsEntered` says that an active
allocation with the amount entered is there; the user may have allocated other parts of the cash
entry to the same invoice by hand, and the code keeps them beside it.

*Races between requests.* Where the code lets two requests overlap on an unlocked read, the
properties above except what overlapped, so they do not see that race: posts and consumptions in
the warehouse, allocations of one bank line, movements of one product, numbers of one month, opens
of a session, an import by a request beside the job. The entries of these hazards in
`PROJECT.json` say which part a property covers. Of these races `posted_twice` shows one as a
violation, since a docstring promises otherwise. `SettledIsRight`, `HistoryIsKept`,
`NumbersAreUnique` and `UnpostedHasNoEffect` of the warehouse, `ImportedOnce` among requests and
`WindowOnlyAdvances` are claimed whatever overlaps.

The type invariant of each module is part of the inductive invariant its theorems rest on. That of
`Submission`, `Invoicing`, `Warehouse` (`BooksIInv`) and `Payments` (`RepairIInv`) is checked by the
run of the module too, so the proofs and the runs are about the same formula.

## Fairness

`FairSpec` of `Submission` is used by the runs on liveness. Weak fairness of the steps of a
worker: the loop of `worker/__main__.py` (146-165) catches every exception and goes on, and
`docker-compose.yml` restarts the process. Weak fairness of KSeF: it decides about every
document it has taken. Strong fairness of `PollAccepted` and `PollRejected`: the status query is
repeated without a limit, and does not fail every time. None is assumed of a user, a session or
the network otherwise; `SendingIsDecided` therefore needs a session that stays open, and its run
says so by its set of faults.

`FairSpec` of `Sessions` is weak fairness of `CheckConnection(TRUE)`: an open page of the frontend
asks for the status every 30 seconds (`KSeFConnectionTile.jsx:134`, `KSeFTopbarInfo.jsx:62`,
`KSeFSessionBar.jsx:87`), and KSeF answers its probe now and then. With no page open nothing in
the program clears a late session until a job of the worker looks for one.

## Proofs

`Submission_proofs` shows for every number of invoices, transmissions, jobs, workers and
documents, every batch size and attempt limit, every set of faults:

* `InvariantHolds`: `Spec => []IInv`. `InFlightHasJob` and `SendingIsOwned` are not inductive:
  that a handler's commit leaves a job needs that its job belongs to its transmission, that the
  transmission belongs to an invoice that was handed over, and that a worker remembers only
  jobs that exist. `IInv` adds these links (`RowsAreLinked`, `LinksAreReal`). It is proved in
  layers, each from the ones before: `RowsCorrect`, `NothingIsForgotten`,
  `SendingIsNotOrphaned`, `LinksCorrect`.
* `TypeCorrect` and `NumbersAreReal` are parts of it.
* `PipelineDelivers`: `Spec => DeliverySpec`. Most steps are stutters of the abstract invoice;
  a poll that finds an accepted document is `Confirm`, and needs `PollsAreLinked` to name it.

and for the deployment of the repository (`Deployment`: one worker process, sale invoices), for
every number of the rest and every set of faults:

* `OneJobEach`, `OneInFlight`, `DecisionsAreShown`, `RejectedIsGone`, `NoDoubleAcceptance` and the
  properties of steps `DecisionsAreFinal` and `AcceptanceIsFinal`, from `DeploymentHolds`. The
  invariant `DeploymentIInv` on top of `IInv` says what the second worker breaks: a job the worker
  remembers is still pending (`MemoryIsPending`), so a pending job is the only one of its
  transmission and the transmission is in flight (`PendingIsInFlight`); and what the purchase
  invoice breaks: an undecided transmission holds its invoice in SENDING and alone
  (`UndecidedHoldsInvoice`). From these the content sent stays the content of the invoice
  (`ContentIsCurrent`), and a document whose reference is known anywhere is rejected, recorded
  or still asked about (`KnownIsSettled`). A document whose reply was lost is known nowhere
  (`IsDoubtful`); the last two properties except it, because the code resends without asking.

`Sums_proofs` has only lemmas: what the other proofs need of sums and sets. They say nothing
about the code by themselves. A sum is defined by CHOOSE
over a set of rows, so what it is must be argued by induction; the induction here is over the subsets
of a finite set, which have a minimal element (`SubsetInduction`, in terms of a set of
subsets and not of a predicate). From it: any row may be taken out first (`SumRemove`), sums of
disjoint sets add up (`SumUnion`), also class by class (`SumByClass`, the totals by rate), names
do not matter (`SumRenamed`), roundings are off by their error for each row (`SumRounded`), and a
queue of layers that give in turn gives what is asked for (`TakenInTurn`, the FIFO).

`Warehouse_proofs` shows for every number of documents, layers, items, clients and requests, every
list of lines and every quantity:

* `UniqueNumbers` and `DraftsMoveNothing`, from `InvariantHolds`. The strengthening says that
  whatever a request has written belongs to its own document or to a posted one
  (`WrittenIsOwn`), and that a request knows the kind of its document (`RequestsAreCurrent`).
* `TypesHold`, whatever overlaps: a layer never has less than nothing or more than it received.
  That needs the row locks (`RowsAreLocked`): nobody else writes what a request has written.
* `StockAndBalanceAgree`, `CostsAreTraceable`, `FirstInFirstOut`, `EffectIsOnce` and
  `DecisionsAreFinal`, from `BooksHold`. While requests follow one another the committed tables
  are in order, and so is what the only request sees: the lines it is through with have moved
  their quantities, and the one it is in has done so in the layers but not yet in the balance
  (`Books`, with `Done` and `Pending`). A commit turns the second into the first, a rollback
  forgets it. That a consumption leaves the oldest layers first is `TakenInTurn` and that what
  was read is still so (`ReadInOrder`).

`Payments_proofs` shows for every number of invoices, entries, allocations and clients, and all
amounts:

* `LocksHold` and `HistoryKept`. That the table changes only by a mark is not inductive: rows
  are written long before they are committed. The strengthening says that a written row is
  written by nobody else and is the row of the table, at most marked (`WrittenIsLocked`), and
  that a request marks only what it can see (`MarkedExists`). The proof first shows that every
  step keeps, puts, commits or drops a row (`NextEffect`), then argues about these four.
* `TypesHold`, `SettledHolds`, `SameDebt`, `LinesAreNotOverdrawn` and the property of steps
  `FormIsBooked`, from `RepairHolds`. `SettledIsRight` is about committed rows, which a request
  makes right only with its last statement; `RepairIInv` says how far one that is alone has come
  (`Repairs`): what it has loaded and summed is still so, the rows whose allocations it has
  written are right but for those it is about to write, and a form that is to book an amount has
  room for it. The bank lines are the part that holds only without overlaps (`LinesAddUp`).

`Sessions_proofs` shows for every number of sessions and requests `OneSession`: one ACTIVE row
unless opens overlapped. A row becomes ACTIVE long after the open looked for one, so the
strengthening (`OpensAreApart`) says that while an open is in progress there is none, and no
other open.

`PurchaseSync_proofs` shows for every number of days, clients and documents
`DocumentsImportedOnce`. The strengthening (`LockHolds`) says that one request at a time is past
`mark_running`, and that what it is about to insert no request has inserted. `WindowAdvances`, a
property of steps, needs another one (`DaysAreInOrder`): no day of a window is still to come, and
the request that holds the row writes a day no earlier than the one there. `NothingMissed` needs
two more. The last day of the row is the end of a completed window, and no day of one is
to come (`Calendar`), and a window that does not reach back `WindowDays` begins the day before the last
one ended (`WindowJoins`). So of a document that showed up before its query a window that is being
imported has it in its list or has it done (`Accounted`), or the window before it covered the
document, for which the invariant holds already.

`Office_proofs` shows of `Invoicing`, for every finite set of invoices and every number of months, requests
and retries:

* `UniqueNumbers`, from `InvariantHolds`. A number is checked in one transaction step and written
  in another, so the strengthening says that a request has the lock of the invoice it numbers
  (`NumberingHoldsTheLock`) and that what a request found free stays free unless its month was
  raced for (`RacesAreKnown`). Steps that write a row are brought to one form (`Rewritten`), steps
  that do not to another, and each form is argued about once.
* `NumberKept`, a property of steps, from the same invariant.
* `NumbersInSequence`, from an invariant on top of it (`Sequence`): in a month without trouble a
  request that is numbering holds the count as it is now (`CountIsCurrent`). Every step but the
  commit leaves the numbers of such a month and the counts of it alone (`Settled`); the commit adds
  one invoice with the next number.

and of `Stock`, for every number of products, requests and movements, `LogAddsUp` and
`StockIsNotNegative`. The strengthening (`AloneReadsTheRow`) says that what a movement read is
still the row unless another movement of the product came in.

`Documents_proofs` shows for all forms, any number of lines, all prices, quantities and rates, and
whatever contractors and settings change to:

* `SumsAreAccepted`, `SentDocumentAddsUp` and `BuyerReads`, from `DocumentsHold`. The invariant
  follows the invoice: the lines of a row are what the form's quantities and prices give, each
  rounded once, and its sums are theirs (`RowHolds`); the document of an invoice that is under way
  is that of its row, since nothing edits the row then (`DocumentIsOfRow`); only an accepted
  document is read by the buyer (`ReceivedIsRead`). The lemmas are about the roundings:
  the price of a line is off by half a grosz for each piece and its VAT by half a grosz, so the VAT
  of a rate by half a grosz a line; the sums a submission compares are of the
  same lines, each rounded once, and the totals by rate add up to them (`SumByClass`).

Assumptions are those named in the modules: the null values are not rows, bounds are naturals, sets
of rows that are added up are finite, sale invoices are invoices, every invoice has a cash entry of
its own, a line is an item and a quantity, quantities of stock and amounts of a statement are
positive, the rate "0 KR" is not a number, no refusal is called "none".

Every safety property a passing run checks, state or step, is stated by a theorem. Only
model-checked is liveness (`SendingIsDecided`, `QueuedIsAttempted`, `LateSessionIsCleared`): it needs
fairness, so ENABLED, which is out of the prover's reach. The disagreements below are
counterexamples, so they stay with TLC as well.

## Disagreements between code and text

| run | code | text |
|---|---|---|
| `unavailable` | `submit_invoice.py:49` changes a copy of the invoice and does not save it; it stays SENDING | the log line there, and `test_ksef_session_worker.py:204`: the invoice is READY again |
| `oversized` | `poll_ksef_status.py:128` stores a text that may not fit its column; the batch is rolled back for ever, the polls of other invoices with it | `test_ksef_workflow_e2e.py:200`: a rejection ends in FAILED_PERMANENT and REJECTED |
| `posted_twice` | `warehouse_document_service.py:166` reads the status without a lock | the docstring at 163: a second call is a no-op |
| `cash_entry_reused` | `payment_service.py:303` overwrites the amount of a cash entry that may be allocated elsewhere | `models/bank_transaction.py:31` and the check at `payment_service.py:397`: no more is allocated than is left |

Met on the way, with no run of their own:

* `payment_service.py:132` says that each line is matched in a transaction of its own; all are in
  the transaction of the import. A line that is matched again when nothing is left gets an
  allocation of zero.
* `stock_service.py:79` says that the row of the stock is locked by SELECT FOR UPDATE; it is, but
  the quantity used is the one read before (`Stock` has the lost update). `domain/models/stock.py`
  says that a TRANSFER has a negative quantity; a quantity must be positive, so it adds.
* `create_invoice` moves stock for items with a `product_id`; `InvoiceItem` has no such field.
* `POST /invoices` with an Idempotency-Key fails: `routers/invoices.py:165` passes dates and
  Decimals, which `_hash_body` cannot write as JSON. The frontend sends no key.
* The default annotations of the mapper are "0" where `fa3.xsd:2647` allows "1" and "2" and
  `test_ksef_mapper.py:685` expects "2"; the helper `_yn12` is not used. Rate 0 is written to
  P_13_4 where `test_ksef_mapper.py:405` names P_13_6_1.
* An invoice in another currency can never be submitted: the check wants `vat_amount_pln` of every
  line and nothing sets it. A NIP with "PL" or "EU" before it, which the mapper handles, is refused
  by the check before it.
* The stored date of an exchange rate is the day asked for, not that of the table.
* The parser does not read the date of sale, the exchange rate, and annotations ("1" is written,
  "true" is looked for). An override that blanks a field is shown as if it were not there, and
  applied to the invoice. An update of a purchase invoice wipes its default due date.
* `number_local` has an index that is not unique; `DuplicateRequestError` has no handler.
* The summary of open invoices covers the page that is shown. A PUT of settings has no effect on
  a field that the environment sets.

## What is not modelled

Rendering, cryptography, HTTP headers and string scoring have no state and are left to the unit
tests. Of the XML, namespaces and the fields no request can fill (corrections, advances,
annotations, units) are left out. Idempotency keys are never stored, see above. Users, audit and
the catalogue of items are row access without rules between rows. The UPO is fetched once, after
an invoice was accepted, and a failed fetch is not repeated. `NbpRateValidator`,
`validate_zal_with_advances`, `validate_items_order`, `normalize_items_order`, `validate_xml` and
`expire_stale_sessions` are called by nothing. The frontend, the agent, local AI and the scripts
are beside the program.

## Plan

1. `Sessions` composed with `Submission` by its `session` variable, with the theorem that one
   ACTIVE row is what the pipeline reads; `Invoicing` with `PurchaseSync`, whose imports it has
   as one step.
2. Abstract specifications for `Warehouse` (a queue of layers per item) and `Payments` (a ledger
   that is summed), and that a request which is alone is one step of them; the invariants above
   are what such a refinement rests on.
3. The UPO, and the age of a cached contractor.
