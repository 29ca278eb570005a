---------------------------- MODULE PurchaseSync ----------------------------
(***************************************************************************)
(* Import of purchase invoices from KSeF.  There are two ways in, and both *)
(* end in sync_received_invoices.                                          *)
(*   POST /ksef/sync/purchases runs in the request: it writes "running" in *)
(* the row of ksef_sync_states, takes the window from what it loaded of    *)
(* that row, and writes the end of the window back with the invoices.      *)
(*   POST /ksef-sessions/sync-purchase enqueues a job with dates of its    *)
(* own; the one worker process runs it and never looks at the row.         *)
(*                                                                         *)
(* Either is one READ COMMITTED transaction.  The UPDATE of mark_running   *)
(* holds the lock of the row until the commit.  An invoice is looked up by *)
(* its KSeF number and inserted, document by document; ksef_reference_     *)
(* number has no UNIQUE constraint.                                        *)
(*                                                                         *)
(* Days are counted from 1; 0 is no day.  A session that is missing, late  *)
(* or refused is an error of the query (module Sessions has the sessions). *)
(* Left out: other NIPs, the content of an invoice, and the status, error  *)
(* and times of the row: "running" and "error" are never committed, since  *)
(* a request that fails raises and is rolled back.                         *)
(*                                                                         *)
(* A definition X_... is X with a plausible bug; no specification uses it. *)
(***************************************************************************)
EXTENDS Integers

CONSTANTS
  Clients,       \* concurrent requests
  Purchases,     \* documents others issue to the seller
  JobWindows,    \* windows users ask a job for
  WindowDays,    \* how far back a synchronisation reaches (30)
  Worker,        \* the worker process
  MaxDay, MaxSyncs, MaxJobs   \* bounds of the model

Days == 1..MaxDay
Actors == Clients \union {Worker}

ASSUME PurchaseSyncAssumption ==
  /\ Worker \notin Clients
  /\ JobWindows \subseteq [from: Days, to: Days]
  /\ WindowDays \in Nat /\ MaxDay \in Nat \ {0} /\ MaxSyncs \in Nat /\ MaxJobs \in Nat

VARIABLES
  today,
  dated,      \* invoicing date of a document at KSeF
  arrived,    \* day on which queries began to find it
  imported,   \* rows of invoices with its KSeF number, by who inserted them
  state,      \* the committed row of ksef_sync_states
  jobs,       \* pending sync_purchase_invoices jobs
  sync,       \* the synchronisation an actor is in the middle of
  syncs, enqueued,   \* requests so far
  dropped,    \* documents that a completed synchronisation received and left
  syncDays    \* last days of the windows completed by requests
vars == <<today, dated, arrived, imported, state, jobs, sync, syncs, enqueued, dropped, syncDays>>
worldVars == <<today, dated, arrived>>
counters == <<syncs, enqueued>>
history == <<dropped, syncDays>>

Window == [from: Int, to: 0..MaxDay]
Sync ==
  [step: {"idle", "running", "query", "import"}, exists: BOOLEAN, last: 0..MaxDay,
   window: Window, todo: SUBSET Purchases, new: SUBSET Purchases, left: SUBSET Purchases]

NoWindow == [from |-> 0, to |-> 0]
NoSync ==
  [step |-> "idle", exists |-> FALSE, last |-> 0, window |-> NoWindow,
   todo |-> {}, new |-> {}, left |-> {}]

TypeOK ==
  /\ today \in Days
  /\ dated \in [Purchases -> 0..MaxDay]
  /\ arrived \in [Purchases -> 0..MaxDay]
  /\ imported \in [Purchases -> [request: Nat, job: Nat]]
  /\ state \in [exists: BOOLEAN, last: 0..MaxDay]
  /\ jobs \subseteq JobWindows
  /\ sync \in [Actors -> Sync]
  /\ syncs \in Nat /\ enqueued \in Nat
  /\ dropped \subseteq Purchases
  /\ syncDays \subseteq 0..MaxDay

Init ==
  /\ today = 1
  /\ dated = [p \in Purchases |-> 0]
  /\ arrived = [p \in Purchases |-> 0]
  /\ imported = [p \in Purchases |-> [request |-> 0, job |-> 0]]
  /\ state = [exists |-> FALSE, last |-> 0]
  /\ jobs = {}
  /\ sync = [a \in Actors |-> NoSync]
  /\ syncs = 0 /\ enqueued = 0
  /\ dropped = {} /\ syncDays = {}

-----------------------------------------------------------------------------
(* KSeF and the calendar                                                    *)

NextDay ==
  /\ today < MaxDay
  /\ today' = today + 1
  /\ UNCHANGED <<dated, arrived, imported, state, jobs, sync, counters, history>>

\* KSeF shows a document of today or, late, of one of the last days.
Arrive(p, d) ==
  /\ arrived[p] = 0
  /\ d \in Days /\ d \in (today - 2)..today
  /\ arrived' = [arrived EXCEPT ![p] = today]
  /\ dated' = [dated EXCEPT ![p] = d]
  /\ UNCHANGED <<today, imported, state, jobs, sync, counters, history>>

Found(window) ==
  {p \in Purchases : arrived[p] # 0 /\ dated[p] \in window.from..window.to}

-----------------------------------------------------------------------------
(* The row of ksef_sync_states                                              *)

\* A request that has written the row and not committed.
HoldsRow_Nobody(c) == FALSE
HoldsRow(c) == sync[c].step \in {"query", "import"}
RowIsFree == \A c \in Clients : ~HoldsRow(c)

\* GET /ksef/sync/status inserts the row when it is missing.
GetSyncStatus ==
  /\ ~state.exists
  /\ RowIsFree
  /\ state' = [state EXCEPT !.exists = TRUE]
  /\ UNCHANGED <<worldVars, imported, jobs, sync, counters, history>>

Later(d, e) == IF d > e THEN d ELSE e

\* The window goes on where the last one ended.
SyncWindow_NoOverlap(last) ==
  [from |-> IF last = 0 THEN today - WindowDays ELSE Later(today - WindowDays, last),
   to |-> today]
SyncWindow(last) ==
  [from |-> IF last = 0 THEN today - WindowDays ELSE Later(today - WindowDays, last - 1),
   to |-> today]

-----------------------------------------------------------------------------
(* POST /ksef/sync/purchases                                                *)

\* get_or_create loads the row; with "force" the last day is not looked at.
SyncPurchases(c, force) ==
  /\ sync[c] = NoSync
  /\ syncs < MaxSyncs
  /\ syncs' = syncs + 1
  /\ sync' = [sync EXCEPT ![c] =
                [NoSync EXCEPT !.step = "running", !.exists = state.exists,
                               !.last = IF force THEN 0 ELSE state.last]]
  /\ UNCHANGED <<worldVars, imported, state, jobs, enqueued, history>>

\* The UPDATE, or the INSERT of a row that was missing, waits for the row.  A
\* row that another request inserted first violates the UNIQUE scope.
MarkRunning(c) ==
  /\ sync[c].step = "running"
  /\ RowIsFree
  /\ sync[c].exists = state.exists
  /\ sync' = [sync EXCEPT ![c].step = "query", ![c].window = SyncWindow(sync[c].last)]
  /\ UNCHANGED <<worldVars, imported, state, jobs, counters, history>>

\* POST /ksef-sessions/sync-purchase: dates chosen by the user.
EnqueueSync(window) ==
  /\ enqueued < MaxJobs
  /\ enqueued' = enqueued + 1
  /\ jobs' = jobs \union {window}
  /\ UNCHANGED <<worldVars, imported, state, sync, syncs, history>>

StartJob(window) ==
  /\ sync[Worker] = NoSync
  /\ window \in jobs
  /\ sync' = [sync EXCEPT ![Worker].step = "query", ![Worker].window = window]
  /\ UNCHANGED <<worldVars, imported, state, jobs, counters, history>>

-----------------------------------------------------------------------------
(* sync_received_invoices                                                   *)

\* Endpoints are tried in turn while they answer 404, 405 or "wrong reference".
FirstReply(replies) ==
  LET served == {i \in DOMAIN replies : replies[i] # "unavailable"} IN
  IF served = {} THEN "unavailable"
  ELSE replies[CHOOSE i \in served : \A j \in served : i <= j]

\* Three GET endpoints, then two POST ones.
Reply(get, post) ==
  IF FirstReply(get) = "unavailable" THEN FirstReply(post) ELSE FirstReply(get)

\* A reference is polled 20 times.  A query still in progress after that ends
\* with the empty list of no result, and no error.
Listing(reply, poll) ==
  CASE reply = "list" -> "list"
    [] reply = "reference" /\ poll # "error" -> IF poll = "done" THEN "list" ELSE "nothing"
    [] OTHER -> "error"

Listings ==
  {Listing(Reply(get, post), poll) :
     get \in [1..3 -> {"unavailable", "error", "reference", "list"}],
     post \in [1..2 -> {"unavailable", "error", "reference"}],
     poll \in {"done", "error", "processing"}}

\* query_received_invoices: the list, then every document; a download that
\* fails is logged and left out.
QueryReceivedInvoices(a, listing, failed) ==
  /\ sync[a].step = "query"
  /\ listing # "error"
  /\ LET found == Found(sync[a].window) IN
       /\ failed \subseteq found
       /\ listing = "nothing" => failed = found
       /\ sync' = [sync EXCEPT ![a].step = "import", ![a].todo = found \ failed,
                               ![a].left = failed]
  /\ UNCHANGED <<worldVars, imported, state, jobs, counters, history>>

ExistsByKSeFNumber_Never(p) == p \notin Purchases
ExistsByKSeFNumber(p) == imported[p].request + imported[p].job > 0

\* One document: it exists, cannot be parsed, or is inserted.
ImportInvoice(a, p, parsed) ==
  /\ sync[a].step = "import"
  /\ p \in sync[a].todo
  /\ sync' = [sync EXCEPT
       ![a].todo = @ \ {p},
       ![a].new = IF parsed /\ ~ExistsByKSeFNumber(p) THEN @ \union {p} ELSE @,
       ![a].left = IF ~parsed /\ ~ExistsByKSeFNumber(p) THEN @ \union {p} ELSE @]
  /\ UNCHANGED <<worldVars, imported, state, jobs, counters, history>>

Inserted(a, who) ==
  imported' = [p \in Purchases |->
                 IF p \in sync[a].new THEN [imported[p] EXCEPT ![who] = @ + 1] ELSE imported[p]]

MarkSuccess(c) ==
  /\ sync[c].step = "import"
  /\ sync[c].todo = {}
  /\ state' = [exists |-> TRUE, last |-> sync[c].window.to]
  /\ Inserted(c, "request")
  /\ dropped' = dropped \union sync[c].left
  /\ syncDays' = syncDays \union {sync[c].window.to}
  /\ sync' = [sync EXCEPT ![c] = NoSync]
  /\ UNCHANGED <<worldVars, jobs, counters>>

JobDone ==
  /\ sync[Worker].step = "import"
  /\ sync[Worker].todo = {}
  /\ Inserted(Worker, "job")
  /\ jobs' = jobs \ {sync[Worker].window}
  /\ sync' = [sync EXCEPT ![Worker] = NoSync]
  /\ UNCHANGED <<worldVars, state, counters, history>>

\* An error of the session or of KSeF: the job, which has one attempt, is
\* failed for good.
JobFailed ==
  /\ sync[Worker].step = "query"
  /\ jobs' = jobs \ {sync[Worker].window}
  /\ sync' = [sync EXCEPT ![Worker] = NoSync]
  /\ UNCHANGED <<worldVars, imported, state, counters, history>>

\* The request raises, a flush fails, or the process dies: everything is
\* rolled back, and a job is pending as before.
Rollback(a) ==
  /\ sync[a] # NoSync
  /\ sync' = [sync EXCEPT ![a] = NoSync]
  /\ UNCHANGED <<worldVars, imported, state, jobs, counters, history>>

-----------------------------------------------------------------------------
(* Specification *)

WorldStep == NextDay \/ \E p \in Purchases, d \in Days : Arrive(p, d)

RequestStep(c) ==
  \/ \E force \in BOOLEAN : SyncPurchases(c, force)
  \/ MarkRunning(c)
  \/ MarkSuccess(c)

WorkerStep == (\E window \in jobs : StartJob(window)) \/ JobDone \/ JobFailed

ImportStep(a) ==
  \/ \E listing \in Listings, failed \in SUBSET Purchases : QueryReceivedInvoices(a, listing, failed)
  \/ \E p \in Purchases, parsed \in BOOLEAN : ImportInvoice(a, p, parsed)
  \/ Rollback(a)

Next ==
  \/ WorldStep
  \/ GetSyncStatus
  \/ \E window \in JobWindows : EnqueueSync(window)
  \/ \E c \in Clients : RequestStep(c)
  \/ WorkerStep
  \/ \E a \in Actors : ImportStep(a)

Spec == Init /\ [][Next]_vars

-----------------------------------------------------------------------------
(* Properties                                                               *)

\* Requests wait for each other on the row of ksef_sync_states and there is
\* one worker, so neither imports a document a second time, however many
\* synchronisations overlap.  (A request beside the job can.)
ImportedOnce ==
  \A p \in Purchases : imported[p].request <= 1 /\ imported[p].job <= 1

\* A document that shows up at KSeF no later than the day after its date is
\* in the database once a request completed on a later day, within the reach
\* of a window, unless a completed one left it for a failed download or an
\* XML it could not read.
NothingIsMissed ==
  \A p \in Purchases, s \in syncDays :
    /\ arrived[p] \in Days
    /\ arrived[p] <= dated[p] + 1
    /\ arrived[p] < s
    /\ s <= dated[p] + WindowDays
    /\ p \notin dropped
    => ExistsByKSeFNumber(p)

\* The end of the last window never moves back, whatever request took longer:
\* the date is read under the lock of the row.
WindowOnlyAdvances == [][state'.last >= state.last]_vars

\* Why: one request at a time is past mark_running, and what an actor is about
\* to insert its like has not inserted.
LockHolds ==
  /\ \A c, d \in Clients : HoldsRow(c) /\ HoldsRow(d) => c = d
  /\ \A c \in Clients : ~HoldsRow(c) => sync[c].new = {}
  /\ \A c \in Clients : \A p \in sync[c].new : imported[p].request = 0
  /\ \A p \in sync[Worker].new : imported[p].job = 0

\* The inductive invariant.
IInv == TypeOK /\ LockHolds /\ ImportedOnce
=============================================================================
