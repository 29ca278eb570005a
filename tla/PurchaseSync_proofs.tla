------------------------ MODULE PurchaseSync_proofs ------------------------
(***************************************************************************)
(* Proofs about PurchaseSync, for any documents, windows and number of     *)
(* requests: requests, and jobs, import a document once; the end of the    *)
(* last window never moves back; and windows leave no document between     *)
(* them.                                                                   *)
(***************************************************************************)
EXTENDS PurchaseSync, TLAPS

USE DEF Actors

Count == [request: Nat, job: Nat]

LEMMA WorkerIsNoClient == Worker \notin Clients
BY PurchaseSyncAssumption

LEMMA NoSyncType == NoSync \in Sync
BY PurchaseSyncAssumption DEF NoSync, Sync, Window, NoWindow

\* The window that a request takes ends today.
LEMMA WindowType ==
  ASSUME TypeOK, NEW last \in 0..MaxDay
  PROVE  SyncWindow(last) \in Window
BY PurchaseSyncAssumption DEF TypeOK, SyncWindow, Later, Window, Days

LEMMA JobWindowType == JobWindows \subseteq Window
BY PurchaseSyncAssumption DEF Window, Days

-----------------------------------------------------------------------------
(* Types *)

\* Inserting keeps counts natural.
LEMMA InsertedType ==
  ASSUME TypeOK, NEW a \in Actors, NEW who \in {"request", "job"}, Inserted(a, who)
  PROVE  imported' \in [Purchases -> Count]
<1>1. \A p \in Purchases : imported[p] \in Count
  BY DEF TypeOK, Count
<1>2. \A p \in Purchases : [imported[p] EXCEPT ![who] = @ + 1] \in Count
  BY <1>1 DEF Count
<1> QED
  BY <1>1, <1>2 DEF Inserted

\* The step of one actor's synchronisation.
LEMMA SyncType ==
  ASSUME TypeOK, NEW a \in Actors, NEW s \in Sync, sync' = [sync EXCEPT ![a] = s]
  PROVE  sync' \in [Actors -> Sync]
BY DEF TypeOK

LEMMA TypeInit == Init => TypeOK
<1> SUFFICES ASSUME Init PROVE TypeOK
  OBVIOUS
<1>1. [exists |-> FALSE, last |-> 0] \in [exists: BOOLEAN, last: 0..MaxDay]
  BY PurchaseSyncAssumption
<1> QED
  BY <1>1, NoSyncType, PurchaseSyncAssumption DEF Init, TypeOK, Days

LEMMA WorldKeepsTypes == ASSUME TypeOK, WorldStep PROVE TypeOK'
<1>1. CASE NextDay
  BY <1>1, PurchaseSyncAssumption DEF NextDay, TypeOK, Days, counters, history
<1>2. ASSUME NEW p \in Purchases, NEW d \in Days, Arrive(p, d) PROVE TypeOK'
  <2>1. dated' \in [Purchases -> 0..MaxDay] /\ arrived' \in [Purchases -> 0..MaxDay]
    BY <1>2, PurchaseSyncAssumption DEF Arrive, TypeOK, Days
  <2> QED
    BY <1>2, <2>1 DEF Arrive, TypeOK, counters, history
<1> QED
  BY <1>1, <1>2 DEF WorldStep

LEMMA RequestKeepsTypes == ASSUME TypeOK, NEW c \in Clients, RequestStep(c) PROVE TypeOK'
<1>0. sync[c] \in Sync /\ state \in [exists: BOOLEAN, last: 0..MaxDay]
  BY DEF TypeOK
<1>1. ASSUME NEW force \in BOOLEAN, SyncPurchases(c, force) PROVE TypeOK'
  <2> DEFINE s == [NoSync EXCEPT !.step = "running", !.exists = state.exists,
                                 !.last = IF force THEN 0 ELSE state.last]
  <2>1. (IF force THEN 0 ELSE state.last) \in 0..MaxDay
    BY <1>0, PurchaseSyncAssumption
  <2>2. s \in Sync
    BY <1>0, <2>1, NoSyncType DEF Sync
  <2>3. sync' = [sync EXCEPT ![c] = s]
    BY <1>1 DEF SyncPurchases
  <2> HIDE DEF s
  <2>4. sync' \in [Actors -> Sync]
    BY <2>2, <2>3, SyncType
  <2> QED
    BY <1>1, <2>4 DEF SyncPurchases, TypeOK, worldVars, history
<1>2. ASSUME MarkRunning(c) PROVE TypeOK'
  <2> DEFINE s == [sync[c] EXCEPT !.step = "query", !.window = SyncWindow(sync[c].last)]
  <2>1. SyncWindow(sync[c].last) \in Window
    BY <1>0, WindowType DEF Sync
  <2>2. s \in Sync
    BY <1>0, <2>1 DEF Sync
  <2>3. sync' = [sync EXCEPT ![c] = s]
    BY <1>2 DEF MarkRunning, TypeOK
  <2> HIDE DEF s
  <2>4. sync' \in [Actors -> Sync]
    BY <2>2, <2>3, SyncType
  <2> QED
    BY <1>2, <2>4 DEF MarkRunning, TypeOK, worldVars, counters, history
<1>3. ASSUME MarkSuccess(c) PROVE TypeOK'
  <2>1. imported' \in [Purchases -> Count]
    BY <1>3, InsertedType DEF MarkSuccess
  <2>2. sync' \in [Actors -> Sync]
    BY <1>3, NoSyncType, SyncType DEF MarkSuccess
  <2>3. sync[c].left \subseteq Purchases /\ sync[c].window.to \in 0..MaxDay
    BY <1>0 DEF Sync, Window
  <2> QED
    BY <1>3, <2>1, <2>2, <2>3 DEF MarkSuccess, TypeOK, worldVars, counters, Count
<1> QED
  BY <1>1, <1>2, <1>3 DEF RequestStep

LEMMA WorkerKeepsTypes == ASSUME TypeOK, WorkerStep PROVE TypeOK'
<1>0. sync[Worker] \in Sync
  BY DEF TypeOK
<1>1. ASSUME NEW window \in jobs, StartJob(window) PROVE TypeOK'
  <2> DEFINE s == [sync[Worker] EXCEPT !.step = "query", !.window = window]
  <2>1. window \in Window
    BY JobWindowType DEF TypeOK
  <2>2. s \in Sync
    BY <1>0, <2>1 DEF Sync
  <2>3. sync' = [sync EXCEPT ![Worker] = s]
    BY <1>1 DEF StartJob, TypeOK
  <2> HIDE DEF s
  <2>4. sync' \in [Actors -> Sync]
    BY <2>2, <2>3, SyncType
  <2> QED
    BY <1>1, <2>4 DEF StartJob, TypeOK, worldVars, counters, history
<1>2. CASE JobDone
  <2>1. imported' \in [Purchases -> Count]
    BY <1>2, InsertedType DEF JobDone
  <2>2. sync' \in [Actors -> Sync]
    BY <1>2, NoSyncType, SyncType DEF JobDone
  <2> QED
    BY <1>2, <2>1, <2>2 DEF JobDone, TypeOK, worldVars, counters, history, Count
<1>3. CASE JobFailed
  <2>1. sync' \in [Actors -> Sync]
    BY <1>3, NoSyncType, SyncType DEF JobFailed
  <2> QED
    BY <1>3, <2>1 DEF JobFailed, TypeOK, worldVars, counters, history
<1> QED
  BY <1>1, <1>2, <1>3 DEF WorkerStep

LEMMA ImportKeepsTypes == ASSUME TypeOK, NEW a \in Actors, ImportStep(a) PROVE TypeOK'
<1>0. sync[a] \in Sync
  BY DEF TypeOK
<1>1. ASSUME NEW listing, NEW failed \in SUBSET Purchases, QueryReceivedInvoices(a, listing, failed)
      PROVE  TypeOK'
  <2> DEFINE s == [sync[a] EXCEPT !.step = "import", !.todo = Found(sync[a].window) \ failed,
                                  !.left = failed]
  <2>1. s \in Sync
    BY <1>0 DEF Sync, Found
  <2>2. sync' = [sync EXCEPT ![a] = s]
    BY <1>1 DEF QueryReceivedInvoices, TypeOK
  <2> HIDE DEF s
  <2>3. sync' \in [Actors -> Sync]
    BY <2>1, <2>2, SyncType
  <2> QED
    BY <1>1, <2>3 DEF QueryReceivedInvoices, TypeOK, worldVars, counters, history
<1>2. ASSUME NEW p \in Purchases, NEW parsed \in BOOLEAN, ImportInvoice(a, p, parsed)
      PROVE  TypeOK'
  <2> DEFINE new == IF parsed /\ ~ExistsByKSeFNumber(p) THEN sync[a].new \union {p} ELSE sync[a].new
             left == IF ~parsed /\ ~ExistsByKSeFNumber(p) THEN sync[a].left \union {p} ELSE sync[a].left
             s == [sync[a] EXCEPT !.todo = @ \ {p}, !.new = new, !.left = left]
  <2>1. new \subseteq Purchases /\ left \subseteq Purchases
    BY <1>0 DEF Sync
  <2>2. sync' = [sync EXCEPT ![a] = s]
    BY <1>2 DEF ImportInvoice, TypeOK
  <2> HIDE DEF new, left
  <2>3. s \in Sync
    BY <1>0, <2>1 DEF Sync
  <2> HIDE DEF s
  <2>4. sync' \in [Actors -> Sync]
    BY <2>2, <2>3, SyncType
  <2> QED
    BY <1>2, <2>4 DEF ImportInvoice, TypeOK, worldVars, counters, history
<1>3. ASSUME Rollback(a) PROVE TypeOK'
  <2>1. sync' \in [Actors -> Sync]
    BY <1>3, NoSyncType, SyncType DEF Rollback
  <2> QED
    BY <1>3, <2>1 DEF Rollback, TypeOK, worldVars, counters, history
<1> QED
  BY <1>1, <1>2, <1>3 DEF ImportStep

LEMMA StepKeepsTypes == ASSUME TypeOK, [Next]_vars PROVE TypeOK'
<1>1. CASE GetSyncStatus
  BY <1>1 DEF GetSyncStatus, TypeOK, worldVars, counters, history
<1>2. ASSUME NEW window \in JobWindows, EnqueueSync(window) PROVE TypeOK'
  BY <1>2 DEF EnqueueSync, TypeOK, worldVars, history
<1>3. CASE UNCHANGED vars
  BY <1>3 DEF vars, TypeOK
<1> QED
  BY <1>1, <1>2, <1>3, WorldKeepsTypes, RequestKeepsTypes, WorkerKeepsTypes, ImportKeepsTypes
  DEF Next

-----------------------------------------------------------------------------
(* The lock *)

\* Nothing is inserted, no request takes the row, and what is to be inserted
\* has not been.
Quiet ==
  /\ imported' = imported
  /\ \A c \in Clients : HoldsRow(c)' => HoldsRow(c)
  /\ \A c \in Clients : sync'[c].new = {} \/ HoldsRow(c)'
  /\ \A a \in Actors : \A p \in sync'[a].new :
       p \in sync[a].new \/ (imported[p].request = 0 /\ imported[p].job = 0)

LEMMA QuietKeeps ==
  ASSUME LockHolds, ImportedOnce, Quiet
  PROVE  LockHolds' /\ ImportedOnce'
BY DEF LockHolds, ImportedOnce, Quiet

\* A step that leaves documents and synchronisations alone.
LEMMA IdleIsQuiet ==
  ASSUME LockHolds, imported' = imported, sync' = sync
  PROVE  Quiet
BY DEF Quiet, HoldsRow, LockHolds

\* An actor whose synchronisation starts or ends without a document.
LEMMA EmptyIsQuiet ==
  ASSUME TypeOK, LockHolds, imported' = imported, NEW a \in Actors, NEW s, s.new = {},
         s.step \notin {"query", "import"}, sync' = [sync EXCEPT ![a] = s]
  PROVE  Quiet
<1>1. \A x \in Actors : sync'[x] = IF x = a THEN s ELSE sync[x]
  BY DEF TypeOK
<1> QED
  BY <1>1 DEF Quiet, HoldsRow, LockHolds

LEMMA InitLock == Init => LockHolds /\ ImportedOnce
BY DEF Init, LockHolds, ImportedOnce, HoldsRow, NoSync

LEMMA RequestKeepsLock ==
  ASSUME TypeOK, LockHolds, ImportedOnce, NEW c \in Clients, RequestStep(c)
  PROVE  LockHolds' /\ ImportedOnce'
<1>0. sync[c] \in Sync /\ sync[Worker] \in Sync /\ c # Worker
  BY WorkerIsNoClient DEF TypeOK
<1>1. ASSUME NEW force \in BOOLEAN, SyncPurchases(c, force) PROVE LockHolds' /\ ImportedOnce'
  <2> DEFINE s == [NoSync EXCEPT !.step = "running", !.exists = state.exists,
                                 !.last = IF force THEN 0 ELSE state.last]
  <2>1. s.new = {} /\ s.step \notin {"query", "import"}
    BY DEF NoSync
  <2>2. sync' = [sync EXCEPT ![c] = s] /\ imported' = imported
    BY <1>1 DEF SyncPurchases
  <2> HIDE DEF s
  <2> QED
    BY <2>1, <2>2, EmptyIsQuiet, QuietKeeps
<1>2. ASSUME MarkRunning(c) PROVE LockHolds' /\ ImportedOnce'
  <2>1. \A x \in Clients : ~HoldsRow(x)
    BY <1>2 DEF MarkRunning, RowIsFree
  <2>2. \A x \in Actors : sync'[x].new = sync[x].new /\ (x # c => sync'[x] = sync[x])
    BY <1>2, <1>0 DEF MarkRunning, TypeOK
  <2>3. imported' = imported
    BY <1>2 DEF MarkRunning
  <2> QED
    BY <2>1, <2>2, <2>3 DEF LockHolds, ImportedOnce, HoldsRow
<1>3. ASSUME MarkSuccess(c) PROVE LockHolds' /\ ImportedOnce'
  <2>1. \A x \in Actors : sync'[x] = IF x = c THEN NoSync ELSE sync[x]
    BY <1>3 DEF MarkSuccess, TypeOK
  <2>2. \A x \in Clients : x # c => ~HoldsRow(x) /\ sync[x].new = {}
    BY <1>3 DEF MarkSuccess, LockHolds, HoldsRow
  <2>3. \A p \in Purchases : /\ imported'[p].job = imported[p].job
                            /\ imported'[p].request <= 1
    BY <1>3 DEF MarkSuccess, Inserted, LockHolds, ImportedOnce, TypeOK
  <2>4. sync[Worker].new \subseteq Purchases
    BY <1>0 DEF Sync
  <2> QED
    BY <1>0, <2>1, <2>2, <2>3, <2>4 DEF LockHolds, ImportedOnce, HoldsRow, NoSync
<1> QED
  BY <1>1, <1>2, <1>3 DEF RequestStep

LEMMA WorkerKeepsLock ==
  ASSUME TypeOK, LockHolds, ImportedOnce, WorkerStep
  PROVE  LockHolds' /\ ImportedOnce'
<1>1. ASSUME NEW window \in jobs, StartJob(window) PROVE Quiet
  <2>1. sync[Worker] \in Sync
    BY DEF TypeOK
  <2>2. \A x \in Actors : sync'[x].new = sync[x].new /\ (x # Worker => sync'[x] = sync[x])
    BY <1>1, <2>1 DEF StartJob, TypeOK, Sync
  <2> QED
    BY <1>1, <2>2, WorkerIsNoClient DEF StartJob, Quiet, LockHolds, HoldsRow
<1>2. CASE JobDone
  <2>1. \A x \in Actors : sync'[x] = IF x = Worker THEN NoSync ELSE sync[x]
    BY <1>2 DEF JobDone, TypeOK
  <2>2. \A p \in Purchases : /\ imported'[p].request = imported[p].request
                            /\ imported'[p].job <= 1
    BY <1>2 DEF JobDone, Inserted, LockHolds, ImportedOnce, TypeOK
  <2>3. \A x \in Clients : sync[x].new \subseteq Purchases
    BY DEF TypeOK, Sync
  <2> QED
    BY <2>1, <2>2, <2>3, WorkerIsNoClient DEF LockHolds, ImportedOnce, HoldsRow, NoSync
<1>3. CASE JobFailed
  BY <1>3, EmptyIsQuiet, QuietKeeps DEF JobFailed, NoSync
<1> QED
  BY <1>1, <1>2, <1>3, QuietKeeps DEF WorkerStep

LEMMA ImportIsQuiet ==
  ASSUME TypeOK, LockHolds, NEW a \in Actors, ImportStep(a)
  PROVE  Quiet
<1>0. sync[a] \in Sync
  BY DEF TypeOK
<1>1. ASSUME NEW listing, NEW failed \in SUBSET Purchases, QueryReceivedInvoices(a, listing, failed)
      PROVE  Quiet
  <2>1. \A x \in Actors : /\ sync'[x].new = sync[x].new
                          /\ x # a => sync'[x] = sync[x]
                          /\ x = a => sync[x].step = "query" /\ sync'[x].step = "import"
    BY <1>0, <1>1 DEF QueryReceivedInvoices, TypeOK, Sync
  <2> QED
    BY <1>1, <2>1 DEF QueryReceivedInvoices, Quiet, LockHolds, HoldsRow
<1>2. ASSUME NEW p \in Purchases, NEW parsed \in BOOLEAN, ImportInvoice(a, p, parsed)
      PROVE  Quiet
  <2>1. /\ \A x \in Actors : x # a => sync'[x] = sync[x]
        /\ sync'[a].step = "import" /\ sync[a].step = "import"
        /\ sync'[a].new \in {sync[a].new, sync[a].new \union {p}}
        /\ ExistsByKSeFNumber(p) => sync'[a].new = sync[a].new
    BY <1>0, <1>2 DEF ImportInvoice, TypeOK, Sync
  <2>2. ~ExistsByKSeFNumber(p) => imported[p].request = 0 /\ imported[p].job = 0
    BY DEF ExistsByKSeFNumber, TypeOK
  <2> QED
    BY <1>2, <2>1, <2>2 DEF ImportInvoice, Quiet, LockHolds, HoldsRow
<1>3. ASSUME Rollback(a) PROVE Quiet
  BY <1>3, EmptyIsQuiet DEF Rollback, NoSync
<1> QED
  BY <1>1, <1>2, <1>3 DEF ImportStep

LEMMA StepKeepsLock ==
  ASSUME TypeOK, LockHolds, ImportedOnce, [Next]_vars
  PROVE  LockHolds' /\ ImportedOnce'
<1>1. ASSUME WorldStep \/ GetSyncStatus \/ (\E w \in JobWindows : EnqueueSync(w)) \/ UNCHANGED vars
      PROVE  imported' = imported /\ sync' = sync
  BY <1>1 DEF WorldStep, NextDay, Arrive, GetSyncStatus, EnqueueSync, vars
<1> QED
  BY <1>1, IdleIsQuiet, QuietKeeps, RequestKeepsLock, WorkerKeepsLock, ImportIsQuiet DEF Next

\* Types, the lock of the state row and what it protects.
THEOREM SyncInvariant == Spec => []IInv
<1>1. Init => IInv
  BY TypeInit, InitLock DEF IInv
<1>2. IInv /\ [Next]_vars => IInv'
  BY StepKeepsTypes, StepKeepsLock DEF IInv
<1> QED
  BY <1>1, <1>2, PTL DEF Spec

\* Requests import a document at most once, and so do jobs.
THEOREM DocumentsImportedOnce == Spec => []ImportedOnce
BY SyncInvariant, PTL DEF IInv

-----------------------------------------------------------------------------
(* The window *)

\* No day of a window is to come, and the request that holds the row writes a
\* day that is no earlier than the one that is there.
DaysAreInOrder ==
  /\ state.last <= today
  /\ \A c \in Clients :
       HoldsRow(c) => state.last <= sync[c].window.to /\ sync[c].window.to <= today

\* A step that leaves the last day alone, and takes no row but with a window
\* that ends today.
Steady ==
  /\ today' \in Int /\ today' >= today
  /\ state'.last = state.last
  /\ \A c \in Clients : HoldsRow(c)' =>
       \/ HoldsRow(c) /\ sync'[c].window = sync[c].window
       \/ sync'[c].window.to = today

LEMMA DayTypes ==
  ASSUME TypeOK
  PROVE  /\ today \in Int /\ state.last \in Int
         /\ \A a \in Actors : sync[a] \in Sync /\ sync[a].window.to \in Int
BY PurchaseSyncAssumption DEF TypeOK, Days, Sync, Window

LEMMA SteadyKeeps ==
  ASSUME TypeOK, DaysAreInOrder, Steady
  PROVE  DaysAreInOrder' /\ state'.last >= state.last
BY DayTypes DEF Steady, DaysAreInOrder

LEMMA ImportIsSteady ==
  ASSUME TypeOK, NEW a \in Actors, ImportStep(a)
  PROVE  Steady
<1>1. today' = today /\ state' = state /\ today \in Int
  BY DayTypes DEF ImportStep, QueryReceivedInvoices, ImportInvoice, Rollback, worldVars
<1>2. \A x \in Actors : x # a => sync'[x] = sync[x]
  BY DEF ImportStep, QueryReceivedInvoices, ImportInvoice, Rollback, TypeOK
<1>0. sync[a] \in Sync
  BY DayTypes
<1>3. sync'[a] = NoSync \/ (/\ sync'[a].window = sync[a].window
                            /\ sync[a].step \in {"query", "import"})
  <2>1. ASSUME NEW listing, NEW failed \in SUBSET Purchases, QueryReceivedInvoices(a, listing, failed)
        PROVE  sync'[a].window = sync[a].window /\ sync[a].step \in {"query", "import"}
    BY <1>0, <2>1 DEF QueryReceivedInvoices, TypeOK, Sync
  <2>2. ASSUME NEW p \in Purchases, NEW parsed \in BOOLEAN, ImportInvoice(a, p, parsed)
        PROVE  sync'[a].window = sync[a].window /\ sync[a].step \in {"query", "import"}
    BY <1>0, <2>2 DEF ImportInvoice, TypeOK, Sync
  <2>3. ASSUME Rollback(a) PROVE sync'[a] = NoSync
    BY <2>3 DEF Rollback, TypeOK
  <2> QED
    BY <2>1, <2>2, <2>3 DEF ImportStep
<1> QED
  BY <1>1, <1>2, <1>3 DEF Steady, HoldsRow, NoSync

LEMMA StepAdvances ==
  ASSUME TypeOK, LockHolds, DaysAreInOrder, [Next]_vars
  PROVE  DaysAreInOrder' /\ state'.last >= state.last
<1>1. CASE NextDay
  BY <1>1, DayTypes, SteadyKeeps DEF NextDay, Steady, HoldsRow
<1>2. ASSUME NEW p \in Purchases, NEW d \in Days, Arrive(p, d)
      PROVE  Steady
  BY <1>2, DayTypes DEF Arrive, Steady, HoldsRow
<1>3. CASE GetSyncStatus
  BY <1>3, DayTypes, SteadyKeeps DEF GetSyncStatus, Steady, HoldsRow, worldVars, TypeOK
<1>4. ASSUME NEW window \in JobWindows, EnqueueSync(window)
      PROVE  Steady
  BY <1>4, DayTypes DEF EnqueueSync, Steady, HoldsRow, worldVars
<1>5. ASSUME NEW c \in Clients, NEW force \in BOOLEAN, SyncPurchases(c, force)
      PROVE  Steady
  <2>1. /\ sync'[c].step = "running"
        /\ \A x \in Clients : x # c => sync'[x] = sync[x]
    BY <1>5, NoSyncType DEF SyncPurchases, TypeOK, Sync
  <2> QED
    BY <1>5, <2>1, DayTypes DEF SyncPurchases, Steady, HoldsRow, worldVars
<1>6. ASSUME NEW c \in Clients, MarkRunning(c)
      PROVE  Steady
  <2>1. /\ sync'[c].window = SyncWindow(sync[c].last)
        /\ \A x \in Clients : x # c => sync'[x] = sync[x]
    <3>1. sync[c] \in Sync
      BY DayTypes
    <3> QED
      BY <1>6, <3>1 DEF MarkRunning, TypeOK, Sync
  <2>2. sync'[c].window.to = today
    BY <2>1 DEF SyncWindow
  <2>3. today' = today /\ state' = state /\ today \in Int
    BY <1>6, DayTypes DEF MarkRunning, worldVars
  <2>4. ASSUME NEW x \in Clients, HoldsRow(x)'
        PROVE  (HoldsRow(x) /\ sync'[x].window = sync[x].window) \/ sync'[x].window.to = today
    BY <2>1, <2>2, <2>4 DEF HoldsRow
  <2> QED
    BY <2>3, <2>4 DEF Steady
<1>7. ASSUME NEW c \in Clients, MarkSuccess(c)
      PROVE  DaysAreInOrder' /\ state'.last >= state.last
  <2>1. HoldsRow(c) /\ state'.last = sync[c].window.to /\ today' = today
    BY <1>7 DEF MarkSuccess, HoldsRow, worldVars
  <2>2. \A x \in Clients : ~HoldsRow(x)'
    <3>1. \A x \in Clients : x # c => ~HoldsRow(x) /\ sync'[x] = sync[x]
      BY <1>7, <2>1 DEF MarkSuccess, LockHolds, TypeOK
    <3>2. sync'[c] = NoSync
      BY <1>7 DEF MarkSuccess, TypeOK
    <3> QED
      BY <3>1, <3>2 DEF HoldsRow, NoSync
  <2> QED
    BY <2>1, <2>2, DayTypes DEF DaysAreInOrder
<1>8. CASE WorkerStep
  <2>1. today' = today /\ state' = state /\ \A c \in Clients : sync'[c] = sync[c]
    BY <1>8, WorkerIsNoClient
       DEF WorkerStep, StartJob, JobDone, JobFailed, worldVars, TypeOK
  <2> QED
    BY <2>1, DayTypes, SteadyKeeps DEF Steady, HoldsRow
<1>9. CASE UNCHANGED vars
  BY <1>9, DayTypes, SteadyKeeps DEF vars, Steady, HoldsRow
<1> QED
  BY <1>1, <1>2, <1>3, <1>4, <1>5, <1>6, <1>7, <1>8, <1>9, SteadyKeeps, ImportIsSteady
     DEF Next, WorldStep, RequestStep

\* The end of the last window never moves back, however long a request took
\* and however many came in between: the date is read under the lock.
THEOREM WindowAdvances == Spec => WindowOnlyAdvances
<1>1. Init => DaysAreInOrder
  BY DEF Init, DaysAreInOrder, HoldsRow, NoSync
<1>2. IInv /\ DaysAreInOrder /\ [Next]_vars => DaysAreInOrder'
  BY StepAdvances DEF IInv
<1>3. IInv /\ DaysAreInOrder /\ [Next]_vars => [state'.last >= state.last]_vars
  BY StepAdvances DEF IInv
<1> QED
  BY <1>1, <1>2, <1>3, SyncInvariant, PTL DEF Spec, WindowOnlyAdvances

-----------------------------------------------------------------------------
(* Nothing is missed *)

\* A document has its date when it arrived, no day is to come, and the row has
\* the last day of a completed window.
Calendar ==
  /\ \A p \in Purchases : arrived[p] # 0 =>
       dated[p] \in Days /\ dated[p] <= arrived[p] /\ arrived[p] <= today
  /\ \A s \in syncDays : s <= today
  /\ state.last # 0 => state.last \in syncDays

\* A request knows the end of a completed window or none, and its own window
\* goes on from there or reaches back as far as a window does.
WindowJoins(c) ==
  /\ sync[c].last # 0 => sync[c].last \in syncDays
  /\ HoldsRow(c) =>
       /\ sync[c].window.to <= today
       /\ \/ sync[c].window.from = sync[c].window.to - WindowDays
          \/ /\ sync[c].last \in syncDays /\ sync[c].last <= sync[c].window.to
             /\ sync[c].window.from = sync[c].last - 1

\* What was there before the last day of its window is accounted for.
Accounted(c) ==
  sync[c].step = "import" =>
    \A p \in Purchases :
      /\ arrived[p] # 0 /\ arrived[p] < sync[c].window.to
      /\ dated[p] >= sync[c].window.from
      => p \in sync[c].todo \union sync[c].new \union sync[c].left \/ ExistsByKSeFNumber(p)

Joined == \A c \in Clients : WindowJoins(c) /\ Accounted(c)

\* A step that completes no request: days go on, what is known of a document
\* stays, and one that arrives does so today.
Ongoing ==
  /\ today' \in Int /\ today' >= today
  /\ syncDays' = syncDays /\ dropped' = dropped /\ state'.last = state.last
  /\ \A p \in Purchases :
       \/ arrived'[p] = arrived[p] /\ dated'[p] = dated[p]
       \/ arrived'[p] = today /\ dated'[p] \in Days /\ dated'[p] <= today
  /\ \A p \in Purchases : ExistsByKSeFNumber(p) => ExistsByKSeFNumber(p)'

\* The numbers that days are compared with.
LEMMA DayNumbers ==
  ASSUME TypeOK
  PROVE  /\ today \in Int /\ WindowDays \in Int
         /\ \A p \in Purchases : dated[p] \in Int /\ arrived[p] \in Int
         /\ syncDays \subseteq Int
         /\ \A a \in Actors : /\ sync[a].last \in Int
                              /\ sync[a].window.to \in Int /\ sync[a].window.from \in Int
BY PurchaseSyncAssumption DEF TypeOK, Days, Sync, Window

\* Days went on, so what arrived is no earlier than any completed window.
LEMMA OngoingKeeps ==
  ASSUME TypeOK, Calendar, NothingIsMissed, Ongoing
  PROVE  Calendar' /\ NothingIsMissed'
<1>1. Calendar'
  BY DayNumbers DEF Calendar, Ongoing
<1>2. NothingIsMissed'
  <2> SUFFICES ASSUME NEW p \in Purchases, NEW s \in syncDays,
                      arrived'[p] \in Days, arrived'[p] <= dated'[p] + 1, arrived'[p] < s,
                      s <= dated'[p] + WindowDays, p \notin dropped
               PROVE  ExistsByKSeFNumber(p)'
    BY DEF NothingIsMissed, Ongoing
  <2>1. s <= today /\ s \in Int
    BY DayNumbers DEF Calendar
  <2>2. arrived'[p] = arrived[p] /\ dated'[p] = dated[p]
    BY <2>1, DayNumbers DEF Ongoing
  <2> QED
    BY <2>2 DEF NothingIsMissed, Ongoing
<1> QED
  BY <1>1, <1>2

\* A request that stays as it is.
LEMMA WaitingKeeps ==
  ASSUME TypeOK, Calendar, Ongoing, NEW c \in Clients, sync'[c] = sync[c],
         WindowJoins(c), Accounted(c)
  PROVE  WindowJoins(c)' /\ Accounted(c)'
<1>1. WindowJoins(c)'
  BY DayNumbers DEF WindowJoins, HoldsRow, Ongoing
<1>2. Accounted(c)'
  <2> SUFFICES ASSUME sync[c].step = "import", NEW p \in Purchases,
                      arrived'[p] # 0, arrived'[p] < sync[c].window.to,
                      dated'[p] >= sync[c].window.from
               PROVE  p \in sync[c].todo \union sync[c].new \union sync[c].left
                      \/ ExistsByKSeFNumber(p)'
    BY DEF Accounted
  <2>1. sync[c].window.to <= today
    BY DEF WindowJoins, HoldsRow
  <2>2. arrived'[p] = arrived[p] /\ dated'[p] = dated[p]
    BY <2>1, DayNumbers DEF Ongoing
  <2> QED
    BY <2>2 DEF Accounted, Ongoing
<1> QED
  BY <1>1, <1>2

\* So a step of one actor is about its own synchronisation.
LEMMA OneActorKeeps ==
  ASSUME TypeOK, Calendar, NothingIsMissed, Joined, Ongoing,
         NEW a \in Actors, \A x \in Actors : x # a => sync'[x] = sync[x],
         a \in Clients => WindowJoins(a)' /\ Accounted(a)'
  PROVE  Calendar' /\ NothingIsMissed' /\ Joined'
<1>1. ASSUME NEW c \in Clients PROVE WindowJoins(c)' /\ Accounted(c)'
  <2>1. CASE c = a
    BY <2>1
  <2>2. CASE c # a
    <3>1. sync'[c] = sync[c] /\ WindowJoins(c) /\ Accounted(c)
      BY <2>2 DEF Joined
    <3> QED
      BY <3>1, WaitingKeeps
  <2> QED
    BY <2>1, <2>2
<1> QED
  BY <1>1, OngoingKeeps DEF Joined

\* A synchronisation that has no row and knows no day is joined to anything.
LEMMA FreshJoins ==
  ASSUME NEW c, sync'[c].step \notin {"query", "import"},
         sync'[c].last # 0 => sync'[c].last \in syncDays'
  PROVE  WindowJoins(c)' /\ Accounted(c)'
BY DEF WindowJoins, Accounted, HoldsRow

\* The window that mark_running takes joins the last one or reaches back.
LEMMA TakenWindowJoins ==
  ASSUME TypeOK, Calendar, NEW c \in Clients, WindowJoins(c), MarkRunning(c), Ongoing
  PROVE  WindowJoins(c)' /\ Accounted(c)'
<1>0. sync[c] \in Sync /\ today' = today
  BY DayTypes DEF MarkRunning, worldVars
<1>1. /\ sync'[c].step = "query" /\ sync'[c].last = sync[c].last
      /\ sync'[c].window = SyncWindow(sync[c].last)
  BY <1>0 DEF MarkRunning, TypeOK, Sync
<1>2. /\ sync'[c].window.to = today
      /\ sync'[c].window.from =
           IF sync[c].last = 0 THEN today - WindowDays
           ELSE Later(today - WindowDays, sync[c].last - 1)
  BY <1>1 DEF SyncWindow
<1>3. sync[c].last # 0 => sync[c].last \in syncDays /\ sync[c].last <= today
  BY DEF WindowJoins, Calendar
<1>4. WindowJoins(c)'
  BY <1>0, <1>1, <1>2, <1>3, DayNumbers DEF WindowJoins, HoldsRow, Later, Ongoing
<1>5. Accounted(c)'
  BY <1>1 DEF Accounted
<1> QED
  BY <1>4, <1>5

\* The list has what arrived by then within the window, and no document is
\* dated after the day it arrived.
LEMMA ListedAreAccounted ==
  ASSUME TypeOK, Calendar, NEW c \in Clients, WindowJoins(c), Ongoing,
         NEW listing, NEW failed \in SUBSET Purchases, QueryReceivedInvoices(c, listing, failed)
  PROVE  WindowJoins(c)' /\ Accounted(c)'
<1>0. /\ sync[c] \in Sync /\ today' = today /\ arrived' = arrived /\ dated' = dated
      /\ sync[c].step = "query"
  BY DayTypes DEF QueryReceivedInvoices, worldVars
<1>1. /\ sync'[c].step = "import" /\ sync'[c].last = sync[c].last
      /\ sync'[c].window = sync[c].window
      /\ sync'[c].todo = Found(sync[c].window) \ failed /\ sync'[c].left = failed
  BY <1>0 DEF QueryReceivedInvoices, TypeOK, Sync
<1>2. WindowJoins(c)'
  BY <1>0, <1>1 DEF WindowJoins, HoldsRow, Ongoing
<1>3. ASSUME NEW p \in Purchases, arrived[p] # 0, arrived[p] < sync[c].window.to,
             dated[p] >= sync[c].window.from
      PROVE  p \in sync'[c].todo \union sync'[c].left
  <2>1. dated[p] <= arrived[p]
    BY <1>3 DEF Calendar
  <2>2. p \in Found(sync[c].window)
    BY <1>3, <2>1, DayNumbers DEF Found
  <2> QED
    BY <1>1, <2>2
<1>4. Accounted(c)'
  BY <1>0, <1>1, <1>3 DEF Accounted
<1> QED
  BY <1>2, <1>4

\* A document leaves the list for the database, for those that are left, or
\* because it is there.
LEMMA ReadAreAccounted ==
  ASSUME TypeOK, NEW c \in Clients, WindowJoins(c), Accounted(c), Ongoing,
         NEW p \in Purchases, NEW parsed \in BOOLEAN, ImportInvoice(c, p, parsed)
  PROVE  WindowJoins(c)' /\ Accounted(c)'
<1>0. /\ sync[c] \in Sync /\ today' = today /\ arrived' = arrived /\ dated' = dated
      /\ imported' = imported /\ sync[c].step = "import"
  BY DayTypes DEF ImportInvoice, worldVars
<1>1. /\ sync'[c].step = "import" /\ sync'[c].last = sync[c].last
      /\ sync'[c].window = sync[c].window
      /\ sync'[c].todo = sync[c].todo \ {p}
      /\ sync'[c].new = IF parsed /\ ~ExistsByKSeFNumber(p) THEN sync[c].new \union {p}
                        ELSE sync[c].new
      /\ sync'[c].left = IF ~parsed /\ ~ExistsByKSeFNumber(p) THEN sync[c].left \union {p}
                         ELSE sync[c].left
  BY <1>0 DEF ImportInvoice, TypeOK, Sync
<1>2. WindowJoins(c)'
  BY <1>0, <1>1 DEF WindowJoins, HoldsRow, Ongoing
<1>3. \A q \in Purchases :
        q \in sync[c].todo \union sync[c].new \union sync[c].left \/ ExistsByKSeFNumber(q)
        => q \in sync'[c].todo \union sync'[c].new \union sync'[c].left \/ ExistsByKSeFNumber(q)
  BY <1>1
<1>4. \A q \in Purchases : ExistsByKSeFNumber(q)' <=> ExistsByKSeFNumber(q)
  BY <1>0 DEF ExistsByKSeFNumber
<1>5. Accounted(c)'
  BY <1>0, <1>1, <1>3, <1>4 DEF Accounted
<1> QED
  BY <1>2, <1>5

\* Inserting adds documents and takes none away.
LEMMA InsertedStay ==
  ASSUME TypeOK, NEW a \in Actors, NEW who \in {"request", "job"}, Inserted(a, who)
  PROVE  \A p \in Purchases :
           ExistsByKSeFNumber(p) \/ p \in sync[a].new => ExistsByKSeFNumber(p)'
<1> SUFFICES ASSUME NEW p \in Purchases, ExistsByKSeFNumber(p) \/ p \in sync[a].new
             PROVE  ExistsByKSeFNumber(p)'
  OBVIOUS
<1>1. imported[p] \in Count
  BY DEF TypeOK, Count
<1>2. /\ imported[p].request \in Nat /\ imported[p].job \in Nat
      /\ imported[p].request + imported[p].job > 0 \/ p \in sync[a].new
  BY <1>1 DEF Count, ExistsByKSeFNumber
<1>3. imported'[p] = IF p \in sync[a].new THEN [imported[p] EXCEPT ![who] = @ + 1] ELSE imported[p]
  BY DEF Inserted
<1>4. imported'[p].request + imported'[p].job > 0
  BY <1>1, <1>2, <1>3 DEF Count
<1> QED
  BY <1>4 DEF ExistsByKSeFNumber

\* The request that completes leaves nothing out.  What is dated before its
\* window, which goes on from an earlier one, was there to be found by that.
LEMMA CompletedMissesNothing ==
  ASSUME TypeOK, Calendar, NothingIsMissed, NEW c \in Clients, WindowJoins(c), Accounted(c),
         MarkSuccess(c)
  PROVE  NothingIsMissed'
<1>0. /\ HoldsRow(c) /\ sync[c].step = "import" /\ sync[c].todo = {}
      /\ dated' = dated /\ arrived' = arrived
      /\ dropped' = dropped \union sync[c].left
      /\ syncDays' = syncDays \union {sync[c].window.to}
  BY DEF MarkSuccess, HoldsRow, worldVars
<1>1. \A p \in Purchases : ExistsByKSeFNumber(p) \/ p \in sync[c].new => ExistsByKSeFNumber(p)'
  BY InsertedStay DEF MarkSuccess
<1> SUFFICES ASSUME NEW p \in Purchases, NEW s \in syncDays',
                    arrived[p] \in Days, arrived[p] <= dated[p] + 1, arrived[p] < s,
                    s <= dated[p] + WindowDays, p \notin dropped'
             PROVE  ExistsByKSeFNumber(p)'
  BY <1>0 DEF NothingIsMissed
<1>2. arrived[p] # 0 /\ p \notin dropped /\ p \notin sync[c].left
  BY <1>0 DEF Days
<1>3. CASE s \in syncDays
  BY <1>1, <1>2, <1>3 DEF NothingIsMissed
<1>4. CASE s = sync[c].window.to
  <2>1. CASE dated[p] >= sync[c].window.from
    BY <1>0, <1>1, <1>2, <1>4, <2>1 DEF Accounted
  <2>2. CASE ~(dated[p] >= sync[c].window.from)
    <3>1. \/ sync[c].window.from = s - WindowDays
          \/ /\ sync[c].last \in syncDays /\ sync[c].last <= s
             /\ sync[c].window.from = sync[c].last - 1
      BY <1>0, <1>4 DEF WindowJoins
    <3>2. /\ sync[c].last \in syncDays /\ sync[c].last <= dated[p] + WindowDays
          /\ arrived[p] < sync[c].last
      BY <1>4, <2>2, <3>1, DayNumbers
    <3> QED
      BY <1>1, <1>2, <3>2 DEF NothingIsMissed
  <2> QED
    BY <2>1, <2>2
<1> QED
  BY <1>0, <1>3, <1>4

LEMMA CompletedKeeps ==
  ASSUME TypeOK, LockHolds, Calendar, NothingIsMissed, Joined, NEW c \in Clients, MarkSuccess(c)
  PROVE  Calendar' /\ NothingIsMissed' /\ Joined'
<1>0. /\ HoldsRow(c) /\ today' = today /\ dated' = dated /\ arrived' = arrived
      /\ syncDays' = syncDays \union {sync[c].window.to}
      /\ state'.last = sync[c].window.to
  BY DEF MarkSuccess, HoldsRow, worldVars
<1>1. NothingIsMissed'
  BY CompletedMissesNothing DEF Joined
<1>2. sync[c].window.to <= today
  BY <1>0 DEF Joined, WindowJoins
<1>3. Calendar'
  BY <1>0, <1>2 DEF Calendar
<1>4. ASSUME NEW x \in Clients PROVE WindowJoins(x)' /\ Accounted(x)'
  <2>1. CASE x = c
    <3>1. sync'[x] = NoSync
      BY <2>1 DEF MarkSuccess, TypeOK
    <3> QED
      BY <3>1, FreshJoins DEF NoSync
  <2>2. CASE x # c
    <3>1. ~HoldsRow(x) /\ sync'[x] = sync[x]
      BY <1>0, <2>2 DEF MarkSuccess, LockHolds, TypeOK
    <3>2. sync'[x].last # 0 => sync'[x].last \in syncDays'
      BY <1>0, <3>1 DEF Joined, WindowJoins
    <3>3. sync'[x].step \notin {"query", "import"}
      BY <3>1 DEF HoldsRow
    <3> QED
      BY <3>2, <3>3, FreshJoins
  <2> QED
    BY <2>1, <2>2
<1> QED
  BY <1>1, <1>3, <1>4 DEF Joined

\* Steps that leave documents, days and what was completed alone.
LEMMA StillIsOngoing ==
  ASSUME TypeOK, UNCHANGED <<today, dated, arrived, dropped, syncDays>>,
         state'.last = state.last,
         \A p \in Purchases : ExistsByKSeFNumber(p) => ExistsByKSeFNumber(p)'
  PROVE  Ongoing
BY DayNumbers DEF Ongoing

LEMMA StepMissesNothing ==
  ASSUME TypeOK, LockHolds, Calendar, NothingIsMissed, Joined, [Next]_vars
  PROVE  Calendar' /\ NothingIsMissed' /\ Joined'
<1>0. \A a \in Actors : sync[a] \in Sync
  BY DayTypes
<1>w. Worker \in Actors /\ Worker \notin Clients
  BY WorkerIsNoClient
<1>e. imported' = imported =>
        \A p \in Purchases : ExistsByKSeFNumber(p) => ExistsByKSeFNumber(p)'
  BY DEF ExistsByKSeFNumber
<1>1. ASSUME sync' = sync, Ongoing PROVE Calendar' /\ NothingIsMissed' /\ Joined'
  <2>1. \A x \in Actors : x # Worker => sync'[x] = sync[x]
    BY <1>1
  <2> QED
    BY <1>1, <1>w, <2>1, OneActorKeeps
<1>2. CASE NextDay
  <2>1. Ongoing
    BY <1>2, <1>e, DayNumbers DEF NextDay, Ongoing, history
  <2> QED
    BY <1>1, <1>2, <2>1 DEF NextDay
<1>3. ASSUME NEW p \in Purchases, NEW d \in Days, Arrive(p, d)
      PROVE  Calendar' /\ NothingIsMissed' /\ Joined'
  <2>1. \A q \in Purchases :
          \/ arrived'[q] = arrived[q] /\ dated'[q] = dated[q]
          \/ arrived'[q] = today /\ dated'[q] = d
    BY <1>3 DEF Arrive, TypeOK
  <2>2. d <= today
    BY <1>3, DayNumbers DEF Arrive, Days
  <2>3. Ongoing
    BY <1>3, <1>e, <2>1, <2>2, DayNumbers DEF Arrive, Ongoing, history
  <2> QED
    BY <1>1, <1>3, <2>3 DEF Arrive
<1>4. CASE GetSyncStatus
  <2>1. state'.last = state.last
    BY <1>4 DEF GetSyncStatus, TypeOK
  <2>2. Ongoing
    BY <1>4, <1>e, <2>1, StillIsOngoing DEF GetSyncStatus, worldVars, history
  <2> QED
    BY <1>1, <1>4, <2>2 DEF GetSyncStatus
<1>5. ASSUME NEW window \in JobWindows, EnqueueSync(window)
      PROVE  Calendar' /\ NothingIsMissed' /\ Joined'
  <2>1. Ongoing
    BY <1>5, <1>e, StillIsOngoing DEF EnqueueSync, worldVars, history
  <2> QED
    BY <1>1, <1>5, <2>1 DEF EnqueueSync
<1>6. ASSUME NEW c \in Clients, NEW force \in BOOLEAN, SyncPurchases(c, force)
      PROVE  Calendar' /\ NothingIsMissed' /\ Joined'
  <2>1. Ongoing
    BY <1>6, <1>e, StillIsOngoing DEF SyncPurchases, worldVars, history
  <2>2. /\ sync'[c].step = "running"
        /\ sync'[c].last = IF force THEN 0 ELSE state.last
        /\ \A x \in Actors : x # c => sync'[x] = sync[x]
    BY <1>6, NoSyncType DEF SyncPurchases, TypeOK, Sync
  <2>3. sync'[c].last # 0 => sync'[c].last \in syncDays'
    BY <2>1, <2>2 DEF Calendar, Ongoing
  <2>4. WindowJoins(c)' /\ Accounted(c)'
    BY <2>2, <2>3, FreshJoins
  <2> QED
    BY <2>1, <2>2, <2>4, OneActorKeeps
<1>7. ASSUME NEW c \in Clients, MarkRunning(c)
      PROVE  Calendar' /\ NothingIsMissed' /\ Joined'
  <2>1. Ongoing
    BY <1>7, <1>e, StillIsOngoing DEF MarkRunning, worldVars, history
  <2>2. \A x \in Actors : x # c => sync'[x] = sync[x]
    BY <1>7 DEF MarkRunning, TypeOK
  <2>3. WindowJoins(c)' /\ Accounted(c)'
    BY <1>7, <2>1, TakenWindowJoins DEF Joined
  <2> QED
    BY <2>1, <2>2, <2>3, OneActorKeeps
<1>8. CASE WorkerStep
  <2>1. \A p \in Purchases : ExistsByKSeFNumber(p) => ExistsByKSeFNumber(p)'
    <3>1. imported' = imported \/ Inserted(Worker, "job")
      BY <1>8 DEF WorkerStep, StartJob, JobDone, JobFailed
    <3> QED
      BY <1>e, <1>w, <3>1, InsertedStay
  <2>2. Ongoing
    BY <1>8, <2>1, StillIsOngoing
       DEF WorkerStep, StartJob, JobDone, JobFailed, worldVars, history
  <2>3. \A x \in Actors : x # Worker => sync'[x] = sync[x]
    BY <1>8 DEF WorkerStep, StartJob, JobDone, JobFailed, TypeOK
  <2> QED
    BY <1>w, <2>2, <2>3, OneActorKeeps
<1>9. ASSUME NEW a \in Actors, ImportStep(a)
      PROVE  Calendar' /\ NothingIsMissed' /\ Joined'
  <2>1. Ongoing
    BY <1>9, <1>e, StillIsOngoing
       DEF ImportStep, QueryReceivedInvoices, ImportInvoice, Rollback, worldVars, history
  <2>2. \A x \in Actors : x # a => sync'[x] = sync[x]
    BY <1>9 DEF ImportStep, QueryReceivedInvoices, ImportInvoice, Rollback, TypeOK
  <2>3. ASSUME a \in Clients PROVE WindowJoins(a)' /\ Accounted(a)'
    <3>0. WindowJoins(a) /\ Accounted(a)
      BY <2>3 DEF Joined
    <3>1. ASSUME Rollback(a) PROVE WindowJoins(a)' /\ Accounted(a)'
      <4>1. sync'[a] = NoSync
        BY <3>1 DEF Rollback, TypeOK
      <4> QED
        BY <4>1, FreshJoins DEF NoSync
    <3> QED
      BY <1>9, <2>1, <2>3, <3>0, <3>1, ListedAreAccounted, ReadAreAccounted DEF ImportStep
  <2> QED
    BY <2>1, <2>2, <2>3, OneActorKeeps
<1>10. CASE UNCHANGED vars
  <2>1. Ongoing
    BY <1>10, <1>e, StillIsOngoing DEF vars
  <2> QED
    BY <1>1, <1>10, <2>1 DEF vars
<1> QED
  BY <1>2, <1>3, <1>4, <1>5, <1>6, <1>7, <1>8, <1>9, <1>10, CompletedKeeps
     DEF Next, WorldStep, RequestStep

\* A document that shows up no later than the day after its date is in the
\* database once a request completed on a later day, unless one left it:
\* windows overlap by two days, and a failed request leaves no day behind.
THEOREM NothingMissed == Spec => []NothingIsMissed
<1>1. Init => Calendar /\ NothingIsMissed /\ Joined
  <2> SUFFICES ASSUME Init PROVE Calendar /\ NothingIsMissed /\ Joined
    OBVIOUS
  <2>1. Calendar /\ NothingIsMissed
    BY DEF Init, Calendar, NothingIsMissed
  <2>2. Joined
    BY DEF Init, Joined, WindowJoins, Accounted, HoldsRow, NoSync
  <2> QED
    BY <2>1, <2>2
<1>2. IInv /\ Calendar /\ NothingIsMissed /\ Joined /\ [Next]_vars
      => (Calendar /\ NothingIsMissed /\ Joined)'
  BY StepMissesNothing DEF IInv
<1> QED
  BY <1>1, <1>2, SyncInvariant, PTL DEF Spec
=============================================================================
