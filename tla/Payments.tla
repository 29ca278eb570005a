------------------------------ MODULE Payments ------------------------------
(***************************************************************************)
(* Payments: bank statement lines are imported and matched with invoices,  *)
(* allocated by hand, allocations are reversed, and the form of a sale     *)
(* invoice has a payment of its own, booked on a cash entry.  What is left *)
(* of an entry and how far an invoice is paid are not counted up and down: *)
(* every request sums the allocations again.                               *)
(*                                                                         *)
(* A request is one READ COMMITTED transaction; only the form locks its    *)
(* invoice before it reads.  So a request is several actions: what it      *)
(* loads and checks, each sum, and each UPDATE.  A row c has written is    *)
(* locked, and seen only by c, until c commits.  Objects stay in memory as *)
(* they were loaded, and an UPDATE writes only the columns that differ     *)
(* from what was loaded; with none there is no UPDATE and no lock.         *)
(*                                                                         *)
(* Left out: currency, dates, the audit trail, lines without external id   *)
(* or with an outgoing (negative) amount, and the invoice's status at      *)
(* KSeF, which must allow the edit.                                        *)
(*                                                                         *)
(* A definition X_... is X with a plausible bug; no specification uses it. *)
(***************************************************************************)
EXTENDS Integers, FiniteSetsExt, Functions

CONSTANTS
  Invoices, Entries, Allocations,   \* rows
  CashEntry,      \* the entry of an invoice's form payment, by its external id
  Statement,      \* amounts of the lines of a bank statement, by external id
  Clue,           \* points of an entry's text for an invoice: number, NIP, name
  Amounts,        \* totals of invoices and payments that are entered
  Clients,        \* concurrent requests
  MaxRequests,    \* bound of the model
  NoEntry, NoInvoice, NoAllocation

BankLines == DOMAIN Statement

ASSUME PaymentsAssumption ==
  /\ IsFiniteSet(Allocations) /\ IsFiniteSet(Invoices)
  /\ Entries \intersect Invoices = {}
  /\ CashEntry \in [Invoices -> Entries]
  /\ \A i, j \in Invoices : CashEntry[i] = CashEntry[j] => i = j
  /\ BankLines = Entries \ {CashEntry[i] : i \in Invoices}
  /\ Amounts \subseteq Nat \ {0}
  /\ Statement \in [BankLines -> Amounts]
  /\ Clue \in [Entries -> [Invoices -> 0..70]]
  /\ MaxRequests \in Nat

MatchStatuses == {"unmatched", "partial", "matched", "manual_review"}
PaymentStatuses == {"unpaid", "partially_paid", "paid"}

VARIABLES
  invoice,     \* rows of invoices: total_gross and payment_status
  entry,       \* rows of bank_transactions, a function on the entries in use
  alloc,       \* rows of payment_allocations, a function on the rows in use
  work,        \* the request a client is in the middle of
  loaded,      \* the entry and the invoice it holds, as they were loaded
  written,     \* rows it has written
  requests,    \* requests so far
  overlapped,  \* whether two requests were ever in progress together
  settled      \* rows summed again by the last request that changed them,
               \* which was alone
db == <<invoice, entry, alloc>>
history == <<requests, overlapped, settled>>
vars == <<db, work, loaded, written, history>>

InvoiceRow == [gross: Amounts, status: PaymentStatuses]
EntryRow == [amount: Nat, remaining: Int, match: MatchStatuses]
AllocationRow ==
  [entry: Entries, invoice: Invoices, amount: Int, reversed: BOOLEAN]
Request ==
  [op: {"none", "allocate", "reverse", "match", "form"},
   step: {"match", "form", "mark", "renew", "sum", "entry", "paid", "invoice"},
   entry: Entries \union {NoEntry}, invoice: Invoices \union {NoInvoice},
   alloc: Allocations \union {NoAllocation},
   amount: Nat, total: Int, todo: SUBSET Entries, alone: BOOLEAN]

Nothing == [x \in {} |-> 0]
Free ==
  [op |-> "none", step |-> "sum", entry |-> NoEntry, invoice |-> NoInvoice,
   alloc |-> NoAllocation, amount |-> 0, total |-> 0, todo |-> {}, alone |-> FALSE]
NothingWritten == [invoice |-> Nothing, entry |-> Nothing, alloc |-> Nothing]
NothingLoaded == [invoice |-> Nothing, entry |-> Nothing]

TypeOK ==
  /\ invoice \in [Invoices -> InvoiceRow]
  /\ DOMAIN entry \subseteq Entries /\ \A b \in DOMAIN entry : entry[b] \in EntryRow
  /\ DOMAIN alloc \subseteq Allocations
  /\ \A a \in DOMAIN alloc :
       alloc[a] \in AllocationRow /\ alloc[a].entry \in DOMAIN entry
  /\ work \in [Clients -> Request]
  /\ requests \in 0..MaxRequests
  /\ overlapped \in BOOLEAN
  /\ settled \subseteq Entries \union Invoices

Init ==
  /\ invoice \in [Invoices -> [gross: Amounts, status: {"unpaid"}]]
  /\ entry = Nothing
  /\ alloc = Nothing
  /\ work = [c \in Clients |-> Free]
  /\ loaded = [c \in Clients |-> NothingLoaded]
  /\ written = [c \in Clients |-> NothingWritten]
  /\ requests = 0
  /\ overlapped = FALSE
  /\ settled = Invoices

-----------------------------------------------------------------------------
(* Rows *)

Busy(c) == work[c].op # "none"
At(c, step) == Busy(c) /\ work[c].step = step

\* f where it is defined, g elsewhere.
Over(f, g) == [x \in DOMAIN f \union DOMAIN g |-> IF x \in DOMAIN f THEN f[x] ELSE g[x]]
Only(key, row) == [x \in {key} |-> row]

InvoicesOf(c) == Over(written[c].invoice, invoice)
EntriesOf(c) == Over(written[c].entry, entry)
\* Nothing is flushed before the sums (the session has no autoflush).
AllocationsOf_Unflushed(c) == alloc
AllocationsOf(c) == Over(written[c].alloc, alloc)

\* Another request has written the row and not committed.
InvoiceLocked(c, i) == \E x \in Clients \ {c} : i \in DOMAIN written[x].invoice
EntryLocked(c, b) == \E x \in Clients \ {c} : b \in DOMAIN written[x].entry
AllocationLocked(c, a) == \E x \in Clients \ {c} : a \in DOMAIN written[x].alloc

\* The row after the UPDATE of an object that was loaded as "old" and is now
\* "new": only the columns that differ are written.
Updated(old, new, row) ==
  [column \in DOMAIN row |-> IF new[column] # old[column] THEN new[column] ELSE row[column]]

ActiveFor(rows, column, key) ==
  {a \in DOMAIN rows : rows[a][column] = key /\ ~rows[a].reversed}
Allocated(rows, column, key) ==
  SumFunction([a \in ActiveFor(rows, column, key) |-> rows[a].amount])

MatchStatus(amount, remaining) ==
  CASE remaining <= 0 -> "matched"
    [] remaining > 0 /\ remaining < amount -> "partial"
    [] OTHER -> "unmatched"

PaymentStatus(gross, total) ==
  CASE gross > 0 /\ total >= gross -> "paid"
    [] gross > 0 /\ total < gross /\ total > 0 -> "partially_paid"
    [] OTHER -> "unpaid"

-----------------------------------------------------------------------------
(* Requests *)

\* c starts a request.
Start(c, request) ==
  /\ ~Busy(c)
  /\ requests < MaxRequests
  /\ requests' = requests + 1
  /\ work' = [x \in Clients |->
                IF x = c THEN [request EXCEPT !.alone = \A y \in Clients \ {c} : ~Busy(y)]
                ELSE [work[x] EXCEPT !.alone = FALSE]]
  /\ overlapped' = (overlapped \/ \E x \in Clients \ {c} : Busy(x))
  /\ UNCHANGED <<db, settled>>

Finish(c) ==
  /\ work' = [work EXCEPT ![c] = Free]
  /\ loaded' = [loaded EXCEPT ![c] = NothingLoaded]
  /\ written' = [written EXCEPT ![c] = NothingWritten]
  /\ UNCHANGED <<requests, overlapped>>

\* Rows whose allocations are in w, and rows that w changes in any way.
Summed(w) ==
  {w.alloc[a].entry : a \in DOMAIN w.alloc} \union {w.alloc[a].invoice : a \in DOMAIN w.alloc}
Touched(w) == Summed(w) \union DOMAIN w.entry \union DOMAIN w.invoice

\* Inserted entries are lost when the import ends.
Commit_Known(c, w) ==
  /\ invoice' = Over(w.invoice, invoice)
  /\ entry' = [b \in DOMAIN entry |-> Over(w.entry, entry)[b]]
  /\ alloc' = Over(w.alloc, alloc)
  /\ settled' = (settled \ Touched(w)) \union (IF work[c].alone THEN Summed(w) ELSE {})
  /\ Finish(c)
Commit(c, w) ==
  /\ invoice' = Over(w.invoice, invoice)
  /\ entry' = Over(w.entry, entry)
  /\ alloc' = Over(w.alloc, alloc)
  /\ settled' = (settled \ Touched(w)) \union (IF work[c].alone THEN Summed(w) ELSE {})
  /\ Finish(c)

\* A check that fails, a deadlock, or the end of the process.
Rollback(c) ==
  /\ Busy(c)
  /\ Finish(c)
  /\ UNCHANGED <<db, settled>>

-----------------------------------------------------------------------------
(* _do_allocate: the new row, ...                                            *)

NewAllocation(b, i, amount) ==
  [entry |-> b, invoice |-> i, amount |-> amount, reversed |-> FALSE]

Unused(a) == a \notin DOMAIN alloc /\ \A x \in Clients : a \notin DOMAIN written[x].alloc

WithAllocation(w, a, row) == [w EXCEPT !.alloc = Over(Only(a, row), @)]

\* ... the sum of the entry (a reversal loads the entry only now), ...
ReadSum(c) ==
  LET b == work[c].entry IN
  /\ At(c, "sum")
  /\ work' = [work EXCEPT ![c].total = Allocated(AllocationsOf(c), "entry", b),
                          ![c].step = "entry"]
  /\ loaded' = IF work[c].op = "reverse" THEN [loaded EXCEPT ![c].entry = EntriesOf(c)[b]]
               ELSE loaded
  /\ UNCHANGED <<db, written, history>>

\* ... what is left of it, ...
EntryAfter(c) ==
  LET amount == loaded[c].entry.amount
      remaining == amount - work[c].total
  IN [amount |-> amount, remaining |-> remaining, match |-> MatchStatus(amount, remaining)]
WriteEntry(c) ==
  LET b == work[c].entry IN
  /\ At(c, "entry")
  /\ \/ /\ EntryAfter(c) = loaded[c].entry
        /\ UNCHANGED written
     \/ /\ EntryAfter(c) # loaded[c].entry
        /\ ~EntryLocked(c, b)
        /\ written' = [written EXCEPT ![c].entry =
             Over(Only(b, Updated(loaded[c].entry, EntryAfter(c), EntriesOf(c)[b])), @)]
  /\ loaded' = [loaded EXCEPT ![c].entry = EntryAfter(c)]
  /\ work' = [work EXCEPT ![c].step = "paid"]
  /\ UNCHANGED <<db, history>>

\* ... the sum of the invoice (likewise), ...
ReadPaid(c) ==
  LET i == work[c].invoice IN
  /\ At(c, "paid")
  /\ work' = [work EXCEPT ![c].total = Allocated(AllocationsOf(c), "invoice", i),
                          ![c].step = "invoice"]
  /\ loaded' = IF work[c].op = "reverse" THEN [loaded EXCEPT ![c].invoice = InvoicesOf(c)[i]]
               ELSE loaded
  /\ UNCHANGED <<db, written, history>>

\* ... and its status.
InvoiceAfter(c) ==
  [loaded[c].invoice EXCEPT !.status = PaymentStatus(loaded[c].invoice.gross, work[c].total)]

\* What a request does after an allocation or a reversal: the form books its
\* new amount, an import goes on with the next line, others commit.
Continue(c, w) ==
  \/ /\ work[c].op = "form" /\ work[c].amount > 0
     /\ work' = [work EXCEPT ![c].step = "renew"]
     /\ loaded' = [loaded EXCEPT ![c].invoice = InvoiceAfter(c)]
     /\ written' = [written EXCEPT ![c] = w]
     /\ UNCHANGED <<db, history>>
  \/ /\ work[c].todo # {}
     /\ work' = [work EXCEPT ![c].step = "match"]
     /\ loaded' = [loaded EXCEPT ![c] = NothingLoaded]
     /\ written' = [written EXCEPT ![c] = w]
     /\ UNCHANGED <<db, history>>
  \/ /\ ~(work[c].op = "form" /\ work[c].amount > 0)
     /\ work[c].todo = {}
     /\ Commit(c, w)

WriteInvoice(c) ==
  LET i == work[c].invoice IN
  /\ At(c, "invoice")
  /\ \/ /\ InvoiceAfter(c) = loaded[c].invoice
        /\ Continue(c, written[c])
     \/ /\ InvoiceAfter(c) # loaded[c].invoice
        /\ ~InvoiceLocked(c, i)
        /\ Continue(c, [written[c] EXCEPT !.invoice =
             Over(Only(i, Updated(loaded[c].invoice, InvoiceAfter(c), InvoicesOf(c)[i])), @)])

-----------------------------------------------------------------------------
(* By hand *)

\* POST /payments/transactions/{id}/allocate
Available(b) == entry[b].remaining
AllocateManual(c, a, b, i, amount) ==
  /\ b \in DOMAIN entry
  /\ amount <= Available(b)
  /\ Unused(a)
  /\ Start(c, [Free EXCEPT !.op = "allocate", !.entry = b, !.invoice = i])
  /\ loaded' = [loaded EXCEPT ![c] = [invoice |-> invoice[i], entry |-> entry[b]]]
  /\ written' = [written EXCEPT ![c] = WithAllocation(@, a, NewAllocation(b, i, amount))]

\* DELETE /payments/allocations/{id}: the check, ...
ReverseAllocation(c, a) ==
  /\ a \in DOMAIN alloc
  /\ ~alloc[a].reversed
  /\ Start(c, [Free EXCEPT !.op = "reverse", !.step = "mark", !.alloc = a,
                           !.entry = alloc[a].entry, !.invoice = alloc[a].invoice])
  /\ UNCHANGED <<loaded, written>>

\* ... and the UPDATE.
\* The reversed allocation loses its amount.
Reversed_Emptied(row) == [row EXCEPT !.reversed = TRUE, !.amount = 0]
Reversed(row) == [row EXCEPT !.reversed = TRUE]
MarkReversed(c) ==
  LET a == work[c].alloc IN
  /\ At(c, "mark")
  /\ ~AllocationLocked(c, a)
  /\ written' = [written EXCEPT ![c] = WithAllocation(@, a, Reversed(AllocationsOf(c)[a]))]
  /\ work' = [work EXCEPT ![c].step = "sum"]
  /\ UNCHANGED <<db, loaded, history>>

-----------------------------------------------------------------------------
(* Import and matching *)

\* POST /payments/import: the lines whose external id is not known are
\* inserted; one that another import is inserting has to be waited for.
NewEntry(amount) == [amount |-> amount, remaining |-> amount, match |-> "unmatched"]
ImportCsv(c, lines) ==
  LET new == lines \ DOMAIN entry IN
  /\ new # {}
  /\ \A b \in new : ~EntryLocked(c, b)
  /\ Start(c, [Free EXCEPT !.op = "match", !.step = "match", !.todo = new])
  /\ written' = [written EXCEPT ![c].entry = [b \in new |-> NewEntry(Statement[b])]]
  /\ UNCHANGED loaded

\* POST /payments/transactions/{id}/match
Rematch(c, b) ==
  /\ b \in DOMAIN entry
  /\ Start(c, [Free EXCEPT !.op = "match", !.step = "match", !.todo = {b}])
  /\ UNCHANGED <<loaded, written>>

\* The score of an invoice: the clues in the text of the entry, and up to 30
\* points for the amount (2 % is less than the unit of this model).
Score(c, b, i) == Clue[b][i] + IF EntriesOf(c)[b].amount = InvoicesOf(c)[i].gross THEN 30 ELSE 0
AutoMatchThreshold == 75
ManualReviewThreshold == 40
IsBest(c, b, i) == \A j \in Invoices : Score(c, b, j) <= Score(c, b, i)

\* The best invoice gets all that is left of the entry, whatever it owes.
\* The whole amount is allocated again.
AutoAmount_Whole(row) == row.amount
AutoAmount(row) == row.remaining
AutoMatch(c, a, b, i) ==
  LET row == EntriesOf(c)[b] IN
  /\ At(c, "match")
  /\ b \in work[c].todo
  /\ IsBest(c, b, i)
  /\ Score(c, b, i) >= AutoMatchThreshold
  /\ Unused(a)
  /\ written' = [written EXCEPT ![c] =
                   WithAllocation(@, a, NewAllocation(b, i, AutoAmount(row)))]
  /\ loaded' = [loaded EXCEPT ![c] = [invoice |-> InvoicesOf(c)[i], entry |-> row]]
  /\ work' = [work EXCEPT ![c].todo = @ \ {b}, ![c].step = "sum",
                          ![c].entry = b, ![c].invoice = i]
  /\ UNCHANGED <<db, history>>

\* A weaker candidate is left to the user; without one nothing happens.
ReviewedEntry(c, b) ==
  LET row == EntriesOf(c)[b] IN
  IF \E i \in Invoices : Score(c, b, i) >= ManualReviewThreshold
  THEN [row EXCEPT !.match = "manual_review"]
  ELSE row
Leave(c, b) ==
  LET row == EntriesOf(c)[b]
      w == IF ReviewedEntry(c, b) = row THEN written[c]
           ELSE [written[c] EXCEPT !.entry = Over(Only(b, ReviewedEntry(c, b)), @)]
  IN
  /\ At(c, "match")
  /\ b \in work[c].todo
  /\ \A i \in Invoices : Score(c, b, i) < AutoMatchThreshold
  /\ ReviewedEntry(c, b) = row \/ ~EntryLocked(c, b)
  /\ \/ /\ work[c].todo # {b}
        /\ work' = [work EXCEPT ![c].todo = @ \ {b}]
        /\ written' = [written EXCEPT ![c] = w]
        /\ UNCHANGED <<db, loaded, history>>
     \/ /\ work[c].todo = {b}
        /\ Commit(c, w)

-----------------------------------------------------------------------------
(* The form of an invoice *)

\* PUT /invoices/{id} without amount_paid; payment_status stays as it is.
UpdateInvoice(i, gross) ==
  /\ \A x \in Clients : i \notin DOMAIN written[x].invoice
  /\ gross # invoice[i].gross
  /\ requests < MaxRequests
  /\ requests' = requests + 1
  /\ invoice' = [invoice EXCEPT ![i].gross = gross]
  /\ settled' = settled \ {i}
  /\ work' = [c \in Clients |-> [work[c] EXCEPT !.alone = FALSE]]
  /\ overlapped' = (overlapped \/ \E c \in Clients : Busy(c))
  /\ UNCHANGED <<entry, alloc, loaded, written>>

\* PUT /invoices/{id} with amount_paid: the invoice is locked and changed.
\* POST /invoices/ with amount_paid does the same for an invoice that nobody
\* else knows yet.
UpdateInvoiceAndPay(c, i, gross, amount) ==
  /\ ~InvoiceLocked(c, i)
  /\ Start(c, [Free EXCEPT !.op = "form", !.step = "form", !.entry = CashEntry[i],
                           !.invoice = i, !.amount = amount])
  /\ written' = [written EXCEPT
                   ![c].invoice = Only(i, [invoice[i] EXCEPT !.gross = gross])]
  /\ UNCHANGED loaded

\* set_invoice_form_payment: the allocations of the form (the code takes the
\* latest of them), ...
FormAllocations(c) ==
  {a \in ActiveFor(AllocationsOf(c), "entry", work[c].entry) :
     AllocationsOf(c)[a].invoice = work[c].invoice}
\* What others paid is not looked at.
Payable_Gross(c, current) == InvoicesOf(c)[work[c].invoice].gross
Payable(c, current) ==
  InvoicesOf(c)[work[c].invoice].gross
    - (Allocated(AllocationsOf(c), "invoice", work[c].invoice) - current)
FormObjects(c) ==
  [invoice |-> InvoicesOf(c)[work[c].invoice],
   entry |-> IF work[c].entry \in DOMAIN EntriesOf(c) THEN EntriesOf(c)[work[c].entry] ELSE Nothing]

\* ... none yet, ...
FormHasNone(c) ==
  /\ At(c, "form")
  /\ FormAllocations(c) = {}
  /\ work[c].amount <= Payable(c, 0)
  /\ \/ /\ work[c].amount = 0
        /\ Commit(c, written[c])
     \/ /\ work[c].amount > 0
        /\ work' = [work EXCEPT ![c].step = "renew"]
        /\ loaded' = [loaded EXCEPT ![c] = FormObjects(c)]
        /\ UNCHANGED <<db, written, history>>

\* ... or one that is kept or reversed.
FormHasOne(c, a) ==
  LET current == AllocationsOf(c)[a].amount IN
  /\ At(c, "form")
  /\ a \in FormAllocations(c)
  /\ work[c].amount <= Payable(c, current)
  /\ \/ /\ work[c].amount > 0 /\ work[c].amount = current
        /\ Commit(c, written[c])
     \/ /\ work[c].amount = 0 \/ work[c].amount # current
        /\ work' = [work EXCEPT ![c].step = "mark", ![c].alloc = a]
        /\ loaded' = [loaded EXCEPT ![c] = FormObjects(c)]
        /\ UNCHANGED <<db, written, history>>

\* The cash entry is inserted or takes the new amount, all of which is
\* allocated to the invoice.
Renew(c, a) ==
  LET b == work[c].entry
      isNew == b \notin DOMAIN EntriesOf(c)
      new == NewEntry(work[c].amount)
      row == IF isNew THEN new ELSE Updated(loaded[c].entry, new, EntriesOf(c)[b])
      w == IF loaded[c].entry = new THEN written[c]
           ELSE [written[c] EXCEPT !.entry = Over(Only(b, row), @)]
  IN
  /\ At(c, "renew")
  /\ Unused(a)
  /\ loaded[c].entry = new \/ ~EntryLocked(c, b)
  /\ written' = [written EXCEPT ![c] =
                   WithAllocation(w, a, NewAllocation(b, work[c].invoice, work[c].amount))]
  /\ loaded' = [loaded EXCEPT ![c].entry = new]
  /\ work' = [work EXCEPT ![c].op = "allocate", ![c].step = "sum"]
  /\ UNCHANGED <<db, history>>

-----------------------------------------------------------------------------
(* What the user is shown.  Sales and purchases add up apart in the code; here *)
(* they are one.  All open invoices are on one page.                           *)

\* list_invoices and list_paginated with view=open
OpenInvoices == {i \in Invoices : invoice[i].status \in {"unpaid", "partially_paid"}}

\* sum_allocated_for_invoices
AllocatedTo(ids) == [i \in ids |-> Allocated(alloc, "invoice", i)]

\* compute_remaining_amounts: nothing, when more is paid.
RemainingAmounts_Negative(ids) ==
  [i \in ids |-> invoice[i].gross - AllocatedTo(ids)[i]]
RemainingAmounts(ids) ==
  [i \in ids |-> Max({invoice[i].gross - AllocatedTo(ids)[i], 0})]

\* GET /invoices/?view=open with the summary of compute_open_summary
OpenSummary(ids) == SumFunction(RemainingAmounts(ids))
OpenView == [items |-> OpenInvoices, total |-> OpenSummary(OpenInvoices)]

\* list_unmatched_paginated
UnmatchedEntries ==
  {b \in DOMAIN entry : entry[b].match \in {"unmatched", "partial", "manual_review"}}

\* list_open_invoices_with_paid_amount
SettlementRows ==
  {[invoice |-> i, gross |-> invoice[i].gross, paid |-> Allocated(alloc, "invoice", i)] :
     i \in OpenInvoices}

\* GET /payments/settlements
Debts == {[invoice |-> r.invoice, remaining |-> r.gross - r.paid] :
            r \in {x \in SettlementRows : x.gross - x.paid > 0}}

-----------------------------------------------------------------------------
(* Specification *)

Begin(c) ==
  \/ \E a \in Allocations, b \in Entries, i \in Invoices, amount \in Amounts :
       AllocateManual(c, a, b, i, amount)
  \/ \E a \in Allocations : ReverseAllocation(c, a)
  \/ \E lines \in SUBSET BankLines : ImportCsv(c, lines)
  \/ \E b \in Entries : Rematch(c, b)
  \/ \E i \in Invoices, gross \in Amounts, amount \in Amounts \union {0} :
       UpdateInvoiceAndPay(c, i, gross, amount)

Step(c) ==
  \/ ReadSum(c) \/ WriteEntry(c) \/ ReadPaid(c) \/ WriteInvoice(c)
  \/ MarkReversed(c)
  \/ \E a \in Allocations, b \in Entries, i \in Invoices : AutoMatch(c, a, b, i)
  \/ \E b \in Entries : Leave(c, b)
  \/ FormHasNone(c)
  \/ \E a \in Allocations : FormHasOne(c, a) \/ Renew(c, a)

Next ==
  \/ \E c \in Clients : Begin(c) \/ Step(c) \/ Rollback(c)
  \/ \E i \in Invoices, gross \in Amounts : UpdateInvoice(i, gross)

Spec == Init /\ [][Next]_vars

-----------------------------------------------------------------------------
(* Properties *)

\* Rows and requests keep their columns, ...
Shapes ==
  /\ DOMAIN work = Clients /\ \A c \in Clients : DOMAIN work[c] = DOMAIN Free
  /\ DOMAIN written = Clients
  /\ \A c \in Clients : DOMAIN written[c] = DOMAIN NothingWritten
\* ... allocations that a request has written and not committed are written by
\* no other request, and are new ones or those of the table, at most marked as
\* reversed, ...
WrittenIsLocked ==
  \A c \in Clients : \A a \in DOMAIN written[c].alloc :
    /\ \A x \in Clients \ {c} : a \notin DOMAIN written[x].alloc
    /\ a \in DOMAIN alloc =>
         written[c].alloc[a] \in {alloc[a], [alloc[a] EXCEPT !.reversed = TRUE]}
\* ... and the one it is about to mark exists.
MarkedExists ==
  \A c \in Clients : At(c, "mark") => work[c].alloc \in DOMAIN AllocationsOf(c)
\* The row locks that keep the history, whatever overlaps.
IInv == Shapes /\ WrittenIsLocked /\ MarkedExists

\* A request that is alone repairs what it touches: after it, what is left of
\* the entry, its match status and the status of the invoice are those of the
\* allocations, whatever overlapping requests had left behind; and the entry is
\* among those still to be matched exactly when something of it is left.
SettledIsRight ==
  \A x \in settled :
    /\ x \in DOMAIN entry => LET total == Allocated(alloc, "entry", x) IN
         /\ entry[x].remaining = entry[x].amount - total
         /\ entry[x].match = MatchStatus(entry[x].amount, entry[x].remaining)
         /\ (x \in UnmatchedEntries) = (total < entry[x].amount)
    /\ x \in Invoices =>
         invoice[x].status = PaymentStatus(invoice[x].gross, Allocated(alloc, "invoice", x))

\* The summary of the open invoices and the settlements tell the same debt,
\* whatever overlaps and whatever is edited; and of invoices that are settled
\* right they show each that is owed, and no other.
DebtsAgree ==
  /\ OpenView.total = SumFunction([d \in Debts |-> d.remaining])
  /\ \A i \in settled \intersect Invoices :
       LET owed == invoice[i].gross - Allocated(alloc, "invoice", i) IN
       /\ (i \in OpenView.items) = (owed > 0)
       /\ {d.remaining : d \in {x \in Debts : x.invoice = i}} = {owed} \intersect (Nat \ {0})

\* Without overlaps, no more of a bank line is allocated than there is, by
\* hand, by matching, or by both.
BankLineIsNotOverdrawn ==
  ~overlapped => \A b \in BankLines \intersect DOMAIN entry :
    Allocated(alloc, "entry", b) <= entry[b].amount

\* Whatever overlaps, an allocation stays in the history as it was made; it
\* can only be marked as reversed, and that is final.
HistoryIsKept ==
  [][\A a \in DOMAIN alloc :
       /\ a \in DOMAIN alloc'
       /\ alloc'[a] \in {alloc[a], [alloc[a] EXCEPT !.reversed = TRUE]}]_vars

\* After a request that was alone, the payment entered in the form is booked: an
\* active allocation of the invoice's cash entry carries its amount, and the
\* invoice is not overpaid.  Parts of that entry which were allocated to the
\* invoice by hand may stand beside it.
FormPaymentIsAsEntered ==
  [][\A c \in Clients :
       /\ Busy(c) /\ work'[c] = Free /\ db' # db
       /\ work[c].op = "allocate" /\ work[c].amount > 0 /\ work[c].alone
       => LET i == work[c].invoice IN
          /\ Allocated(alloc', "invoice", i) <= invoice'[i].gross
          /\ \E a \in ActiveFor(alloc', "entry", CashEntry[i]) :
               alloc'[a].invoice = i /\ alloc'[a].amount = work[c].amount]_vars

\* What allocate_manual refuses with "exceeds what is left of the transaction"
\* (payment_service.py:397) never happens to any entry, the cash entry of a form
\* included: no more of it is allocated than there is.
NotOverdrawn ==
  \A b \in DOMAIN entry : Allocated(alloc, "entry", b) <= entry[b].amount

-----------------------------------------------------------------------------
(* Inductive invariant: what a request that is alone knows of its rows, and  *)
(* how far it has repaired them                                              *)

\* An allocation has been written, and its entry and its invoice are summed.
Sums == {"sum", "entry", "paid", "invoice"}
StepsOf(op) ==
  CASE op = "allocate" -> Sums
    [] op = "reverse" -> Sums \union {"mark"}
    [] op = "match" -> Sums \union {"match"}
    [] op = "form" -> Sums \union {"form", "mark", "renew"}
    [] OTHER -> {"sum"}
KnowsEntry(c) ==
  /\ Busy(c)
  /\ \/ work[c].step \in {"entry", "paid", "invoice"}
     \/ work[c].step = "sum" /\ work[c].op # "reverse"
     \/ work[c].step = "mark" /\ work[c].op = "form"
KnowsInvoice(c) ==
  /\ Busy(c)
  /\ \/ work[c].step \in {"invoice", "renew"}
     \/ work[c].step \in Sums /\ work[c].op # "reverse"
     \/ work[c].step = "mark" /\ work[c].op = "form"

\* The rows as a request sees them, and the objects it has loaded, have their
\* types, ...
ViewIsTyped(c) ==
  /\ InvoicesOf(c) \in [Invoices -> InvoiceRow]
  /\ DOMAIN EntriesOf(c) \subseteq Entries
  /\ \A b \in DOMAIN EntriesOf(c) : EntriesOf(c)[b] \in EntryRow
  /\ DOMAIN AllocationsOf(c) \subseteq Allocations
  /\ \A a \in DOMAIN AllocationsOf(c) :
       AllocationsOf(c)[a] \in AllocationRow /\ AllocationsOf(c)[a].entry \in DOMAIN EntriesOf(c)
ObjectsAreTyped(c) ==
  /\ DOMAIN loaded[c] = DOMAIN NothingLoaded
  /\ KnowsEntry(c) => loaded[c].entry \in EntryRow
  /\ KnowsInvoice(c) => loaded[c].invoice \in InvoiceRow
\* ... and it is about rows that exist.
IsOfRows(c) ==
  /\ work[c].step \in StepsOf(work[c].op)
  /\ work[c].todo \subseteq DOMAIN EntriesOf(c)
  /\ work[c].todo # {} => work[c].op = "match"
  /\ Busy(c) /\ work[c].step \in Sums \union {"mark"} =>
       work[c].entry \in DOMAIN EntriesOf(c) /\ work[c].invoice \in Invoices
  /\ At(c, "mark") => LET row == AllocationsOf(c)[work[c].alloc] IN
       row.entry = work[c].entry /\ row.invoice = work[c].invoice
  /\ work[c].op = "form" \/ (work[c].op = "allocate" /\ work[c].amount > 0) =>
       work[c].invoice \in Invoices /\ work[c].entry = CashEntry[work[c].invoice]
  /\ At(c, "renew") /\ loaded[c].entry \in EntryRow => work[c].entry \in DOMAIN EntriesOf(c)
RequestIsTyped(c) == ViewIsTyped(c) /\ ObjectsAreTyped(c) /\ IsOfRows(c)

\* A request that is alone is.
AloneIsAlone(c) ==
  /\ Busy(c) /\ work[c].alone => \A x \in Clients \ {c} : ~Busy(x)
  /\ Busy(c) /\ ~overlapped => work[c].alone
  /\ ~Busy(c) => written[c] = NothingWritten

\* The rows that it has still to repair.
PendingEntries(c) == IF work[c].step \in {"sum", "entry"} THEN {work[c].entry} ELSE {}
PendingInvoices(c) == IF work[c].step \in Sums THEN {work[c].invoice} ELSE {}

RightEntry(entries, rows, b) ==
  /\ entries[b].remaining = entries[b].amount - Allocated(rows, "entry", b)
  /\ entries[b].match = MatchStatus(entries[b].amount, entries[b].remaining)
RightInvoice(invoices, rows, i) ==
  invoices[i].status = PaymentStatus(invoices[i].gross, Allocated(rows, "invoice", i))

\* What it has loaded and summed is still so; ...
LoadedIsCurrent(c) ==
  /\ KnowsEntry(c) => loaded[c].entry = EntriesOf(c)[work[c].entry]
  /\ KnowsInvoice(c) => loaded[c].invoice = InvoicesOf(c)[work[c].invoice]
  /\ work[c].step = "renew" =>
       loaded[c].entry = IF work[c].entry \in DOMAIN EntriesOf(c) THEN EntriesOf(c)[work[c].entry]
                         ELSE Nothing
  /\ work[c].step = "entry" => work[c].total = Allocated(AllocationsOf(c), "entry", work[c].entry)
  /\ work[c].step = "invoice" =>
       work[c].total = Allocated(AllocationsOf(c), "invoice", work[c].invoice)
\* ... the rows whose allocations it has written are right or pending, and not
\* among the lines still to be matched; ...
SummedIsRight(c) ==
  \A a \in DOMAIN written[c].alloc :
    LET row == written[c].alloc[a] IN
    /\ row.entry \notin work[c].todo
    /\ row.entry \in PendingEntries(c) \/ RightEntry(EntriesOf(c), AllocationsOf(c), row.entry)
    /\ row.invoice \in PendingInvoices(c)
       \/ RightInvoice(InvoicesOf(c), AllocationsOf(c), row.invoice)
\* ... and a form that is to book an amount has room for it, and has then
\* booked it.
FormHasRoom(c) ==
  LET i == work[c].invoice
      rest == InvoicesOf(c)[i].gross - Allocated(AllocationsOf(c), "invoice", i)
  IN work[c].amount > 0 =>
     /\ work[c].op = "form" /\ work[c].step = "mark" =>
          /\ ~AllocationsOf(c)[work[c].alloc].reversed
          /\ work[c].amount <= rest + AllocationsOf(c)[work[c].alloc].amount
     /\ work[c].op = "form" /\ work[c].step \in Sums \union {"renew"} => work[c].amount <= rest
     /\ work[c].op = "allocate" =>
          /\ rest >= 0
          /\ \E a \in ActiveFor(AllocationsOf(c), "entry", CashEntry[i]) :
               AllocationsOf(c)[a].invoice = i /\ AllocationsOf(c)[a].amount = work[c].amount

\* No more of a bank line is allocated than there is, and the rest is right
\* where it is not pending.
LinesAddUp(entries, rows, pending) ==
  \A b \in BankLines \intersect DOMAIN entries :
    /\ \A a \in DOMAIN rows : rows[a].entry = b => rows[a].amount >= 0
    /\ Allocated(rows, "entry", b) <= entries[b].amount
    /\ b \in pending \/ entries[b].remaining = entries[b].amount - Allocated(rows, "entry", b)

Repairs(c) ==
  /\ LoadedIsCurrent(c)
  /\ SummedIsRight(c)
  /\ FormHasRoom(c)
  /\ ~overlapped => LinesAddUp(EntriesOf(c), AllocationsOf(c), PendingEntries(c))

RepairIInv ==
  /\ IInv
  /\ TypeOK /\ DOMAIN loaded = Clients
  /\ \A c \in Clients : RequestIsTyped(c) /\ AloneIsAlone(c)
  /\ \A c \in Clients : Busy(c) /\ work[c].alone => Repairs(c)
  /\ SettledIsRight
  /\ ~overlapped => LinesAddUp(entry, alloc, {})
=============================================================================
