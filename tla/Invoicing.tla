----------------------------- MODULE Invoicing -----------------------------
(***************************************************************************)
(* Creating, editing and numbering invoices.  Every request is one READ    *)
(* COMMITTED transaction that commits when its handler returns and rolls   *)
(* back when it raises; a step here is what happens between two points     *)
(* where another transaction can get in.                                   *)
(*                                                                         *)
(* A local number FV/k/MM/YYYY is one more than the invoices of the month  *)
(* that have a number, of either direction and from wherever they came; a  *)
(* SELECT looks for the number before it is written and no constraint      *)
(* keeps number_local UNIQUE.  The FOR UPDATE lock is on the invoice only. *)
(*                                                                         *)
(* The content of an invoice is in module Documents, its way to KSeF in    *)
(* module Submission, payments entered with it in module Payments.         *)
(* Left out: lists and reports.                                            *)
(*                                                                         *)
(* A definition X_... is X with a plausible bug; no specification uses it. *)
(***************************************************************************)
EXTENDS Integers, FiniteSets

CONSTANTS
  Invoices,    \* ids of invoices
  Sale,        \* those of direction "sale", the others are "purchase"
  Clients,     \* concurrent requests
  Months,      \* months of issue_date
  NoRow, NoInvoice, NoNumber,
  Foreign,     \* a number of a supplier that is no FV/k/MM/YYYY
  MAX_RETRIES, \* turns of mark_as_ready (3)
  MaxForeign,  \* bound: largest k of a supplier's FV/k/MM/YYYY
  MaxImports,  \* bound: documents of suppliers
  MaxMoved     \* bound: invoices in another month than that of their number

Numbers == Months \X (Nat \ {0})

ASSUME InvoicingAssumption ==
  /\ IsFiniteSet(Invoices) /\ Sale \subseteq Invoices
  /\ NoInvoice \notin Invoices
  /\ NoNumber \notin Numbers \union {Foreign} /\ Foreign \notin Numbers
  /\ MAX_RETRIES \in Nat \ {0}
  /\ MaxForeign \in Nat /\ MaxImports \in Nat /\ MaxMoved \in Nat

\* "sent" is SENDING or ACCEPTED: nothing here tells the two apart.
Row ==
  [status: {"ready", "sent", "rejected"}, imported: BOOLEAN,
   month: Months, number: Numbers \union {Foreign, NoNumber}]

ASSUME RowAssumption == NoRow \notin Row

VARIABLES
  row,       \* committed rows of invoices
  work,      \* the request a client is in the middle of
  trouble    \* what has happened in a month besides numbering one by one
vars == <<row, work, trouble>>

Work ==
  [step: {"idle", "counted", "checked", "again"},
   invoice: Invoices \union {NoInvoice}, submit: BOOLEAN, next: Nat, attempt: 1..MAX_RETRIES]

Idle ==
  [step |-> "idle", invoice |-> NoInvoice, submit |-> FALSE,
   next |-> 0, attempt |-> 1]

Exists(i) == row[i] # NoRow
Numbered(i) == Exists(i) /\ row[i].number # NoNumber
\* Numbered by the system, not by a supplier.
Issued(i) == Numbered(i) /\ ~row[i].imported
OfMonth(m) == {i \in Invoices : Numbered(i) /\ row[i].month = m}

TypeOK ==
  /\ row \in [Invoices -> Row \union {NoRow}]
  /\ work \in [Clients -> Work]
  /\ trouble \in [Months -> SUBSET {"raced", "disturbed"}]

Init ==
  /\ row = [i \in Invoices |-> NoRow]
  /\ work = [c \in Clients |-> Idle]
  /\ trouble = [m \in Months |-> {}]

Become(c, step) == work' = [work EXCEPT ![c].step = step]
Finish(c) == work' = [work EXCEPT ![c] = Idle]

Numbering(c) == work[c].step \in {"counted", "checked"}
Locked(i) == \E c \in Clients : Numbering(c) /\ work[c].invoice = i

-----------------------------------------------------------------------------
(* POST /invoices                                                           *)

NewInvoice(month) ==
  [status |-> "ready", imported |-> FALSE, month |-> month, number |-> NoNumber]

\* create_invoice, validated, and its commit.  A request with an Idempotency-Key
\* fails before this: its body cannot be hashed.
CreateInvoice(i, month) ==
  /\ ~Exists(i)
  /\ row' = [row EXCEPT ![i] = NewInvoice(month)]
  /\ UNCHANGED <<work, trouble>>

-----------------------------------------------------------------------------
(* Numbers                                                                  *)

MonthOf(c) == row[work[c].invoice].month   \* locked, so it is what was read

\* get_next_sequence_number, in the statement after the lock.
NextSequenceNumber_NotPlusOne(m) == Cardinality(OfMonth(m)) + 2
NextSequenceNumber(m) == Cardinality(OfMonth(m)) + 1

CountMonth(c, i, submit, attempt) ==
  LET m == row[i].month IN
  /\ work' = [work EXCEPT ![c] =
       [step |-> "counted", invoice |-> i, submit |-> submit,
        next |-> NextSequenceNumber(m), attempt |-> attempt]]
  /\ trouble' = IF \E d \in Clients \ {c} : Numbering(d) /\ MonthOf(d) = m
                THEN [trouble EXCEPT ![m] = @ \union {"raced"}] ELSE trouble
  /\ UNCHANGED row

\* mark_as_ready answers an invoice that has a number and touches nothing.
MarkReady(c, i) ==
  /\ work[c].step = "idle"
  /\ Exists(i) /\ ~Locked(i)
  /\ row[i].status = "ready" /\ row[i].number = NoNumber
  /\ CountMonth(c, i, FALSE, 1)

\* The next turn of its loop reads the invoice again.
MarkReadyAgain(c) ==
  LET i == work[c].invoice IN
  /\ work[c].step = "again"
  /\ ~Locked(i)
  /\ IF row[i].status = "ready" /\ row[i].number = NoNumber
     THEN CountMonth(c, i, FALSE, work[c].attempt)
     ELSE Finish(c) /\ UNCHANGED <<row, trouble>>

\* submit_invoice has ensure_number_local number a sale invoice on its way.
SubmitUnnumbered(c, i) ==
  /\ work[c].step = "idle"
  /\ Exists(i) /\ ~Locked(i)
  /\ row[i].status = "ready" /\ i \in Sale /\ row[i].number = NoNumber
  /\ CountMonth(c, i, TRUE, 1)

\* A collision, or an error of the database.  Only mark_as_ready tries again.
TryAgain(c) ==
  /\ IF work[c].submit \/ work[c].attempt = MAX_RETRIES
     THEN Finish(c)
     ELSE work' = [work EXCEPT ![c].step = "again", ![c].attempt = @ + 1]
  /\ UNCHANGED <<row, trouble>>

Candidate(c) == <<MonthOf(c), work[c].next>>

ExistsByNumber_Never(n) == FALSE /\ \E i \in Invoices : Exists(i) /\ row[i].number = n
ExistsByNumber(n) == \E i \in Invoices : Exists(i) /\ row[i].number = n

CheckNumber(c) ==
  /\ work[c].step = "counted"
  /\ IF ExistsByNumber(Candidate(c))
     THEN TryAgain(c)
     ELSE Become(c, "checked") /\ UNCHANGED <<row, trouble>>

\* The UPDATE and the commit; a submission goes on to SENDING in it.
CommitNumber(c) ==
  LET i == work[c].invoice IN
  /\ work[c].step = "checked"
  /\ row' = [row EXCEPT ![i].number = Candidate(c),
                        ![i].status = IF work[c].submit THEN "sent" ELSE "ready"]
  /\ Finish(c)
  /\ UNCHANGED trouble

\* A request that fails, or a process that dies, leaves nothing.
Rollback(c) ==
  /\ work[c].step # "idle"
  /\ Finish(c)
  /\ UNCHANGED <<row, trouble>>

\* An error of the database that mark_as_ready catches.
OperationalError(c) ==
  /\ Numbering(c) /\ ~work[c].submit
  /\ TryAgain(c)

-----------------------------------------------------------------------------
(* PUT /invoices/{id}, submissions, decisions, imports                      *)

Editable(i) == row[i].status \in {"ready", "rejected"}

Disturb(months, what) ==
  trouble' = [m \in Months |-> IF m \in months THEN trouble[m] \union {what} ELSE trouble[m]]

Moved == {i \in Invoices : Issued(i) /\ row[i].number[1] # row[i].month}

\* update_invoice may move the date; the number stays as it was.
UpdateInvoice_Renumbers(c, i, month) ==
  /\ work[c].step = "idle"
  /\ Exists(i) /\ ~Locked(i) /\ Editable(i)
  /\ row' = [row EXCEPT ![i].month = month,
                        ![i].number = IF month = row[i].month THEN @ ELSE NoNumber]
  /\ IF Numbered(i) THEN Disturb({month, row[i].month}, "disturbed") ELSE UNCHANGED trouble
  /\ UNCHANGED work

UpdateInvoice(c, i, month) ==
  /\ work[c].step = "idle"
  /\ Exists(i) /\ ~Locked(i) /\ Editable(i)
  /\ month # row[i].month
  /\ Cardinality(Moved \ {i}) < MaxMoved
  /\ row' = [row EXCEPT ![i].month = month]
  /\ IF Numbered(i) THEN Disturb({month, row[i].month}, "disturbed") ELSE UNCHANGED trouble
  /\ UNCHANGED work

\* A sale invoice that was rejected may be sent again, with the same number.
SubmitNumbered(c, i) ==
  /\ work[c].step = "idle"
  /\ Exists(i) /\ ~Locked(i)
  /\ \/ row[i].status = "ready" /\ (i \in Sale => Numbered(i))
     \/ row[i].status = "rejected" /\ i \in Sale /\ Numbered(i)
  /\ row' = [row EXCEPT ![i].status = "sent"]
  /\ UNCHANGED <<work, trouble>>

\* The worker records that KSeF, or the mapper, has rejected it.  (Its return
\* to READY for want of a session is never written: module Submission.)
Reject(i) ==
  /\ Exists(i) /\ ~Locked(i)
  /\ row[i].status = "sent" /\ ~row[i].imported
  /\ row' = [row EXCEPT ![i].status = "rejected"]
  /\ UNCHANGED <<work, trouble>>

SupplierNumbers == (Months \X (1..MaxForeign)) \union {Foreign, NoNumber}

\* A document of a supplier is counted in its month, and its number is looked
\* for like one of ours.
ImportPurchase(i, month, number) ==
  /\ ~Exists(i) /\ i \notin Sale
  /\ Cardinality({j \in Invoices : Exists(j) /\ row[j].imported}) < MaxImports
  /\ row' = [row EXCEPT ![i] = [status |-> "sent", imported |-> TRUE,
                                month |-> month, number |-> number]]
  /\ Disturb({m \in Months : number # NoNumber /\ (m = month \/ number \in {m} \X (1..MaxForeign))},
             "disturbed")
  /\ UNCHANGED work

-----------------------------------------------------------------------------
Next ==
  \/ \E i \in Invoices, m \in Months : CreateInvoice(i, m)
  \/ \E c \in Clients, i \in Invoices :
       MarkReady(c, i) \/ SubmitUnnumbered(c, i) \/ SubmitNumbered(c, i)
  \/ \E c \in Clients :
       \/ MarkReadyAgain(c) \/ CheckNumber(c) \/ CommitNumber(c)
       \/ Rollback(c) \/ OperationalError(c)
  \/ \E c \in Clients, i \in Invoices, m \in Months : UpdateInvoice(c, i, m)
  \/ \E i \in Invoices : Reject(i)
  \/ \E i \in Invoices, m \in Months, n \in SupplierNumbers : ImportPurchase(i, m, n)

Spec == Init /\ [][Next]_vars
-----------------------------------------------------------------------------
(* Properties                                                               *)

\* A request has the lock of the invoice it numbers, and what it read of it
\* under the lock is still so.
NumberingHoldsTheLock ==
  \A c \in Clients :
    /\ Numbering(c) =>
         /\ work[c].invoice \in Invoices /\ Exists(work[c].invoice)
         /\ row[work[c].invoice].status = "ready"
         /\ row[work[c].invoice].number = NoNumber
         /\ ~row[work[c].invoice].imported
         /\ work[c].submit => work[c].invoice \in Sale
         /\ work[c].next # 0
         /\ \A d \in Clients \ {c} : Numbering(d) => work[d].invoice # work[c].invoice
    /\ work[c].step = "again" => work[c].invoice \in Invoices /\ Exists(work[c].invoice)
                                  /\ ~row[work[c].invoice].imported

\* Two that number a month at once are recorded; one that is alone keeps what
\* it found free.
RacesAreKnown ==
  \A c \in Clients :
    Numbering(c) /\ "raced" \notin trouble[MonthOf(c)] =>
      /\ \A d \in Clients \ {c} : ~(Numbering(d) /\ MonthOf(d) = MonthOf(c))
      /\ work[c].step = "checked" =>
           \A i \in Invoices : Issued(i) => row[i].number # Candidate(c)

\* A number is issued twice only when two requests numbered a month at once:
\* neither retries, nor moved dates, nor suppliers' numbers repeat one
\* (_assign_number_local).
NumbersAreUnique ==
  \A i, j \in Invoices :
    Issued(i) /\ Issued(j) /\ row[i].number = row[j].number /\ i # j =>
      "raced" \in trouble[row[i].number[1]]

\* As long as nothing but numbering happens in a month, and one at a time,
\* its numbers are 1, 2, ..., n, whatever fails in between.
NumberedInSequence ==
  \A m \in Months :
    trouble[m] = {} =>
      {row[i].number : i \in OfMonth(m)} = {m} \X (1..Cardinality(OfMonth(m)))

\* A sale invoice that has left for KSeF has a number.
SentIsNumbered ==
  \A i \in Invoices : Exists(i) /\ i \in Sale /\ row[i].status # "ready" => Numbered(i)

IssuedIsNumber == \A i \in Invoices : Issued(i) => row[i].number \in Numbers

\* Nothing is done to an invoice that came from KSeF.
ImportedIsSent == \A i \in Invoices : Exists(i) /\ row[i].imported => row[i].status = "sent"

IInv ==
  /\ TypeOK
  /\ NumberingHoldsTheLock
  /\ RacesAreKnown
  /\ IssuedIsNumber
  /\ ImportedIsSent
  /\ NumbersAreUnique
  /\ SentIsNumbered

\* A number, once given, stays with its invoice, whatever is edited, moved,
\* sent, rejected, sent again or asked for again.
NumberIsKept ==
  [][\A i \in Invoices : Numbered(i) => Exists(i)' /\ row'[i].number = row[i].number]_vars
=============================================================================
