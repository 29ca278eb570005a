-------------------------- MODULE InvoiceDelivery --------------------------
(***************************************************************************)
(* What the submission pipeline promises about one invoice, with the       *)
(* transmissions, jobs, workers and sessions hidden.  An invoice is issued *)
(* READY, may be edited while READY or REJECTED, is handed over once       *)
(* (SENDING), and leaves SENDING only with a decision: ACCEPTED when the   *)
(* national e-invoice system (KSeF) really accepted a document of this     *)
(* invoice, REJECTED otherwise.  Only a sale invoice may be handed over    *)
(* again after a rejection.  ACCEPTED is final.                            *)
(*                                                                         *)
(* Source of the promise: the state machine and the editability rule of    *)
(* the domain model (app/domain/models/invoice.py:17-22,                   *)
(* app/services/invoice_service.py:68-83) and the resubmission rule        *)
(* (app/services/transmission_service.py:149-162).                         *)
(***************************************************************************)
EXTENDS Naturals

CONSTANTS
  Invoices,       \* the invoices in the database
  Resubmittable   \* those that may be sent again after a rejection

VARIABLES
  status,     \* status of every invoice
  edition,    \* how many times its content was edited
  accepted    \* <<invoice, edition>> pairs that KSeF accepted

vars == <<status, edition, accepted>>

Statuses == {"READY", "SENDING", "ACCEPTED", "REJECTED"}
Editable == {"READY", "REJECTED"}

TypeOK ==
  /\ status \in [Invoices -> Statuses]
  /\ edition \in [Invoices -> Nat]
  /\ accepted \subseteq Invoices \X Nat

Init ==
  /\ status = [i \in Invoices |-> "READY"]
  /\ edition = [i \in Invoices |-> 0]
  /\ accepted = {}

Edit(i) ==
  /\ status[i] \in Editable
  /\ edition' = [edition EXCEPT ![i] = @ + 1]
  /\ UNCHANGED <<status, accepted>>

HandOver(i) ==
  /\ \/ status[i] = "READY"
     \/ status[i] = "REJECTED" /\ i \in Resubmittable
  /\ status' = [status EXCEPT ![i] = "SENDING"]
  /\ UNCHANGED <<edition, accepted>>

\* KSeF accepts a document of an invoice that was handed over, with the
\* content the invoice has now or had earlier.
KSeFAccepts(i) ==
  /\ status[i] # "READY"
  /\ \E e \in 0..edition[i] : accepted' = accepted \union {<<i, e>>}
  /\ UNCHANGED <<status, edition>>

Confirm(i) ==
  /\ status[i] = "SENDING"
  /\ \E e \in 0..edition[i] : <<i, e>> \in accepted
  /\ status' = [status EXCEPT ![i] = "ACCEPTED"]
  /\ UNCHANGED <<edition, accepted>>

Refuse(i) ==
  /\ status[i] = "SENDING"
  /\ status' = [status EXCEPT ![i] = "REJECTED"]
  /\ UNCHANGED <<edition, accepted>>

Next ==
  \E i \in Invoices :
    Edit(i) \/ HandOver(i) \/ KSeFAccepts(i) \/ Confirm(i) \/ Refuse(i)

Spec == Init /\ [][Next]_vars
=============================================================================
