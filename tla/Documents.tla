----------------------------- MODULE Documents ------------------------------
(***************************************************************************)
(* What is on an invoice, from the form to the buyer: the contractor and   *)
(* company it is made out with, its amounts, the checks of a submission,   *)
(* the FA(3) document, and what a buyer who runs this program reads back.  *)
(* One invoice and one contractor; when a request may run at all is in     *)
(* modules Invoicing and Submission.                                       *)
(*                                                                         *)
(* Money is in grosze, the price in a form in 1/1000 zl, a day a number.   *)
(* A name or street is NoText ("" in the code) or a value; locality and    *)
(* country are always there.  Left out: units, ISBN, annotations,          *)
(* corrections and advances, which no request can enter.                   *)
(*                                                                         *)
(* A definition X_... is X with a plausible bug; no specification uses it. *)
(***************************************************************************)
EXTENDS Integers, Sequences, FiniteSetsExt, Functions

CONSTANTS
  CreateForms, UpdateForms,  \* what the user may enter
  Configured,                \* the company in the environment, or blanks
  Companies,                 \* what the settings may say
  Names, Streets,            \* of a party
  Contractors,               \* that are entered by hand
  NoText, None, NoDocument,
  Locality,                  \* an address without a street
  ZeroKR,                    \* "0 KR", the rate of 0 % in a line
  Published,                 \* days with a table of NBP
  MaxPaymentDueDays,         \* _MAX_PAYMENT_DUE_DAYS (59)
  MaxChanges                 \* bound: changes of contractor and settings, edits

\* A NIP that _is_valid_nip takes (dashes and spaces do not matter), one with
\* "PL" before it, the number of another country, and a wrong one.
NipKinds == {"valid", "PL", "EU", "wrong", "missing"}
Parties == [nip: NipKinds, name: Names \union {NoText}, street: Streets \union {NoText}]
NoOverride == [name |-> None, street |-> None]

Methods == {"cash", "transfer"}
InvoiceItemInput == [named: BOOLEAN, quantity: Int, price: Int, vat: Int]
InvoiceCreateRequest ==
  [direction: {"sale", "purchase"}, issue: Int, sale: Int, delivery: Int \union {None},
   due: Int \union {None}, method: Methods \union {NoText}, currency: {"PLN", "EUR"},
   rate: Int \union {None}, items: Seq(InvoiceItemInput)]

\* The kinds of error of a submission.
Refusals == {"company", "party", "nip", "sums", "currency", "mapping"}

\* The row of an invoice, and of a line of it.
Item == [quantity: Int, price: Int, vat: Int, net: Int, tax: Int, gross: Int]
Document ==
  [status: {"ready", "sending", "accepted", "rejected"}, direction: {"sale", "purchase"},
   numbered: BOOLEAN, rate: Int \union {None}, due: Int \union {None},
   seller: Parties, buyer: Parties, issue: Int, sale: Int, delivery: Int \union {None},
   method: Methods, currency: {"PLN", "EUR"}, items: Seq(Item),
   net: Int, tax: Int, gross: Int]

ASSUME DocumentsAssumption ==
  /\ CreateForms \union UpdateForms \subseteq InvoiceCreateRequest
  /\ Configured \in Parties /\ Companies \union Contractors \subseteq Parties
  /\ NoDocument \notin Document /\ ZeroKR \notin 1..100
  /\ None \notin Refusals /\ Published \subseteq Int
  /\ MaxChanges \in Nat /\ MaxPaymentDueDays \in Nat

VARIABLES
  settings,    \* their row
  contractor,  \* the row of the contractor, or None
  override,    \* its override
  stored,      \* the committed invoice
  entered,     \* buyer the user saw when it was entered; None if it was blanked
  sent,        \* the document
  received,    \* what the buyer reads in it
  refusal,     \* why the last submission was refused
  changes      \* so far
docVars == <<settings, contractor, override, stored, entered, sent, received, refusal, changes>>

DocumentsInit ==
  /\ settings \in Companies
  /\ contractor = None /\ override = NoOverride
  /\ stored = NoDocument /\ entered = None
  /\ sent = None /\ received = None
  /\ refusal = None
  /\ changes = 0

HalfUp(n, d) == (2 * n + d) \div (2 * d)
HalfEven(n, d) ==
  LET q == n \div d IN
  IF 2 * (n % d) = d THEN q + (q % 2) ELSE HalfUp(n, d)

-----------------------------------------------------------------------------
(* Parties                                                                  *)

Change == changes < MaxChanges /\ changes' = changes + 1

UpdateSettings(c) ==
  /\ Change
  /\ settings' = c
  /\ UNCHANGED <<contractor, override, stored, entered, sent, received, refusal>>

\* create_manual takes any text for a NIP, and leaves a known contractor alone.
CreateManual(p) ==
  /\ contractor = None
  /\ contractor' = p
  /\ UNCHANGED <<settings, override, stored, entered, sent, received, refusal, changes>>

\* to_contractor_fields: a name is made up if need be, a street is not.
RegonAnswers == [nip: {"valid"}, name: Names, street: Streets \union {NoText}]

\* lookup_by_nip: the first record, none, or an error; of the last two only the
\* time and kind are kept.
Lookup == RegonAnswers \union {None}

\* get_by_nip
RegonSync(answer) ==
  /\ answer # None
  /\ Change
  /\ contractor # None => contractor.nip = "valid"
  /\ contractor' = answer
  /\ UNCHANGED <<settings, override, stored, entered, sent, received, refusal>>

UpdateOverride(o) ==
  /\ Change
  /\ contractor # None
  /\ override' = o
  /\ UNCHANGED <<settings, contractor, stored, entered, sent, received, refusal>>

\* build_contractor_snapshot: an empty text overrides.
Overridden(value, by) == IF by # None THEN by ELSE value
Snapshot(o) ==
  [contractor EXCEPT !.name = Overridden(@, o.name), !.street = Overridden(@, o.street)]

\* _build_response: an empty text does not.
Shown(value, by) == IF by \in {None, NoText} THEN value ELSE by
ShownContractor ==
  IF NoText \in {override.name, override.street} THEN None
  ELSE [contractor EXCEPT !.name = Shown(@, override.name), !.street = Shown(@, override.street)]

\* _merge: the environment comes first; the snapshot of the company is this.
FixedOrDb(env, db, blank) == IF env # blank THEN env ELSE db
Company ==
  [nip |-> FixedOrDb(Configured.nip, settings.nip, "missing"),
   name |-> FixedOrDb(Configured.name, settings.name, NoText),
   street |-> FixedOrDb(Configured.street, settings.street, NoText)]

CompanyIsComplete ==
  Company.name # NoText /\ Company.nip # "missing" /\ Company.street # NoText

-----------------------------------------------------------------------------
(* Create and update                                                        *)

ItemIsRight(i) == i.named /\ i.quantity > 0 /\ i.price >= 0 /\ i.vat \in 0..100

\* build_items rounds net and VAT of a line and adds them up.
LineGross_RoundedOnce(i, net, tax) == HalfUp(i.quantity * i.price * (100 + i.vat), 1000)
LineGross(i, net, tax) == net + tax

BuildItem(i) ==
  LET net == HalfUp(i.quantity * i.price, 10)
      tax == HalfUp(net * i.vat, 100) IN
  [quantity |-> i.quantity, price |-> i.price, vat |-> i.vat,
   net |-> net, tax |-> tax, gross |-> LineGross(i, net, tax)]

\* calculate_totals
Net(items) == SumFunction([k \in DOMAIN items |-> items[k].net])
Tax(items) == SumFunction([k \in DOMAIN items |-> items[k].tax])
Gross(items) == SumFunction([k \in DOMAIN items |-> items[k].gross])

DatesAreRight(f) == f.sale <= f.issue
DueIsRight(f) == f.due # None /\ f.due \in f.issue..(f.issue + MaxPaymentDueDays)
FormIsRight(f, direction) ==
  /\ f.items # <<>> /\ \A k \in DOMAIN f.items : ItemIsRight(f.items[k])
  /\ DatesAreRight(f)
  /\ IF direction = "sale" THEN DueIsRight(f) /\ f.method \in Methods /\ CompanyIsComplete
     ELSE f.method \in Methods \union {NoText}

Paid(f) == IF f.method = NoText THEN "transfer" ELSE f.method

\* Company and contractor by direction, lines and sums.
WithContent(invoice, f) ==
  LET items == [k \in DOMAIN f.items |-> BuildItem(f.items[k])]
      isSale == invoice.direction = "sale" IN
  [status |-> invoice.status, direction |-> invoice.direction, numbered |-> invoice.numbered,
   rate |-> invoice.rate, due |-> invoice.due,
   seller |-> IF isSale THEN Company ELSE Snapshot(override),
   buyer |-> IF isSale THEN Snapshot(override) ELSE Company,
   issue |-> f.issue, sale |-> f.sale, delivery |-> f.delivery, method |-> Paid(f),
   currency |-> f.currency, items |-> items, net |-> Net(items), tax |-> Tax(items),
   gross |-> Gross(items)]

\* The row of a line has a price of two decimals; it was multiplied before.
ItemToOrm(item) == [item EXCEPT !.price = HalfUp(@, 10)]
ToOrm(invoice) ==
  [invoice EXCEPT !.items = [k \in DOMAIN @ |-> ItemToOrm(@[k])]]

\* get_mid_rate: the newest table of eight days, or an error.
MidRate(day) ==
  LET tables == {d \in Published : d \in (day - 7)..day} IN
  IF tables = {} THEN None ELSE Max(tables)

\* The rate, named by the day of its table, may be missing: an error of NBP is
\* only logged.
RateOf(f) ==
  IF f.currency = "PLN" \/ f.rate # None THEN {f.rate}
  ELSE {MidRate(f.issue - 1), None}

Entered(direction) ==
  entered' = IF direction = "sale" THEN ShownContractor
             ELSE Company

CreateDocument(f) ==
  /\ stored = NoDocument /\ contractor # None
  /\ FormIsRight(f, f.direction)
  /\ \E rate \in RateOf(f) :
       stored' = ToOrm(WithContent(
         [status |-> "ready", direction |-> f.direction, numbered |-> FALSE, rate |-> rate,
          due |-> IF f.due = None THEN f.issue + 14 ELSE f.due], f))
  /\ Entered(f.direction)
  /\ UNCHANGED <<settings, contractor, override, sent, received, refusal, changes>>

\* Number, status, direction and rate stay, whatever the currency becomes.
UpdateDocument(f) ==
  /\ Change
  /\ stored # NoDocument /\ stored.status \in {"ready", "rejected"}
  /\ FormIsRight(f, stored.direction)
  /\ stored' = ToOrm(WithContent(
       [status |-> stored.status, direction |-> stored.direction,
        numbered |-> stored.numbered, rate |-> stored.rate, due |-> f.due], f))
  /\ Entered(stored.direction)
  /\ sent' = None
  /\ UNCHANGED <<settings, contractor, override, received, refusal>>

-----------------------------------------------------------------------------
(* Submission                                                               *)

Distance(x, y) == IF x > y THEN x - y ELSE y - x

HasMinimumAddress(p) == p.street # NoText
PartyIsComplete(p) == p.name # NoText /\ p.nip # "missing" /\ HasMinimumAddress(p)
IsValidNip(nip) == nip = "valid"

SumsAgree(i) ==
  /\ Distance(Tax(i.items), i.tax) <= Len(i.items)
  /\ Distance(i.net + i.tax, i.gross) <= 1
  /\ i.direction = "sale" =>
       /\ Distance(Net(i.items), i.net) <= Len(i.items)
       /\ Distance(Gross(i.items), i.gross) <= Len(i.items)

\* Two letters before a NIP are cut off.
NormalizeNip(nip) == IF nip = "PL" THEN "valid" ELSE nip

\* The pair of fields P_13_n and P_14_n of a rate; the rates "zw" and "np" are
\* no numbers, so no line has them.
VatRateFields ==
  [r \in {23, 8, 5, 0} |-> CASE r = 23 -> 1 [] r = 8 -> 2 [] r = 5 -> 3 [] r = 0 -> 4]

\* What invoice_to_xml raises a KSeFMappingError for.
IsMapped(i) ==
  /\ IsValidNip(NormalizeNip(i.seller.nip))
  /\ i.items # <<>>
  /\ \A k \in DOMAIN i.items : i.items[k].vat \in DOMAIN VatRateFields

\* validate_for_ksef, _validate_rejected_sale_resubmit, then invoice_to_xml for
\* the idempotency key.  No code sets the vat_amount_pln of a line, which every
\* currency but PLN requires.
ReasonsToRefuse(i) ==
  {r \in Refusals :
     \/ r = "company" /\ i.direction = "sale" /\ ~CompanyIsComplete
     \/ r = "party" /\ i.direction = "sale"
        /\ ~(PartyIsComplete(i.seller) /\ PartyIsComplete(i.buyer))
     \/ r = "nip" /\ ~(IsValidNip(i.seller.nip) /\ IsValidNip(i.buyer.nip))
     \/ r = "sums" /\ ~SumsAgree(i)
     \/ r = "currency" /\ i.currency # "PLN"
     \/ r = "mapping" /\ ~IsMapped(i)}

\* aggregate_vat_totals
Lines(items, vat) == {k \in DOMAIN items : items[k].vat = vat}
TotalsByRate_FromTheNet(items) ==
  [vat \in {items[k].vat : k \in DOMAIN items} |->
     LET net == SumFunction([k \in Lines(items, vat) |-> items[k].net]) IN
     [net |-> net, tax |-> HalfUp(net * vat, 100)]]
TotalsByRate(items) ==
  [vat \in {items[k].vat : k \in DOMAIN items} |->
     [net |-> SumFunction([k \in Lines(items, vat) |-> items[k].net]),
      tax |-> SumFunction([k \in Lines(items, vat) |-> items[k].tax])]]

VatTotals(i) ==
  LET totals == TotalsByRate(i.items) IN
  [n \in {VatRateFields[r] : r \in DOMAIN totals} |->
     totals[CHOOSE r \in DOMAIN totals : VatRateFields[r] = n]]

\* _format_adres_l1: street and locality become one line; without a street it
\* is the locality alone.
AdresL1(p) == IF p.street = NoText THEN Locality ELSE p.street
Podmiot1(p) == [NIP |-> NormalizeNip(p.nip), Nazwa |-> p.name, AdresL1 |-> AdresL1(p)]
Podmiot2(p) ==
  [id |-> CASE p.nip = "EU" -> "NrVatUE" [] p.nip = "missing" -> "BrakID" [] OTHER -> "NIP",
   NIP |-> NormalizeNip(p.nip), Nazwa |-> p.name, AdresL1 |-> AdresL1(p)]

FormaPlatnosci == [cash |-> 1, transfer |-> 6]
Platnosc(i) == [Termin |-> i.due, FormaPlatnosci |-> FormaPlatnosci[i.method]]

LineVatRate(vat) == IF vat = 0 THEN ZeroKR ELSE vat

\* invoice_to_xml
ToXml(i) ==
  LET delivery == IF i.delivery = None THEN i.sale ELSE i.delivery IN
  [P_1 |-> i.issue, P_2 |-> i.numbered,
   P_6 |-> IF delivery = i.issue THEN None ELSE delivery,
   KodWaluty |-> i.currency, Podmiot1 |-> Podmiot1(i.seller), Podmiot2 |-> Podmiot2(i.buyer),
   totals |-> VatTotals(i), P_15 |-> i.gross, Platnosc |-> Platnosc(i),
   rows |-> [k \in DOMAIN i.items |->
     [P_8B |-> i.items[k].quantity, P_9A |-> i.items[k].price,
      P_11 |-> i.items[k].net, P_12 |-> LineVatRate(i.items[k].vat)]]]

\* A sale takes the company as the settings have it now, and a number.
Prepared(i) ==
  IF i.direction = "sale" THEN [i EXCEPT !.seller = Company, !.numbered = TRUE] ELSE i

SubmitDocument ==
  /\ stored # NoDocument
  /\ \/ stored.status = "ready"
     \/ stored.status = "rejected" /\ stored.direction = "sale"
  /\ LET i == Prepared(stored)
         reasons == ReasonsToRefuse(i) IN
     \/ /\ reasons = {}
        /\ stored' = [i EXCEPT !.status = "sending"]
        /\ sent' = ToXml(i)
        /\ refusal' = None
     \/ /\ refusal' \in reasons
        /\ UNCHANGED <<stored, sent>>
  /\ UNCHANGED <<settings, contractor, override, entered, received, changes>>

\* KSeF's verdict (module Submission).
Verdict(status) ==
  /\ stored # NoDocument /\ stored.status = "sending"
  /\ stored' = [stored EXCEPT !.status = status]
  /\ UNCHANGED <<settings, contractor, override, entered, sent, received, refusal, changes>>

-----------------------------------------------------------------------------
(* The buyer                                                                *)

\* _parse_item: "0 KR" is no number, so 0; the VAT is computed again, and
\* quantize rounds a half to the even grosz.
ParseItem(row) ==
  LET vat == IF row.P_12 = ZeroKR THEN 0 ELSE row.P_12
      tax == HalfEven(row.P_11 * vat, 100) IN
  [quantity |-> row.P_8B, price |-> row.P_9A, vat |-> vat,
   net |-> row.P_11, tax |-> tax, gross |-> row.P_11 + tax]

\* _extract_totals
P13Fields == {1, 2, 3, 4, 6, 7, 8, 9, 10, 11}
P14Fields == {1, 2, 3, 4, 5}
ExtractTax_OfTheLines(x) ==
  SumFunction([k \in DOMAIN x.rows |-> ParseItem(x.rows[k]).tax])
ExtractTax(x) == SumFunction([n \in DOMAIN x.totals \intersect P14Fields |-> x.totals[n].tax])
ExtractNet(x) == SumFunction([n \in DOMAIN x.totals \intersect P13Fields |-> x.totals[n].net])
ExtractGross(x) ==
  IF x.P_15 = 0 /\ ExtractNet(x) > 0 THEN ExtractNet(x) + ExtractTax(x) ELSE x.P_15

\* The address stays one line; the kind of id, NIP or NrVatUE, is not kept.
ParseSubject(podmiot) ==
  [nip |-> podmiot.NIP, name |-> podmiot.Nazwa, street |-> podmiot.AdresL1]

\* A code that is neither is taken for a transfer by the import.
ExtractPaymentMethod(x) == IF x.Platnosc.FormaPlatnosci = 1 THEN "cash" ELSE "transfer"
ExtractDueDate(x) == x.Platnosc.Termin

\* parse_fa3_xml.  P_6 is not read: the date of sale is that of issue.
Parse(x) ==
  [number |-> x.P_2, issue |-> x.P_1, sale |-> x.P_1, due |-> ExtractDueDate(x),
   method |-> ExtractPaymentMethod(x), currency |-> x.KodWaluty,
   seller |-> ParseSubject(x.Podmiot1), buyer |-> ParseSubject(x.Podmiot2),
   items |-> [k \in DOMAIN x.rows |-> ParseItem(x.rows[k])],
   net |-> ExtractNet(x), tax |-> ExtractTax(x), gross |-> ExtractGross(x)]

Import ==
  /\ stored # NoDocument /\ stored.status = "accepted"
  /\ received = None
  /\ received' = Parse(sent)
  /\ UNCHANGED <<settings, contractor, override, stored, entered, sent, refusal, changes>>

DocumentsNext ==
  \/ \E c \in Companies : UpdateSettings(c)
  \/ \E p \in Contractors : CreateManual(p)
  \/ \E answer \in Lookup : RegonSync(answer)
  \/ \E name \in Names \union {NoText, None}, street \in Streets \union {NoText, None} :
       UpdateOverride([name |-> name, street |-> street])
  \/ \E f \in CreateForms : CreateDocument(f)
  \/ \E f \in UpdateForms : UpdateDocument(f)
  \/ SubmitDocument
  \/ \E status \in {"accepted", "rejected"} : Verdict(status)
  \/ Import

DocumentsSpec == DocumentsInit /\ [][DocumentsNext]_docVars
-----------------------------------------------------------------------------
(* Properties                                                               *)

\* No submission is refused for its sums: however lines, prices of three
\* decimals and rates are mixed, what create and update compute is within the
\* tolerances the submission allows, which do not all grow with the lines
\* (build_items, validate_vat).
NotRefusedForItsSums == refusal # "sums"

\* The document adds up: each line is its price times its quantity but for the
\* rounding of the price, the sums of a rate are those of its lines, the VAT is
\* that of the rate but for half a grosz a line, and they make the total
\* (invoice_to_xml).
SentAddsUp ==
  sent # None =>
    LET rateOf(k) == IF sent.rows[k].P_12 = ZeroKR THEN 0 ELSE sent.rows[k].P_12
        linesOf(r) == {k \in DOMAIN sent.rows : rateOf(k) = r}
        total(r) == sent.totals[VatRateFields[r]] IN
    /\ \A k \in DOMAIN sent.rows :
         2 * Distance(sent.rows[k].P_8B * sent.rows[k].P_9A, sent.rows[k].P_11)
           <= sent.rows[k].P_8B + 1
    /\ \A r \in {rateOf(k) : k \in DOMAIN sent.rows} :
         /\ total(r).net = SumFunction([k \in linesOf(r) |-> sent.rows[k].P_11])
         /\ 2 * Distance(100 * total(r).tax, r * total(r).net) <= 100 * Cardinality(linesOf(r))
    /\ sent.P_15 = SumFunction([n \in DOMAIN sent.totals |->
                                   sent.totals[n].net + sent.totals[n].tax])

\* The buyer reads the invoice as the seller has it, the date of sale, the rate
\* and the VAT of single lines apart; the buyer named in it is the one the
\* seller saw when entering it last, whatever has become of the contractor and
\* the settings since, unless an override blanked a field (parse_fa3_xml).
ReadAs(p) == [p EXCEPT !.street = AdresL1(p)]
BuyerReadsWhatWasSold ==
  received # None =>
    /\ \A field \in {"issue", "due", "method", "currency", "net", "tax", "gross"} :
         received[field] = stored[field]
    /\ received.seller = ReadAs(stored.seller) /\ received.buyer = ReadAs(stored.buyer)
    /\ Len(received.items) = Len(stored.items)
    /\ \A k \in DOMAIN stored.items, field \in {"quantity", "price", "vat", "net"} :
         received.items[k][field] = stored.items[k][field]
    /\ entered # None => received.buyer = ReadAs(entered)
    /\ stored.direction = "sale" => received.number
=============================================================================
