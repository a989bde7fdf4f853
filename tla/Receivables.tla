---------------------------- MODULE Receivables ----------------------------
(***************************************************************************)
(* What clients owe: invoices made from a quote, credit notes that lower   *)
(* them, and payments applied to them.  One client; amounts are small      *)
(* integers, without the cent and the peso the code allows for rounding.   *)
(*                                                                         *)
(* A request is a record with a program counter and what it has read; one  *)
(* SQL statement is atomic, and other requests run between two of them.    *)
(* The signature of a document is only its effect on the status (see       *)
(* FiscalDocuments).                                                       *)
(***************************************************************************)
EXTENDS Integers, FiniteSets, Sums

CONSTANTS
    Invoices,      \* rows of sales_invoices, invoices and credit notes
    Payments,      \* rows of payments
    Quotes,        \* approved quotes
    Reqs,          \* requests in flight at the same time
    MaxAmount,     \* largest amount of an invoice or payment
    QuoteTotal,    \* total of every quote
    MaxRows,       \* bound on the rows of both tables together
    NoInvoice, NoPayment, NoQuote,
    Crowd,         \* may requests overlap?
    Outages        \* may the process restart?

ASSUME ConstantsAssumption ==
    /\ NoInvoice \notin Invoices
    /\ NoPayment \notin Payments
    /\ NoQuote \notin Quotes
    /\ IsFiniteSet(Invoices)
    /\ IsFiniteSet(Payments)
    /\ MaxAmount \in Nat \ {0}
    /\ QuoteTotal \in Nat
    /\ MaxRows \in Nat
    /\ Crowd \in BOOLEAN
    /\ Outages \in BOOLEAN

VARIABLES
    billable,  \* quotes that are approved and not superseded
    inv,       \* table sales_invoices
    pay,       \* table payments
    req        \* requests in flight

vars == <<billable, inv, pay, req>>

(***************************************************************************)
(* Types.                                                                  *)
(***************************************************************************)
Amount == 1..MaxAmount
LiveInvoice == {"draft", "emitting", "issued"}
LivePayment == {"pending", "completed", "failed"}

Invoice ==
    [status: LiveInvoice \cup {"none", "deleted"}, quote: Quotes \cup {NoQuote},
     related: Invoices \cup {NoInvoice}, total: Amount \cup {0}]
Payment ==
    [status: LivePayment \cup {"none", "deleted"}, amount: Amount \cup {0},
     inv: Invoices \cup {NoInvoice}]
Request ==
    [pc: {"idle", "create_sum", "create", "update_sum", "update", "delete", "credit_sum", "credit",
          "paid", "credited", "add", "link", "apply", "save_payment"},
     inv: Invoices \cup {NoInvoice}, pay: Payments \cup {NoPayment}, quote: Quotes \cup {NoQuote},
     amount: Int, balance: Int, row: Payment, flag: BOOLEAN]

NoRow == [status |-> "none", quote |-> NoQuote, related |-> NoInvoice, total |-> 0]
FreePayment == [status |-> "none", amount |-> 0, inv |-> NoInvoice]
Idle ==
    [pc |-> "idle", inv |-> NoInvoice, pay |-> NoPayment, quote |-> NoQuote, amount |-> 0,
     balance |-> 0, row |-> FreePayment, flag |-> FALSE]

TypeOK ==
    /\ billable \in SUBSET Quotes
    /\ inv \in [Invoices -> Invoice]
    /\ pay \in [Payments -> Payment]
    /\ req \in [Reqs -> Request]

Init ==
    /\ billable = Quotes
    /\ inv = [i \in Invoices |-> NoRow]
    /\ pay = [p \in Payments |-> FreePayment]
    /\ req = [r \in Reqs |-> Idle]

(***************************************************************************)
(* Helpers.  A document of another one is a credit note.                   *)
(***************************************************************************)
Exists(i) == i \in Invoices /\ inv[i].status \in LiveInvoice
IsInvoice(i) == inv[i].related = NoInvoice
Total(is) == SumOver([i \in Invoices |-> inv[i].total], is)

\* attachPaid: what is left to collect of an issued invoice.
Paid(i) ==
    SumOver([p \in Payments |-> pay[p].amount], {p \in Payments : pay[p].inv = i /\ pay[p].status = "completed"})
Credited(i) == Total({c \in Invoices : inv[c].related = i /\ inv[c].status = "issued"})

\* invoicedOfQuote: drafts count, credit notes only once issued.
InvoicedOfQuote(q, except) ==
    LET of == {i \in Invoices \ {except} : Exists(i) /\ inv[i].quote = q}
    IN  Total({i \in of : IsInvoice(i)}) - Total({i \in of : ~IsInvoice(i) /\ inv[i].status = "issued"})

\* Is there a row left to insert?  (The bounds on the tables.)
Room ==
    LET rows(table, keys) == Cardinality({k \in keys : table[k].status # "none"})
    IN  rows(inv, Invoices) + rows(pay, Payments) < MaxRows
FreeInvoice == Room /\ \E i \in Invoices : inv[i].status = "none"
FreeRow == Room /\ \E p \in Payments : pay[p].status = "none"

At(r, label) == req[r].pc = label
Goto(r, label) == req' = [req EXCEPT ![r].pc = label]
Finish(r) == req' = [req EXCEPT ![r] = Idle]
Quiet == \A r \in Reqs : At(r, "idle")
Begin(r, next) == At(r, "idle") /\ (Crowd \/ Quiet) /\ req' = [req EXCEPT ![r] = next]

(***************************************************************************)
(* create: loadQuote, assertWithinQuote, INSERT.                           *)
(***************************************************************************)
CreateLoad(r, q) ==
    /\ q # NoQuote => q \in billable
    /\ FreeInvoice
    /\ \E total \in Amount :
          Begin(r, [Idle EXCEPT !.pc = IF q = NoQuote THEN "create" ELSE "create_sum",
                                !.quote = q, !.amount = total])
    /\ UNCHANGED <<billable, inv, pay>>

\* Faulty variant: credit notes are subtracted before they are issued.
CreateSumAnyCredit(r) ==
    LET of == {i \in Invoices : Exists(i) /\ inv[i].quote = req[r].quote}
        already == Total({i \in of : IsInvoice(i)}) - Total({i \in of : ~IsInvoice(i)})
    IN  /\ At(r, "create_sum")
        /\ IF already + req[r].amount <= QuoteTotal THEN Goto(r, "create") ELSE Finish(r)
        /\ UNCHANGED <<billable, inv, pay>>

CreateSum(r) ==
    /\ At(r, "create_sum")
    /\ IF InvoicedOfQuote(req[r].quote, NoInvoice) + req[r].amount <= QuoteTotal
       THEN Goto(r, "create") ELSE Finish(r)
    /\ UNCHANGED <<billable, inv, pay>>

CreateInsert(r, i) ==
    /\ At(r, "create")
    /\ inv[i].status = "none"
    /\ inv' = [inv EXCEPT ![i] = [status |-> "draft", quote |-> req[r].quote, related |-> NoInvoice,
                                  total |-> req[r].amount]]
    /\ Finish(r)
    /\ UNCHANGED <<billable, pay>>

(***************************************************************************)
(* update of the lines of a draft.  The quote is asked again only for an   *)
(* invoice, and the UPDATE is by id.                                       *)
(***************************************************************************)
UpdateRead(r, i) ==
    /\ inv[i].status = "draft"
    /\ \E total \in Amount :
          Begin(r, [Idle EXCEPT !.pc = IF inv[i].quote # NoQuote /\ IsInvoice(i) THEN "update_sum" ELSE "update",
                                !.inv = i, !.quote = inv[i].quote, !.amount = total])
    /\ UNCHANGED <<billable, inv, pay>>

UpdateSum(r) ==
    /\ At(r, "update_sum")
    /\ IF InvoicedOfQuote(req[r].quote, req[r].inv) + req[r].amount <= QuoteTotal
       THEN Goto(r, "update") ELSE Finish(r)
    /\ UNCHANGED <<billable, inv, pay>>

\* Faulty variant: the new lines are added to the ones the draft had.
UpdatePatchAdds(r) ==
    /\ At(r, "update")
    /\ inv' = IF Exists(req[r].inv) THEN [inv EXCEPT ![req[r].inv].total = @ + req[r].amount] ELSE inv
    /\ Finish(r)
    /\ UNCHANGED <<billable, pay>>

UpdatePatch(r) ==
    /\ At(r, "update")
    /\ inv' = IF Exists(req[r].inv) THEN [inv EXCEPT ![req[r].inv].total = req[r].amount] ELSE inv
    /\ Finish(r)
    /\ UNCHANGED <<billable, pay>>

(***************************************************************************)
(* remove: the DELETE is by id.  The database refuses it while a credit    *)
(* note refers to the invoice, and clears the references of payments.      *)
(***************************************************************************)
RemoveRead(r, i) ==
    /\ inv[i].status = "draft"
    /\ Begin(r, [Idle EXCEPT !.pc = "delete", !.inv = i])
    /\ UNCHANGED <<billable, inv, pay>>

\* Faulty variant: payments.salesInvoiceId without its foreign key.
RemoveDeleteNoForeignKey(r) ==
    LET i == req[r].inv
    IN  /\ At(r, "delete")
        /\ inv' = IF \E c \in Invoices : inv[c].related = i THEN inv
                  ELSE [inv EXCEPT ![i] = [NoRow EXCEPT !.status = "deleted"]]
        /\ Finish(r)
        /\ UNCHANGED <<billable, pay>>

RemoveDelete(r) ==
    LET i == req[r].inv
    IN  /\ At(r, "delete")
        /\ IF \E c \in Invoices : inv[c].related = i
           THEN UNCHANGED <<inv, pay>>
           ELSE /\ inv' = [inv EXCEPT ![i] = [NoRow EXCEPT !.status = "deleted"]]
                /\ pay' = [p \in Payments |-> IF pay[p].inv = i THEN [pay[p] EXCEPT !.inv = NoInvoice]
                                              ELSE pay[p]]
        /\ Finish(r)
        /\ UNCHANGED <<billable>>

(***************************************************************************)
(* createCreditNote: never more than is left of the invoice.               *)
(***************************************************************************)
CreditNoteRead(r, i) ==
    /\ inv[i].status = "issued"
    /\ IsInvoice(i)
    /\ FreeInvoice
    /\ \E total \in Amount :
          Begin(r, [Idle EXCEPT !.pc = "credit_sum", !.inv = i, !.quote = inv[i].quote,
                                !.amount = total, !.balance = inv[i].total])
    /\ UNCHANGED <<billable, inv, pay>>

CreditNoteSum(r) ==
    LET previous == Total({c \in Invoices : inv[c].related = req[r].inv})
    IN  /\ At(r, "credit_sum")
        /\ IF previous + req[r].amount <= req[r].balance THEN Goto(r, "credit") ELSE Finish(r)
        /\ UNCHANGED <<billable, inv, pay>>

CreditNoteInsert(r, c) ==
    /\ At(r, "credit")
    /\ inv[c].status = "none"
    /\ inv' = IF Exists(req[r].inv)
              THEN [inv EXCEPT ![c] = [status |-> "draft", quote |-> req[r].quote, related |-> req[r].inv,
                                       total |-> req[r].amount]]
              ELSE inv
    /\ Finish(r)
    /\ UNCHANGED <<billable, pay>>

(***************************************************************************)
(* emit: reserved, then given back or issued.  The last two are by id.     *)
(***************************************************************************)
Emission(i, from, to) ==
    /\ Crowd \/ Quiet
    /\ inv[i].status = from
    /\ inv' = [inv EXCEPT ![i].status = to]
    /\ UNCHANGED <<billable, pay, req>>

EmitClaim(i) == Emission(i, "draft", "emitting")
EmitRollback(i) == Emission(i, "emitting", "draft")
EmitCommit(i) == Emission(i, "emitting", "issued")

\* A revision of the quote takes its place (QuotesService.revise).
Supersede(q) ==
    /\ q \in billable
    /\ billable' = billable \ {q}
    /\ UNCHANGED <<inv, pay, req>>

(***************************************************************************)
(* addPayment and applyPayment.  findOne reads the invoice and, in two     *)
(* more statements, what was paid and credited of it.  A new payment is    *)
(* saved first and linked afterwards; the UPDATE that links is by id.      *)
(***************************************************************************)
FindOne(r, i, p, amount) ==
    /\ Exists(i)
    /\ Begin(r, [Idle EXCEPT !.pc = "paid", !.inv = i, !.pay = p, !.amount = amount,
                             !.flag = (inv[i].status = "issued" /\ IsInvoice(i)),
                             !.balance = inv[i].total])
    /\ UNCHANGED <<billable, inv, pay>>

AddRead(r, i) == FreeRow /\ \E amount \in Amount : FindOne(r, i, NoPayment, amount)
ApplyRead(r, i, p) == FindOne(r, i, p, 0)

\* Faulty variant: what is left to collect forgets the earlier payments.
AttachPaidForgotten(r) ==
    /\ At(r, "paid")
    /\ Goto(r, "credited")
    /\ UNCHANGED <<billable, inv, pay>>

AttachPaid(r) ==
    /\ At(r, "paid")
    /\ req' = [req EXCEPT ![r] = [req[r] EXCEPT !.pc = "credited",
                                                !.balance = req[r].balance - Paid(req[r].inv)]]
    /\ UNCHANGED <<billable, inv, pay>>

\* assertCapacity of addPayment; applyPayment reads the payment first.
AttachCredited(r) ==
    LET left == req[r].balance - Credited(req[r].inv)
        next == [req[r] EXCEPT !.balance = left]
    IN  /\ At(r, "credited")
        /\ CASE req[r].pay # NoPayment -> req' = [req EXCEPT ![r] = [next EXCEPT !.pc = "apply"]]
             [] req[r].pay = NoPayment /\ req[r].flag /\ req[r].amount <= left ->
                  req' = [req EXCEPT ![r] = [next EXCEPT !.pc = "add"]]
             [] OTHER -> Finish(r)
        /\ UNCHANGED <<billable, inv, pay>>

AddPayment(r, p) ==
    /\ At(r, "add")
    /\ pay[p].status = "none"
    /\ pay' = [pay EXCEPT ![p] = [FreePayment EXCEPT !.status = "completed", !.amount = req[r].amount]]
    /\ req' = [req EXCEPT ![r] = [req[r] EXCEPT !.pc = "link", !.pay = p]]
    /\ UNCHANGED <<billable, inv>>

ApplyPayment(r) ==
    LET p == req[r].pay
    IN  /\ At(r, "apply")
        /\ IF /\ pay[p].status = "completed" /\ pay[p].inv = NoInvoice
              /\ req[r].flag /\ pay[p].amount <= req[r].balance
           THEN Goto(r, "link") ELSE Finish(r)
        /\ UNCHANGED <<billable, inv, pay>>

\* The foreign key refuses an invoice that is gone.
LinkPayment(r) ==
    LET p == req[r].pay
    IN  /\ At(r, "link")
        /\ pay' = IF pay[p].status \in LivePayment /\ Exists(req[r].inv)
                  THEN [pay EXCEPT ![p].inv = req[r].inv] ELSE pay
        /\ Finish(r)
        /\ UNCHANGED <<billable, inv>>

\* One UPDATE, conditional on the link.
UnlinkPayment(p) ==
    /\ Crowd \/ Quiet
    /\ pay[p].inv # NoInvoice
    /\ pay' = [pay EXCEPT ![p].inv = NoInvoice]
    /\ UNCHANGED <<billable, inv, req>>

(***************************************************************************)
(* PaymentsService.  update reads the row and saves it whole: it may bring *)
(* back an old link, or a row deleted meanwhile.                           *)
(***************************************************************************)
CreatePayment(p) ==
    /\ Crowd \/ Quiet
    /\ pay[p].status = "none"
    /\ Room
    /\ \E status \in LivePayment, amount \in Amount :
          pay' = [pay EXCEPT ![p] = [FreePayment EXCEPT !.status = status, !.amount = amount]]
    /\ UNCHANGED <<billable, inv, req>>

PaymentRead(r, p) ==
    /\ pay[p].status \in LivePayment
    /\ \E status \in LivePayment, amount \in Amount :
          Begin(r, [Idle EXCEPT !.pc = "save_payment", !.pay = p,
                                !.row = [pay[p] EXCEPT !.status = status, !.amount = amount]])
    /\ UNCHANGED <<billable, inv, pay>>

PaymentSave(r) ==
    LET p == req[r].pay
    IN  /\ At(r, "save_payment")
        /\ IF req[r].row.inv = NoInvoice \/ Exists(req[r].row.inv)
           THEN pay' = [pay EXCEPT ![p] = req[r].row]
           ELSE UNCHANGED pay
        /\ Finish(r)
        /\ UNCHANGED <<billable, inv>>

DeletePayment(p) ==
    /\ Crowd \/ Quiet
    /\ pay[p].status \in LivePayment
    /\ pay' = [pay EXCEPT ![p] = [FreePayment EXCEPT !.status = "deleted"]]
    /\ UNCHANGED <<billable, inv, req>>

(***************************************************************************)
(* The process stops and starts again: the requests are gone.              *)
(***************************************************************************)
Restart ==
    /\ Outages
    /\ ~Quiet
    /\ req' = [r \in Reqs |-> Idle]
    /\ UNCHANGED <<billable, inv, pay>>

Start(r) ==
    \/ \E q \in Quotes \cup {NoQuote} : CreateLoad(r, q)
    \/ \E i \in Invoices : \/ UpdateRead(r, i) \/ RemoveRead(r, i) \/ CreditNoteRead(r, i) \/ AddRead(r, i)
                           \/ \E p \in Payments : ApplyRead(r, i, p)
    \/ \E p \in Payments : PaymentRead(r, p)

Continue(r) ==
    \/ CreateSum(r) \/ UpdateSum(r) \/ UpdatePatch(r) \/ RemoveDelete(r) \/ CreditNoteSum(r)
    \/ \E i \in Invoices : CreateInsert(r, i) \/ CreditNoteInsert(r, i)
    \/ AttachPaid(r) \/ AttachCredited(r) \/ ApplyPayment(r) \/ LinkPayment(r)
    \/ \E p \in Payments : AddPayment(r, p)
    \/ PaymentSave(r)

Statement ==
    \/ \E i \in Invoices : EmitClaim(i) \/ EmitRollback(i) \/ EmitCommit(i)
    \/ \E p \in Payments : UnlinkPayment(p) \/ CreatePayment(p) \/ DeletePayment(p)
    \/ \E q \in Quotes : Supersede(q)

Next ==
    \/ \E r \in Reqs : Start(r) \/ Continue(r)
    \/ Statement
    \/ Restart

Spec == Init /\ [][Next]_vars

(***************************************************************************)
(* Safety.                                                                 *)
(***************************************************************************)
\* A payment is applied only to an issued invoice, never to a draft, a credit
\* note or a document that was deleted: whatever requests overlap, whole rows
\* are written back and documents are deleted while a payment is linked.
LinkedIsIssued ==
    \A p \in Payments :
        pay[p].inv # NoInvoice => inv[pay[p].inv].status = "issued" /\ IsInvoice(pay[p].inv)

\* assertWithinQuote: with one request at a time no sequence of invoices,
\* edits, credit notes and removals invoices more of a quote than its total.
InvoicedWithinQuote == \A q \in Quotes : InvoicedOfQuote(q, NoInvoice) <= QuoteTotal

\* assertCapacity: with one request at a time, a payment that was not in an
\* invoice enters it only while it fits in what the earlier payments and the
\* credit notes leave to collect of it.
AppliedFits ==
    [][\A p \in Payments : \A i \in Invoices :
          pay'[p].inv = i /\ pay[p].inv # i => (inv[i].total >= Credited(i) + Paid(i))']_vars
=============================================================================
