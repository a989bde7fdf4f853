-------------------------- MODULE ReceivablesProofs --------------------------
(***************************************************************************)
(* A payment is in an issued invoice or in none: for any sets of           *)
(* documents, payments, quotes and requests, whatever overlaps and however *)
(* often the process restarts.  With one request at a time, a quote is not *)
(* invoiced over its total, and a payment enters an invoice where it fits. *)
(***************************************************************************)
EXTENDS Receivables, SumsProofs, TLAPS

(***************************************************************************)
(* The inductive invariant.                                                *)
(***************************************************************************)
Pcs ==
    {"idle", "create_sum", "create", "update_sum", "update", "delete", "credit_sum", "credit",
     "paid", "credited", "add", "link", "apply", "save_payment"}

\* A request as the handlers make it: the amount is that of an invoice or payment.
Asked ==
    [pc: Pcs, inv: Invoices \cup {NoInvoice}, pay: Payments \cup {NoPayment},
     quote: Quotes \cup {NoQuote}, amount: Amount \cup {0}, balance: Int, row: Payment, flag: BOOLEAN]

RowsTyped ==
    /\ inv \in [Invoices -> Invoice]
    /\ pay \in [Payments -> Payment]
    /\ req \in [Reqs -> Asked]

\* An invoice that was issued, and may have been deleted after that by a request
\* that read it as a draft.
Settled(i) ==
    /\ i \in Invoices
    /\ inv[i].status \in {"issued", "deleted"}
    /\ inv[i].related = NoInvoice

\* What a request in flight remembers of invoices: the one it read, and the one in
\* the payment it is about to save.
Remembers(q) ==
    /\ q.flag = TRUE => Settled(q.inv)
    /\ q.pc \in {"add", "link"} => q.flag = TRUE
    /\ q.row.inv # NoInvoice => Settled(q.row.inv)

IInv == RowsTyped /\ LinkedIsIssued /\ \A r \in Reqs : Remembers(req[r])

(***************************************************************************)
(* The rows of a table are finitely many, and their amounts are numbers.   *)
(***************************************************************************)
LEMMA TotalsTyped ==
    ASSUME RowsTyped
    PROVE  \A i : Paid(i) \in Int /\ Credited(i) \in Int /\ (i \in Invoices => inv[i].total \in Int)
<1>1. \A i \in Invoices : inv[i].total \in Int
  BY DEF RowsTyped, Invoice, Amount
<1>2. \A p \in Payments : pay[p].amount \in Int
  BY DEF RowsTyped, Payment, Amount
<1>3. ASSUME NEW i
      PROVE  Paid(i) \in Int
  <2>1. PICK S \in SUBSET Payments : S = {p \in Payments : pay[p].inv = i /\ pay[p].status = "completed"}
    OBVIOUS
  <2>2. IsFiniteSet(S)
    BY ConstantsAssumption, FS_Subset
  <2>3. PICK w : w = [p \in Payments |-> pay[p].amount]
    OBVIOUS
  <2>4. \A x \in S : w[x] \in Int
    BY <1>2, <2>3
  <2>5. SumOver(w, S) \in Int
    BY <2>2, <2>4, SumIsNumber
  <2> QED
    BY <2>1, <2>3, <2>5 DEF Paid
<1>4. ASSUME NEW i
      PROVE  Credited(i) \in Int
  <2>1. PICK S \in SUBSET Invoices : S = {c \in Invoices : inv[c].related = i /\ inv[c].status = "issued"}
    OBVIOUS
  <2>2. IsFiniteSet(S)
    BY ConstantsAssumption, FS_Subset
  <2>3. PICK w : w = [c \in Invoices |-> inv[c].total]
    OBVIOUS
  <2>4. \A x \in S : w[x] \in Int
    BY <1>1, <2>3
  <2>5. SumOver(w, S) \in Int
    BY <2>2, <2>4, SumIsNumber
  <2> QED
    BY <2>1, <2>3, <2>5 DEF Credited, Total
<1> QED
  BY <1>1, <1>3, <1>4

(***************************************************************************)
(* Requests.                                                               *)
(***************************************************************************)
LEMMA IdleRemembers ==
    Idle \in Asked /\ Remembers(Idle) /\ FreePayment \in Payment /\ NoRow \in Invoice
<1>1. FreePayment \in Payment /\ FreePayment.inv = NoInvoice /\ NoRow \in Invoice
  BY DEF FreePayment, Payment, NoRow, Invoice
<1>2. Idle \in Asked
  BY <1>1 DEF Idle, Asked, Pcs
<1>3. Remembers(Idle)
  BY <1>1 DEF Remembers, Idle
<1> QED
  BY <1>1, <1>2, <1>3

LEMMA InitIInv == Init => IInv
<1> SUFFICES ASSUME Init PROVE IInv
  OBVIOUS
<1>1. RowsTyped
  BY IdleRemembers DEF Init, RowsTyped
<1>2. LinkedIsIssued
  BY DEF Init, LinkedIsIssued, FreePayment
<1> QED
  BY <1>1, <1>2, IdleRemembers DEF IInv, Init

\* A request becomes q, the documents it and others remember stay settled, and the
\* payments that change are in issued invoices.
LEMMA StepIInv ==
    ASSUME IInv, NEW r \in Reqs, NEW q, q \in Asked, Remembers(q), req' = [req EXCEPT ![r] = q],
           inv' \in [Invoices -> Invoice], \A i \in Invoices : Settled(i) => Settled(i)',
           pay' \in [Payments -> Payment], LinkedIsIssued'
    PROVE  IInv'
<1>1. req' = [s \in Reqs |-> req'[s]] /\ \A s \in Reqs : req'[s] = IF s = r THEN q ELSE req[s]
  BY DEF IInv, RowsTyped
<1>2. \A s \in Reqs : req'[s] \in Asked
  BY <1>1 DEF IInv, RowsTyped
<1>3. ASSUME NEW s \in Reqs
      PROVE  Remembers(req[s])'
  <2>1. Remembers(req'[s])
    BY <1>1 DEF IInv
  <2> QED
    BY <2>1 DEF Remembers, Settled
<1>4. RowsTyped'
  <2>1. \A s \in Reqs : req'[s] \in Asked
    BY <1>2 DEF Asked, Payment
  <2> QED
    BY <1>1, <2>1 DEF RowsTyped
<1> QED
  BY <1>3, <1>4 DEF IInv

\* A request that only reads.
LEMMA ReadIInv ==
    ASSUME IInv, NEW r \in Reqs, NEW q, q \in Asked, Remembers(q), req' = [req EXCEPT ![r] = q],
           UNCHANGED <<inv, pay>>
    PROVE  IInv'
<1>1. \A i \in Invoices : Settled(i) => Settled(i)'
  BY DEF Settled
<1>2. LinkedIsIssued'
  BY DEF IInv, LinkedIsIssued, IsInvoice
<1> QED
  BY <1>1, <1>2, StepIInv DEF IInv, RowsTyped

LEMMA FinishIInv ==
    ASSUME IInv, NEW r \in Reqs, Finish(r), UNCHANGED <<inv, pay>>
    PROVE  IInv'
<1>1. PICK q : q = Idle
  OBVIOUS
<1> QED
  BY <1>1, ReadIInv, IdleRemembers DEF Finish

\* A request goes to another statement with what it has.
LEMMA GotoShape ==
    ASSUME IInv, NEW r \in Reqs, NEW label \in Pcs, label \in {"add", "link"} => req[r].flag = TRUE
    PROVE  [req[r] EXCEPT !.pc = label] \in Asked /\ Remembers([req[r] EXCEPT !.pc = label])
<1>1. req[r] \in Asked
  BY DEF IInv, RowsTyped
<1>2. [req[r] EXCEPT !.pc = label] \in Asked
  BY <1>1 DEF Asked
<1>3. Remembers([req[r] EXCEPT !.pc = label])
  BY <1>1 DEF IInv, Remembers
<1> QED
  BY <1>2, <1>3

LEMMA GotoIInv ==
    ASSUME IInv, NEW r \in Reqs, NEW label \in Pcs, label \in {"add", "link"} => req[r].flag = TRUE,
           Goto(r, label), UNCHANGED <<inv, pay>>
    PROVE  IInv'
<1>1. PICK q : q = [req[r] EXCEPT !.pc = label]
  OBVIOUS
<1>2. req' = [req EXCEPT ![r] = q]
  BY <1>1 DEF Goto
<1> QED
  BY <1>1, <1>2, ReadIInv, GotoShape

(***************************************************************************)
(* Requests that start.                                                    *)
(***************************************************************************)
\* A request that starts, remembering nothing of invoices.
LEMMA BeginIInv ==
    ASSUME IInv, NEW r \in Reqs, NEW q, q \in Asked, q.flag = FALSE, q.row = FreePayment,
           q.pc \notin {"add", "link"}, req' = [req EXCEPT ![r] = q], UNCHANGED <<inv, pay>>
    PROVE  IInv'
<1>1. Remembers(q)
  BY DEF Remembers, FreePayment
<1> QED
  BY <1>1, ReadIInv

LEMMA StartIInv ==
    ASSUME IInv, NEW r \in Reqs, Start(r)
    PROVE  IInv'
<1>1. Amount \subseteq Amount \cup {0}
  OBVIOUS
<1>2. ASSUME NEW quote \in Quotes \cup {NoQuote}, CreateLoad(r, quote)
      PROVE  IInv'
  <2>1. PICK total \in Amount :
           Begin(r, [Idle EXCEPT !.pc = IF quote = NoQuote THEN "create" ELSE "create_sum",
                                 !.quote = quote, !.amount = total])
    BY <1>2 DEF CreateLoad
  <2>2. PICK pc \in {"create", "create_sum"} : pc = IF quote = NoQuote THEN "create" ELSE "create_sum"
    OBVIOUS
  <2>3. PICK q : q = [Idle EXCEPT !.pc = pc, !.quote = quote, !.amount = total]
    OBVIOUS
  <2>4. req' = [req EXCEPT ![r] = q] /\ UNCHANGED <<inv, pay>> /\ pc \in Pcs
    BY <1>2, <2>1, <2>2, <2>3 DEF CreateLoad, Begin, Pcs
  <2>5. q \in Asked
    BY <1>1, <2>3, <2>4, IdleRemembers DEF Asked
  <2>6. q.flag = FALSE /\ q.row = FreePayment /\ q.pc \notin {"add", "link"}
    BY <2>3 DEF Idle
  <2> QED
    BY <2>4, <2>5, <2>6, BeginIInv
<1>3. ASSUME NEW i \in Invoices, UpdateRead(r, i)
      PROVE  IInv'
  <2>1. PICK total \in Amount :
           Begin(r, [Idle EXCEPT !.pc = IF inv[i].quote # NoQuote /\ IsInvoice(i) THEN "update_sum" ELSE "update",
                                 !.inv = i, !.quote = inv[i].quote, !.amount = total])
    BY <1>3 DEF UpdateRead
  <2>2. PICK pc \in {"update", "update_sum"} :
           pc = IF inv[i].quote # NoQuote /\ IsInvoice(i) THEN "update_sum" ELSE "update"
    OBVIOUS
  <2>3. PICK quote \in Quotes \cup {NoQuote} : quote = inv[i].quote
    BY DEF IInv, RowsTyped, Invoice
  <2>4. PICK q : q = [Idle EXCEPT !.pc = pc, !.inv = i, !.quote = quote, !.amount = total]
    OBVIOUS
  <2>5. req' = [req EXCEPT ![r] = q] /\ UNCHANGED <<inv, pay>> /\ pc \in Pcs
    BY <1>3, <2>1, <2>2, <2>3, <2>4 DEF UpdateRead, Begin, Pcs
  <2>6. q \in Asked
    BY <1>1, <2>4, <2>5, IdleRemembers DEF Asked
  <2>7. q.flag = FALSE /\ q.row = FreePayment /\ q.pc \notin {"add", "link"}
    BY <2>4 DEF Idle
  <2> QED
    BY <2>5, <2>6, <2>7, BeginIInv
<1>4. ASSUME NEW i \in Invoices, RemoveRead(r, i)
      PROVE  IInv'
  <2>1. PICK q : q = [Idle EXCEPT !.pc = "delete", !.inv = i]
    OBVIOUS
  <2>2. req' = [req EXCEPT ![r] = q] /\ UNCHANGED <<inv, pay>> /\ "delete" \in Pcs
    BY <1>4, <2>1 DEF RemoveRead, Begin, Pcs
  <2>3. q \in Asked
    BY <2>1, <2>2, IdleRemembers DEF Asked
  <2>4. q.flag = FALSE /\ q.row = FreePayment /\ q.pc \notin {"add", "link"}
    BY <2>1 DEF Idle
  <2> QED
    BY <2>2, <2>3, <2>4, BeginIInv
<1>5. ASSUME NEW i \in Invoices, CreditNoteRead(r, i)
      PROVE  IInv'
  <2>1. PICK total \in Amount :
           Begin(r, [Idle EXCEPT !.pc = "credit_sum", !.inv = i, !.quote = inv[i].quote,
                                 !.amount = total, !.balance = inv[i].total])
    BY <1>5 DEF CreditNoteRead
  <2>0. PICK b \in Int : b = inv[i].total
    BY TotalsTyped DEF IInv
  <2>2. PICK quote \in Quotes \cup {NoQuote} : quote = inv[i].quote
    BY DEF IInv, RowsTyped, Invoice
  <2>3. PICK q : q = [Idle EXCEPT !.pc = "credit_sum", !.inv = i, !.quote = quote, !.amount = total, !.balance = b]
    OBVIOUS
  <2>4. req' = [req EXCEPT ![r] = q] /\ UNCHANGED <<inv, pay>> /\ "credit_sum" \in Pcs
    BY <1>5, <2>0, <2>1, <2>2, <2>3 DEF CreditNoteRead, Begin, Pcs
  <2>5. q \in Asked
    BY <1>1, <2>3, <2>4, IdleRemembers DEF Asked
  <2>6. q.flag = FALSE /\ q.row = FreePayment /\ q.pc \notin {"add", "link"}
    BY <2>3 DEF Idle
  <2> QED
    BY <2>4, <2>5, <2>6, BeginIInv
<1>6. ASSUME NEW i \in Invoices, NEW p \in Payments \cup {NoPayment}, NEW amount \in Amount \cup {0}, FindOne(r, i, p, amount)
      PROVE  IInv'
  <2>0. PICK b \in Int : b = inv[i].total
    BY TotalsTyped DEF IInv
  <2>1. PICK flag \in BOOLEAN : flag = (inv[i].status = "issued" /\ IsInvoice(i))
    OBVIOUS
  <2>2. PICK q : q = [Idle EXCEPT !.pc = "paid", !.inv = i, !.pay = p, !.amount = amount, !.flag = flag, !.balance = b]
    OBVIOUS
  <2>3. req' = [req EXCEPT ![r] = q] /\ UNCHANGED <<inv, pay>> /\ "paid" \in Pcs
    BY <1>6, <2>0, <2>1, <2>2 DEF FindOne, Begin, Pcs
  <2>4. q \in Asked
    BY <2>2, <2>3, IdleRemembers DEF Asked
  <2>5. q.flag = flag /\ q.inv = i /\ q.row.inv = NoInvoice /\ q.pc \notin {"add", "link"}
    BY <2>2 DEF Idle, FreePayment
  <2>6. flag = TRUE => Settled(i)
    BY <2>1 DEF Settled, IsInvoice
  <2>7. Remembers(q)
    BY <2>5, <2>6 DEF Remembers
  <2> QED
    BY <2>3, <2>4, <2>7, ReadIInv
<1>7. ASSUME NEW i \in Invoices, AddRead(r, i)
      PROVE  IInv'
  BY <1>1, <1>6, <1>7 DEF AddRead
<1>8. ASSUME NEW i \in Invoices, NEW p \in Payments, ApplyRead(r, i, p)
      PROVE  IInv'
  BY <1>6, <1>8 DEF ApplyRead
<1>9. ASSUME NEW p \in Payments, PaymentRead(r, p)
       PROVE  IInv'
  <2>1. PICK status \in LivePayment, amount \in Amount :
           Begin(r, [Idle EXCEPT !.pc = "save_payment", !.pay = p,
                                 !.row = [pay[p] EXCEPT !.status = status, !.amount = amount]])
    BY <1>9 DEF PaymentRead
  <2>2. PICK row : row = [pay[p] EXCEPT !.status = status, !.amount = amount]
    OBVIOUS
  <2>3. row \in Payment /\ row.inv = pay[p].inv
    BY <2>2 DEF IInv, RowsTyped, Payment
  <2>4. row.inv # NoInvoice => Settled(row.inv)
    BY <2>3 DEF IInv, RowsTyped, Payment, LinkedIsIssued, IsInvoice, Settled
  <2>5. PICK q : q = [Idle EXCEPT !.pc = "save_payment", !.pay = p, !.row = row]
    OBVIOUS
  <2>6. req' = [req EXCEPT ![r] = q] /\ UNCHANGED <<inv, pay>> /\ "save_payment" \in Pcs
    BY <1>9, <2>1, <2>2, <2>5 DEF PaymentRead, Begin, Pcs
  <2>7. q \in Asked
    BY <2>3, <2>5, <2>6, IdleRemembers DEF Asked
  <2>8. q.flag = FALSE /\ q.row = row /\ q.pc \notin {"add", "link"}
    BY <2>5 DEF Idle
  <2>9. Remembers(q)
    BY <2>4, <2>8 DEF Remembers
  <2> QED
    BY <2>6, <2>7, <2>9, ReadIInv
<1> QED
  BY <1>2, <1>3, <1>4, <1>5, <1>7, <1>8, <1>9 DEF Start

(***************************************************************************)
(* Requests that go on.                                                    *)
(***************************************************************************)
\* What is known of a request in flight.
LEMMA RequestTyped ==
    ASSUME IInv, NEW r \in Reqs
    PROVE  /\ req[r].inv \in Invoices \cup {NoInvoice} /\ req[r].pay \in Payments \cup {NoPayment}
           /\ req[r].quote \in Quotes \cup {NoQuote} /\ req[r].amount \in Amount \cup {0}
           /\ req[r].balance \in Int
           /\ req[r].row \in Payment /\ req[r].flag \in BOOLEAN /\ Remembers(req[r])
BY DEF IInv, RowsTyped, Asked

\* A document is written that was not settled, or is now deleted without payments;
\* the request ends.
LEMMA WriteIInv ==
    ASSUME IInv, NEW r \in Reqs, Finish(r), NEW i \in Invoices, NEW row \in Invoice,
           inv' = [inv EXCEPT ![i] = row], UNCHANGED pay,
           inv[i].status \in {"issued", "deleted"} => row.status = inv[i].status /\ row.related = inv[i].related
    PROVE  IInv'
<1>1. inv' \in [Invoices -> Invoice] /\ \A j \in Invoices : inv'[j] = IF j = i THEN row ELSE inv[j]
  BY DEF IInv, RowsTyped
<1>2. \A j \in Invoices : Settled(j) => Settled(j)'
  BY <1>1 DEF Settled
<1>3. LinkedIsIssued'
  <2> SUFFICES ASSUME NEW p \in Payments, pay[p].inv # NoInvoice
               PROVE  inv'[pay[p].inv].status = "issued" /\ inv'[pay[p].inv].related = NoInvoice
    BY DEF LinkedIsIssued, IsInvoice
  <2>1. pay[p].inv \in Invoices
    BY DEF IInv, RowsTyped, Payment
  <2>2. inv[pay[p].inv].status = "issued" /\ inv[pay[p].inv].related = NoInvoice
    BY DEF IInv, LinkedIsIssued, IsInvoice
  <2> QED
    BY <1>1, <2>1, <2>2
<1>4. PICK q : q = Idle
  OBVIOUS
<1> QED
  BY <1>1, <1>2, <1>3, <1>4, IdleRemembers, StepIInv DEF Finish, IInv, RowsTyped

\* A payment is written, in an issued invoice or in none; the request becomes q.
LEMMA PayIInv ==
    ASSUME IInv, NEW r \in Reqs, NEW q, q \in Asked, Remembers(q), req' = [req EXCEPT ![r] = q],
           NEW p \in Payments, NEW row \in Payment, pay' = [pay EXCEPT ![p] = row], UNCHANGED inv,
           row.inv # NoInvoice => inv[row.inv].status = "issued" /\ inv[row.inv].related = NoInvoice
    PROVE  IInv'
<1>1. pay' \in [Payments -> Payment] /\ \A o \in Payments : pay'[o] = IF o = p THEN row ELSE pay[o]
  BY DEF IInv, RowsTyped
<1>2. LinkedIsIssued'
  BY <1>1 DEF IInv, LinkedIsIssued, IsInvoice
<1>3. \A j \in Invoices : Settled(j) => Settled(j)'
  BY DEF Settled
<1> QED
  BY <1>1, <1>2, <1>3, StepIInv DEF IInv, RowsTyped

LEMMA DocumentIInv ==
    ASSUME IInv, NEW r \in Reqs,
           \/ CreateSum(r) \/ UpdateSum(r) \/ UpdatePatch(r) \/ RemoveDelete(r) \/ CreditNoteSum(r)
           \/ \E i \in Invoices : CreateInsert(r, i) \/ CreditNoteInsert(r, i)
    PROVE  IInv'
<1>1. CASE CreateSum(r)
  <2>1. (Goto(r, "create") \/ Finish(r)) /\ UNCHANGED <<inv, pay>> /\ "create" \in Pcs
    BY <1>1 DEF CreateSum, Pcs
  <2> QED
    BY <2>1, GotoIInv, FinishIInv
<1>2. CASE UpdateSum(r)
  <2>1. (Goto(r, "update") \/ Finish(r)) /\ UNCHANGED <<inv, pay>> /\ "update" \in Pcs
    BY <1>2 DEF UpdateSum, Pcs
  <2> QED
    BY <2>1, GotoIInv, FinishIInv
<1>3. CASE CreditNoteSum(r)
  <2>1. (Goto(r, "credit") \/ Finish(r)) /\ UNCHANGED <<inv, pay>> /\ "credit" \in Pcs
    BY <1>3 DEF CreditNoteSum, Pcs
  <2> QED
    BY <2>1, GotoIInv, FinishIInv
<1>4. CASE UpdatePatch(r)
  <2>1. CASE Exists(req[r].inv)
    <3>1. PICK i \in Invoices : i = req[r].inv
      BY <2>1 DEF Exists
    <3>2. PICK row : row = [inv[i] EXCEPT !.total = req[r].amount]
      OBVIOUS
    <3>3. row \in Invoice /\ row.status = inv[i].status /\ row.related = inv[i].related
      BY <3>2, RequestTyped DEF IInv, RowsTyped, Invoice
    <3>4. inv' = [inv EXCEPT ![i] = row] /\ Finish(r) /\ UNCHANGED pay
      BY <1>4, <2>1, <3>1, <3>2 DEF UpdatePatch
    <3> QED
      BY <3>3, <3>4, WriteIInv
  <2>2. CASE ~Exists(req[r].inv)
    BY <1>4, <2>2, FinishIInv DEF UpdatePatch
  <2> QED
    BY <2>1, <2>2
<1>5. ASSUME NEW i \in Invoices, CreateInsert(r, i)
      PROVE  IInv'
  <2>1. PICK row : row = [status |-> "draft", quote |-> req[r].quote, related |-> NoInvoice, total |-> req[r].amount]
    OBVIOUS
  <2>2. row \in Invoice
    BY <2>1, RequestTyped DEF Invoice, LiveInvoice
  <2> QED
    BY <1>5, <2>1, <2>2, WriteIInv DEF CreateInsert
<1>6. ASSUME NEW c \in Invoices, CreditNoteInsert(r, c)
      PROVE  IInv'
  <2>1. CASE Exists(req[r].inv)
    <3>1. PICK row : row = [status |-> "draft", quote |-> req[r].quote, related |-> req[r].inv, total |-> req[r].amount]
      OBVIOUS
    <3>2. row \in Invoice
      BY <3>1, RequestTyped DEF Invoice, LiveInvoice
    <3>3. inv' = [inv EXCEPT ![c] = row] /\ Finish(r) /\ UNCHANGED pay /\ inv[c].status = "none"
      BY <1>6, <2>1, <3>1 DEF CreditNoteInsert
    <3> QED
      BY <3>2, <3>3, WriteIInv
  <2>2. CASE ~Exists(req[r].inv)
    BY <1>6, <2>2, FinishIInv DEF CreditNoteInsert
  <2> QED
    BY <2>1, <2>2
<1>7. CASE RemoveDelete(r)
  <2> DEFINE i == req[r].inv
             row == [NoRow EXCEPT !.status = "deleted"]
  <2>1. CASE \E c \in Invoices : inv[c].related = i
    BY <1>7, <2>1, FinishIInv DEF RemoveDelete
  <2>2. CASE ~\E c \in Invoices : inv[c].related = i
    <3>1. /\ inv' = [inv EXCEPT ![i] = row] /\ Finish(r)
          /\ pay' = [p \in Payments |-> IF pay[p].inv = i THEN [pay[p] EXCEPT !.inv = NoInvoice] ELSE pay[p]]
      BY <1>7, <2>2 DEF RemoveDelete
    <3>2. row \in Invoice /\ row.status = "deleted" /\ row.related = NoInvoice
      BY DEF NoRow, Invoice
    <3> HIDE DEF row
    <3>3. inv' \in [Invoices -> Invoice] /\ \A j \in Invoices : inv'[j] = IF j = i THEN row ELSE inv[j]
      BY <3>1, <3>2 DEF IInv, RowsTyped
    <3>4. \A j \in Invoices : Settled(j) => Settled(j)'
      BY <3>2, <3>3 DEF Settled
    <3>5. \A p \in Payments : pay'[p] \in Payment /\ (pay'[p].inv # NoInvoice => pay'[p].inv = pay[p].inv /\ pay[p].inv # i)
      BY <3>1 DEF IInv, RowsTyped, Payment
    <3>6. pay' \in [Payments -> Payment]
      BY <3>1, <3>5
    <3>7. LinkedIsIssued'
      <4> SUFFICES ASSUME NEW p \in Payments, pay'[p].inv # NoInvoice
                   PROVE  inv'[pay'[p].inv].status = "issued" /\ inv'[pay'[p].inv].related = NoInvoice
        BY DEF LinkedIsIssued, IsInvoice
      <4>1. pay[p].inv \in Invoices \ {i} /\ pay'[p].inv = pay[p].inv
        BY <3>5 DEF IInv, RowsTyped, Payment
      <4> QED
        BY <3>3, <4>1 DEF IInv, LinkedIsIssued, IsInvoice
    <3>8. PICK q : q = Idle
      OBVIOUS
    <3> QED
      BY <3>1, <3>3, <3>4, <3>6, <3>7, <3>8, IdleRemembers, StepIInv DEF Finish
  <2> QED
    BY <2>1, <2>2
<1> QED
  BY <1>1, <1>2, <1>3, <1>4, <1>5, <1>6, <1>7

(***************************************************************************)
(* Payments.                                                               *)
(***************************************************************************)
\* A request knows another balance and goes on.
LEMMA BalanceIInv ==
    ASSUME IInv, NEW r \in Reqs, NEW label \in Pcs, NEW b \in Int, label \in {"add", "link"} => req[r].flag = TRUE,
           req' = [req EXCEPT ![r] = [[req[r] EXCEPT !.balance = b] EXCEPT !.pc = label]],
           UNCHANGED <<inv, pay>>
    PROVE  IInv'
<1>1. req[r] \in Asked
  BY DEF IInv, RowsTyped
<1>2. PICK q : q = [[req[r] EXCEPT !.balance = b] EXCEPT !.pc = label]
  OBVIOUS
<1>3. q \in Asked
  BY <1>1, <1>2 DEF Asked
<1>4. q.pc = label /\ q.flag = req[r].flag /\ q.inv = req[r].inv /\ q.row = req[r].row
  BY <1>1, <1>2 DEF Asked
<1>6. Remembers(q)
  BY <1>4 DEF IInv, Remembers
<1> QED
  BY <1>2, <1>3, <1>6, ReadIInv

LEMMA PaymentIInv ==
    ASSUME IInv, NEW r \in Reqs,
           \/ AttachPaid(r) \/ AttachCredited(r) \/ ApplyPayment(r) \/ LinkPayment(r)
           \/ \E p \in Payments : AddPayment(r, p)
           \/ PaymentSave(r)
    PROVE  IInv'
<1>1. CASE AttachPaid(r)
  <2>1. PICK b \in Int : b = req[r].balance - Paid(req[r].inv)
    BY TotalsTyped, RequestTyped DEF IInv
  <2>2. req' = [req EXCEPT ![r] = [req[r] EXCEPT !.pc = "credited", !.balance = b]] /\ UNCHANGED <<inv, pay>>
    BY <1>1, <2>1 DEF AttachPaid
  <2>3. [req[r] EXCEPT !.pc = "credited", !.balance = b] = [[req[r] EXCEPT !.balance = b] EXCEPT !.pc = "credited"]
    BY DEF IInv, RowsTyped
  <2>4. "credited" \in Pcs
    BY DEF Pcs
  <2> QED
    BY <2>2, <2>3, <2>4, BalanceIInv
<1>2. CASE AttachCredited(r)
  <2>1. PICK b \in Int : b = req[r].balance - Credited(req[r].inv)
    BY TotalsTyped, RequestTyped DEF IInv
  <2>2. UNCHANGED <<inv, pay>> /\ "apply" \in Pcs /\ "add" \in Pcs
    BY <1>2 DEF AttachCredited, Pcs
  <2>3. \/ req' = [req EXCEPT ![r] = [[req[r] EXCEPT !.balance = b] EXCEPT !.pc = "apply"]]
        \/ req[r].flag /\ req' = [req EXCEPT ![r] = [[req[r] EXCEPT !.balance = b] EXCEPT !.pc = "add"]]
        \/ Finish(r)
    BY <1>2, <2>1 DEF AttachCredited
  <2> QED
    BY <2>2, <2>3, BalanceIInv, FinishIInv
<1>3. CASE ApplyPayment(r)
  <2>1. ((req[r].flag /\ Goto(r, "link")) \/ Finish(r)) /\ UNCHANGED <<inv, pay>> /\ "link" \in Pcs
    BY <1>3 DEF ApplyPayment, Pcs
  <2> QED
    BY <2>1, GotoIInv, FinishIInv
<1>4. CASE LinkPayment(r)
  <2>1. CASE ~(pay[req[r].pay].status \in LivePayment /\ Exists(req[r].inv))
    BY <1>4, <2>1, FinishIInv DEF LinkPayment
  <2>2. CASE pay[req[r].pay].status \in LivePayment /\ Exists(req[r].inv)
    <3>1. At(r, "link") /\ Finish(r) /\ UNCHANGED inv
          /\ pay' = [pay EXCEPT ![req[r].pay].inv = req[r].inv]
      BY <1>4, <2>2 DEF LinkPayment
    <3>2. Settled(req[r].inv) /\ req[r].inv \in Invoices
      BY <3>1, RequestTyped DEF At, Remembers, Settled
    <3>3. inv[req[r].inv].status = "issued" /\ inv[req[r].inv].related = NoInvoice
      BY <2>2, <3>2 DEF Settled, Exists, LiveInvoice
    <3>4. CASE req[r].pay \notin Payments
      <4>1. pay' = pay
        BY <3>1, <3>4 DEF IInv, RowsTyped
      <4> QED
        BY <3>1, <4>1, FinishIInv
    <3>5. CASE req[r].pay \in Payments
      <4>1. PICK p \in Payments : p = req[r].pay
        BY <3>5
      <4>2. PICK row : row = [pay[p] EXCEPT !.inv = req[r].inv]
        OBVIOUS
      <4>3. row \in Payment /\ row.inv = req[r].inv
        BY <3>2, <4>2 DEF IInv, RowsTyped, Payment
      <4>4. pay' = [pay EXCEPT ![p] = row]
        BY <3>1, <4>1, <4>2
      <4>5. PICK q : q = Idle
        OBVIOUS
      <4> QED
        BY <3>1, <3>3, <4>3, <4>4, <4>5, IdleRemembers, PayIInv DEF Finish
    <3> QED
      BY <3>4, <3>5
  <2> QED
    BY <2>1, <2>2
<1>5. ASSUME NEW p \in Payments, AddPayment(r, p)
      PROVE  IInv'
  <2>1. PICK row : row = [FreePayment EXCEPT !.status = "completed", !.amount = req[r].amount]
    OBVIOUS
  <2>2. row \in Payment /\ row.inv = NoInvoice
    BY <2>1, RequestTyped DEF Payment, FreePayment, LivePayment
  <2>3. req[r] \in Asked
    BY DEF IInv, RowsTyped
  <2>4. PICK q : q = [req[r] EXCEPT !.pc = "link", !.pay = p]
    OBVIOUS
  <2>5. q \in Asked
    BY <2>3, <2>4 DEF Asked, Pcs
  <2>6. req[r].pc = "add" /\ q.pc = "link" /\ q.flag = req[r].flag /\ q.inv = req[r].inv /\ q.row = req[r].row
    BY <1>5, <2>3, <2>4 DEF AddPayment, At, Asked
  <2>7. Remembers(q)
    BY <2>6, RequestTyped DEF Remembers
  <2>8. req' = [req EXCEPT ![r] = q] /\ pay' = [pay EXCEPT ![p] = row] /\ UNCHANGED inv
    BY <1>5, <2>1, <2>4 DEF AddPayment
  <2> QED
    BY <2>2, <2>5, <2>7, <2>8, PayIInv
<1>6. CASE PaymentSave(r)
  <2>1. CASE ~(req[r].row.inv = NoInvoice \/ Exists(req[r].row.inv))
    BY <1>6, <2>1, FinishIInv DEF PaymentSave
  <2>2. CASE req[r].row.inv = NoInvoice \/ Exists(req[r].row.inv)
    <3>1. pay' = [pay EXCEPT ![req[r].pay] = req[r].row] /\ Finish(r) /\ UNCHANGED inv
      BY <1>6, <2>2 DEF PaymentSave
    <3>2. PICK row \in Payment : row = req[r].row
      BY RequestTyped
    <3>3. row.inv # NoInvoice => inv[row.inv].status = "issued" /\ inv[row.inv].related = NoInvoice
      BY <2>2, <3>2, RequestTyped DEF Remembers, Settled, Exists, LiveInvoice
    <3>4. CASE req[r].pay \notin Payments
      <4>1. pay' = pay
        BY <3>1, <3>4 DEF IInv, RowsTyped
      <4> QED
        BY <3>1, <4>1, FinishIInv
    <3>5. CASE req[r].pay \in Payments
      <4>1. PICK q : q = Idle
        OBVIOUS
      <4> QED
        BY <3>1, <3>2, <3>3, <3>5, <4>1, IdleRemembers, PayIInv DEF Finish
    <3> QED
      BY <3>4, <3>5
  <2> QED
    BY <2>1, <2>2
<1> QED
  BY <1>1, <1>2, <1>3, <1>4, <1>5, <1>6

(***************************************************************************)
(* Single statements, restarts.                                            *)
(***************************************************************************)
\* The tables change and no request does.
LEMMA TablesIInv ==
    ASSUME IInv, UNCHANGED req,
           inv' \in [Invoices -> Invoice], \A i \in Invoices : Settled(i) => Settled(i)',
           pay' \in [Payments -> Payment], LinkedIsIssued'
    PROVE  IInv'
<1>1. \A r \in Reqs : req'[r] \in Asked
  BY DEF IInv, RowsTyped
<1>2. RowsTyped'
  BY <1>1 DEF IInv, RowsTyped
<1>3. \A r \in Reqs : Remembers(req[r])'
  <2> SUFFICES ASSUME NEW r \in Reqs PROVE Remembers(req[r])'
    OBVIOUS
  <2>1. Remembers(req[r])
    BY DEF IInv
  <2> QED
    BY <2>1 DEF Remembers, Settled
<1> QED
  BY <1>2, <1>3 DEF IInv

LEMMA EmissionIInv ==
    ASSUME IInv, NEW i \in Invoices, NEW from \in {"draft", "emitting"}, NEW to \in LiveInvoice, Emission(i, from, to)
    PROVE  IInv'
<1>1. PICK row : row = [inv[i] EXCEPT !.status = to]
  OBVIOUS
<1>2. row \in Invoice
  BY <1>1 DEF IInv, RowsTyped, Invoice
<1>3. inv[i].status = from /\ inv' = [inv EXCEPT ![i] = row] /\ UNCHANGED <<pay, req>>
  BY <1>1 DEF Emission
<1>4. inv' \in [Invoices -> Invoice] /\ \A j \in Invoices : inv'[j] = IF j = i THEN row ELSE inv[j]
  BY <1>2, <1>3 DEF IInv, RowsTyped
<1>5. \A j \in Invoices : Settled(j) => Settled(j)'
  BY <1>3, <1>4 DEF Settled
<1>6. LinkedIsIssued'
  <2> SUFFICES ASSUME NEW p \in Payments, pay[p].inv # NoInvoice
               PROVE  inv'[pay[p].inv].status = "issued" /\ inv'[pay[p].inv].related = NoInvoice
    BY <1>3 DEF LinkedIsIssued, IsInvoice
  <2>1. pay[p].inv \in Invoices /\ inv[pay[p].inv].status = "issued" /\ inv[pay[p].inv].related = NoInvoice
    BY DEF IInv, RowsTyped, Payment, LinkedIsIssued, IsInvoice
  <2> QED
    BY <1>3, <1>4, <2>1
<1> QED
  BY <1>3, <1>4, <1>5, <1>6, TablesIInv DEF IInv, RowsTyped

\* A payment that ends up in no invoice.
LEMMA LoosePaymentIInv ==
    ASSUME IInv, NEW p \in Payments, NEW row \in Payment, row.inv = NoInvoice,
           pay' = [pay EXCEPT ![p] = row], UNCHANGED <<inv, req>>
    PROVE  IInv'
<1>1. pay' \in [Payments -> Payment] /\ \A o \in Payments : pay'[o] = IF o = p THEN row ELSE pay[o]
  BY DEF IInv, RowsTyped
<1>2. LinkedIsIssued'
  BY <1>1 DEF IInv, LinkedIsIssued, IsInvoice
<1>3. \A j \in Invoices : Settled(j) => Settled(j)'
  BY DEF Settled
<1> QED
  BY <1>1, <1>2, <1>3, TablesIInv DEF IInv, RowsTyped

LEMMA StatementIInv == ASSUME IInv, Statement PROVE IInv'
<1>1. ASSUME NEW i \in Invoices, EmitClaim(i) \/ EmitRollback(i) \/ EmitCommit(i)
      PROVE  IInv'
  BY <1>1, EmissionIInv DEF EmitClaim, EmitRollback, EmitCommit, LiveInvoice
<1>2. ASSUME NEW p \in Payments, UnlinkPayment(p)
      PROVE  IInv'
  <2>1. PICK row : row = [pay[p] EXCEPT !.inv = NoInvoice]
    OBVIOUS
  <2>2. row \in Payment /\ row.inv = NoInvoice
    BY <2>1 DEF IInv, RowsTyped, Payment
  <2> QED
    BY <1>2, <2>1, <2>2, LoosePaymentIInv DEF UnlinkPayment
<1>3. ASSUME NEW p \in Payments, CreatePayment(p)
      PROVE  IInv'
  <2>1. PICK status \in LivePayment, amount \in Amount :
           pay' = [pay EXCEPT ![p] = [FreePayment EXCEPT !.status = status, !.amount = amount]]
    BY <1>3 DEF CreatePayment
  <2>2. PICK row : row = [FreePayment EXCEPT !.status = status, !.amount = amount]
    OBVIOUS
  <2>3. row \in Payment /\ row.inv = NoInvoice
    BY <2>2 DEF Payment, FreePayment
  <2> QED
    BY <1>3, <2>1, <2>2, <2>3, LoosePaymentIInv DEF CreatePayment
<1>4. ASSUME NEW p \in Payments, DeletePayment(p)
      PROVE  IInv'
  <2>1. PICK row : row = [FreePayment EXCEPT !.status = "deleted"]
    OBVIOUS
  <2>2. row \in Payment /\ row.inv = NoInvoice
    BY <2>1 DEF Payment, FreePayment
  <2> QED
    BY <1>4, <2>1, <2>2, LoosePaymentIInv DEF DeletePayment
<1>5. ASSUME NEW q \in Quotes, Supersede(q)
      PROVE  IInv'
  BY <1>5, TablesIInv DEF Supersede, IInv, RowsTyped, LinkedIsIssued, IsInvoice, Settled
<1> QED
  BY <1>1, <1>2, <1>3, <1>4, <1>5 DEF Statement

LEMMA RestartIInv == ASSUME IInv, Restart PROVE IInv'
<1>1. /\ req' = [r \in Reqs |-> Idle] /\ UNCHANGED <<inv, pay>>
  BY DEF Restart
<1>2. RowsTyped'
  BY <1>1, IdleRemembers DEF IInv, RowsTyped
<1>3. \A r \in Reqs : Remembers(req[r])'
  BY <1>1, IdleRemembers DEF Remembers, Settled
<1>4. LinkedIsIssued'
  BY <1>1 DEF IInv, LinkedIsIssued, IsInvoice
<1> QED
  BY <1>2, <1>3, <1>4 DEF IInv

LEMMA NextIInv == IInv /\ [Next]_vars => IInv'
<1> SUFFICES ASSUME IInv, [Next]_vars PROVE IInv'
  OBVIOUS
<1>1. ASSUME NEW r \in Reqs, Continue(r)
      PROVE  IInv'
  BY <1>1, DocumentIInv, PaymentIInv DEF Continue
<1>2. CASE UNCHANGED vars
  BY <1>2, TablesIInv DEF vars, IInv, RowsTyped, LinkedIsIssued, IsInvoice, Settled
<1> QED
  BY <1>1, <1>2, StartIInv, StatementIInv, RestartIInv DEF Next

\* A payment is applied only to an issued invoice, whatever requests overlap and
\* however often the process restarts: what PaymentsService.update writes back and
\* what addPayment links after its checks are invoices that were issued when read,
\* and since then can only have been deleted, which the foreign key refuses.
THEOREM SpecLinkedIsIssued == Spec => []LinkedIsIssued
<1>1. IInv => LinkedIsIssued
  BY DEF IInv
<1> QED
  BY <1>1, InitIInv, NextIInv, PTL DEF Spec

(***************************************************************************)
(* Types.                                                                  *)
(***************************************************************************)
LEMMA BillableTyped == ASSUME billable \in SUBSET Quotes, [Next]_vars PROVE billable' \in SUBSET Quotes
<1>1. ASSUME NEW r \in Reqs, Start(r)
      PROVE  UNCHANGED billable
  BY <1>1 DEF Start, CreateLoad, UpdateRead, RemoveRead, CreditNoteRead, AddRead, ApplyRead, FindOne, PaymentRead
<1>2. ASSUME NEW r \in Reqs, Continue(r)
      PROVE  UNCHANGED billable
  BY <1>2 DEF Continue, CreateSum, UpdateSum, UpdatePatch, RemoveDelete, CreditNoteSum, CreateInsert, CreditNoteInsert,
              AttachPaid, AttachCredited, ApplyPayment, LinkPayment, AddPayment, PaymentSave
<1>3. CASE Statement
  BY <1>3 DEF Statement, EmitClaim, EmitRollback, EmitCommit, Emission, UnlinkPayment, CreatePayment, DeletePayment, Supersede
<1> QED
  BY <1>1, <1>2, <1>3 DEF Next, Restart, vars

\* Whatever requests overlap, every row and every request has its type: what is
\* read of a balance, a sum over rows, is a number.
THEOREM SpecTypeOK == Spec => []TypeOK
<1> DEFINE Typed == IInv /\ billable \in SUBSET Quotes
<1>1. Init => Typed
  BY InitIInv DEF Init
<1>2. Typed /\ [Next]_vars => Typed'
  BY NextIInv, BillableTyped
<1>3. Typed => TypeOK
  <2>1. Amount \cup {0} \subseteq Int
    BY DEF Amount
  <2>2. Asked \subseteq Request
    BY <2>1 DEF Asked, Request, Pcs
  <2> QED
    BY <2>2 DEF IInv, RowsTyped, TypeOK
<1> QED
  BY <1>1, <1>2, <1>3, PTL DEF Spec

(***************************************************************************)
(* What the documents of a quote add up to.  A document adds its total, an *)
(* issued credit note takes it off, and everything else counts nothing.    *)
(***************************************************************************)
Counts(row, q) ==
    IF row.status \in LiveInvoice /\ row.quote = q
    THEN IF row.related = NoInvoice THEN row.total ELSE IF row.status = "issued" THEN 0 - row.total ELSE 0
    ELSE 0

\* The sums of InvoicedOfQuote over a table t.
BilledIn(t, q, except) ==
    {i \in Invoices \ {except} : t[i].status \in LiveInvoice /\ t[i].quote = q /\ t[i].related = NoInvoice}
NotedIn(t, q, except) ==
    {i \in Invoices \ {except} : t[i].quote = q /\ t[i].related # NoInvoice /\ t[i].status = "issued"}
InvoicedIn(t, q, except) ==
    SumOver([i \in Invoices |-> t[i].total], BilledIn(t, q, except))
        - SumOver([i \in Invoices |-> t[i].total], NotedIn(t, q, except))

LEMMA InvoicedOfTable ==
    ASSUME NEW q, NEW except
    PROVE  /\ InvoicedOfQuote(q, except) = InvoicedIn(inv, q, except)
           /\ InvoicedOfQuote(q, except)' = InvoicedIn(inv', q, except)
<1> DEFINE of == {i \in Invoices \ {except} : Exists(i) /\ inv[i].quote = q}
<1>1. {i \in of : IsInvoice(i)} = BilledIn(inv, q, except)
  BY DEF Exists, IsInvoice, BilledIn
<1>2. {i \in of : ~IsInvoice(i) /\ inv[i].status = "issued"} = NotedIn(inv, q, except)
  BY DEF Exists, IsInvoice, NotedIn, LiveInvoice
<1>3. {i \in of : IsInvoice(i)}' = BilledIn(inv', q, except)
  BY DEF Exists, IsInvoice, BilledIn
<1>4. {i \in of : ~IsInvoice(i) /\ inv[i].status = "issued"}' = NotedIn(inv', q, except)
  BY DEF Exists, IsInvoice, NotedIn, LiveInvoice
<1>5. InvoicedOfQuote(q, except) = Total({i \in of : IsInvoice(i)}) - Total({i \in of : ~IsInvoice(i) /\ inv[i].status = "issued"})
  BY DEF InvoicedOfQuote
<1>6. InvoicedOfQuote(q, except)'
        = Total({i \in of : IsInvoice(i)})' - Total({i \in of : ~IsInvoice(i) /\ inv[i].status = "issued"})'
  BY DEF InvoicedOfQuote
<1>7. InvoicedOfQuote(q, except) = InvoicedIn(inv, q, except)
  <2> HIDE DEF of
  <2> QED
    BY <1>1, <1>2, <1>5 DEF InvoicedIn, Total
<1>8. InvoicedOfQuote(q, except)' = InvoicedIn(inv', q, except)
  <2> HIDE DEF of
  <2> QED
    BY <1>3, <1>4, <1>6 DEF InvoicedIn, Total
<1> QED
  BY <1>7, <1>8

\* The two sums are one, of what each document counts.
LEMMA InvoicedIsCounted ==
    ASSUME NEW t \in [Invoices -> Invoice], NEW q, NEW except
    PROVE  InvoicedIn(t, q, except) = SumOver([i \in Invoices |-> Counts(t[i], q)], Invoices \ {except})
<1>1. PICK S : S = Invoices \ {except}
  OBVIOUS
<1>2. PICK B : B = BilledIn(t, q, except)
  OBVIOUS
<1>3. PICK N : N = NotedIn(t, q, except)
  OBVIOUS
<1>4. IsFiniteSet(S) /\ S \subseteq Invoices
  <2>1. IsFiniteSet(Invoices)
    BY ConstantsAssumption
  <2> QED
    BY <1>1, <2>1, FS_Subset
<1>5. B \in SUBSET S /\ N \in SUBSET S
  BY <1>1, <1>2, <1>3 DEF BilledIn, NotedIn
<1>6. PICK w : w = [i \in Invoices |-> t[i].total]
  OBVIOUS
<1>7. \A x \in S : w[x] \in Int
  <2>1. \A i \in Invoices : t[i].total \in Int
    BY DEF Invoice, Amount
  <2> QED
    BY <1>4, <1>6, <2>1
<1>8. PICK u : u = [i \in S |-> IF i \in B THEN w[i] ELSE 0]
  OBVIOUS
<1>9. PICK v : v = [i \in S |-> IF i \in N THEN w[i] ELSE 0]
  OBVIOUS
<1>10. PICK c : c = [i \in Invoices |-> Counts(t[i], q)]
  OBVIOUS
<1>11. SumOver(u, S) = SumOver(w, B)
  BY <1>4, <1>5, <1>7, <1>8, SumOfPart
<1>12. SumOver(v, S) = SumOver(w, N)
  BY <1>4, <1>5, <1>7, <1>9, SumOfPart
<1>13. \A x \in S : u[x] \in Int /\ v[x] \in Int /\ c[x] = u[x] - v[x]
  <2> SUFFICES ASSUME NEW x \in S PROVE u[x] \in Int /\ v[x] \in Int /\ c[x] = u[x] - v[x]
    OBVIOUS
  <2>1. x \in Invoices /\ w[x] \in Int /\ w[x] = t[x].total
    BY <1>4, <1>6, <1>7
  <2>2. u[x] = (IF x \in B THEN w[x] ELSE 0) /\ v[x] = (IF x \in N THEN w[x] ELSE 0) /\ c[x] = Counts(t[x], q)
    BY <1>8, <1>9, <1>10, <2>1
  <2>3. x \in B <=> t[x].status \in LiveInvoice /\ t[x].quote = q /\ t[x].related = NoInvoice
    BY <1>1, <1>2 DEF BilledIn
  <2>4. x \in N <=> t[x].quote = q /\ t[x].related # NoInvoice /\ t[x].status = "issued"
    BY <1>1, <1>3 DEF NotedIn
  <2>5. CASE x \in B
    <3>1. x \notin N /\ c[x] = w[x]
      BY <2>1, <2>2, <2>3, <2>4, <2>5 DEF Counts
    <3> QED
      BY <2>1, <2>2, <2>5, <3>1
  <2>6. CASE x \in N
    <3>1. x \notin B /\ c[x] = 0 - w[x]
      BY <2>1, <2>2, <2>3, <2>4, <2>6 DEF Counts, LiveInvoice
    <3> QED
      BY <2>1, <2>2, <2>6, <3>1
  <2>7. CASE x \notin B /\ x \notin N
    <3>1. c[x] = 0
      BY <2>1, <2>2, <2>3, <2>4, <2>7 DEF Counts
    <3> QED
      BY <2>1, <2>2, <2>7, <3>1
  <2> QED
    BY <2>5, <2>6, <2>7
<1>14. SumOver(c, S) = SumOver(u, S) - SumOver(v, S)
  BY <1>4, <1>13, SumOfDifference
<1> QED
  BY <1>1, <1>2, <1>3, <1>6, <1>10, <1>11, <1>12, <1>14 DEF InvoicedIn

LEMMA CountsTyped == ASSUME NEW row \in Invoice, NEW q PROVE Counts(row, q) \in Int
<1>1. row.total \in Int
  BY DEF Invoice, Amount
<1> QED
  BY <1>1 DEF Counts

\* One document more or less.
LEMMA InvoicedWithOut ==
    ASSUME NEW t \in [Invoices -> Invoice], NEW q, NEW i \in Invoices
    PROVE  /\ InvoicedIn(t, q, i) \in Int /\ InvoicedIn(t, q, NoInvoice) \in Int
           /\ InvoicedIn(t, q, NoInvoice) = Counts(t[i], q) + InvoicedIn(t, q, i)
<1>1. PICK c : c = [j \in Invoices |-> Counts(t[j], q)]
  OBVIOUS
<1>2. \A x \in Invoices : c[x] \in Int
  BY <1>1, CountsTyped
<1>3. IsFiniteSet(Invoices) /\ Invoices \ {NoInvoice} = Invoices
  BY ConstantsAssumption
<1>4. SumOver(c, Invoices) = c[i] + SumOver(c, Invoices \ {i})
  BY <1>2, <1>3, SumTakesOut
<1>5. IsFiniteSet(Invoices \ {i}) /\ \A x \in Invoices \ {i} : c[x] \in Int
  BY <1>2, <1>3, FS_Subset
<1>6. SumOver(c, Invoices) \in Int
  BY <1>2, <1>3, SumIsNumber
<1>7. SumOver(c, Invoices \ {i}) \in Int
  BY <1>5, SumIsNumber
<1>8. InvoicedIn(t, q, NoInvoice) = SumOver(c, Invoices)
  BY <1>1, <1>3, InvoicedIsCounted
<1>9. InvoicedIn(t, q, i) = SumOver(c, Invoices \ {i})
  BY <1>1, InvoicedIsCounted
<1> QED
  BY <1>1, <1>4, <1>6, <1>7, <1>8, <1>9

\* A change of one document leaves what the others add up to.
LEMMA InvoicedOfOthers ==
    ASSUME NEW t \in [Invoices -> Invoice], NEW u \in [Invoices -> Invoice], NEW q, NEW i \in Invoices,
           \A j \in Invoices \ {i} : u[j] = t[j]
    PROVE  InvoicedIn(u, q, i) = InvoicedIn(t, q, i)
<1>1. PICK c : c = [j \in Invoices |-> Counts(t[j], q)]
  OBVIOUS
<1>2. PICK d : d = [j \in Invoices |-> Counts(u[j], q)]
  OBVIOUS
<1>3. \A x \in Invoices \ {i} : d[x] = c[x]
  BY <1>1, <1>2
<1>4. IsFiniteSet(Invoices \ {i})
  <2>1. IsFiniteSet(Invoices)
    BY ConstantsAssumption
  <2> QED
    BY <2>1, FS_Subset
<1>5. SumOver(d, Invoices \ {i}) = SumOver(c, Invoices \ {i})
  BY <1>3, <1>4, SumOfSame
<1> QED
  BY <1>1, <1>2, <1>5, InvoicedIsCounted

\* A document is written that counts no more than before, or fits.
LEMMA WriteWithin ==
    ASSUME RowsTyped, InvoicedWithinQuote, NEW i \in Invoices, NEW row \in Invoice, inv' = [inv EXCEPT ![i] = row],
           \A q \in Quotes : \/ Counts(row, q) <= Counts(inv[i], q)
                             \/ InvoicedOfQuote(q, i) + Counts(row, q) <= QuoteTotal
    PROVE  InvoicedWithinQuote'
<1> SUFFICES ASSUME NEW q \in Quotes PROVE InvoicedOfQuote(q, NoInvoice)' <= QuoteTotal
  BY DEF InvoicedWithinQuote
<1>1. PICK t \in [Invoices -> Invoice] : t = inv
  BY DEF RowsTyped
<1>2. PICK u \in [Invoices -> Invoice] : u = inv' /\ u[i] = row /\ \A j \in Invoices \ {i} : u[j] = t[j]
  BY <1>1
<1>3. PICK a : a = InvoicedIn(t, q, i)
  OBVIOUS
<1>4. InvoicedIn(u, q, i) = a
  <2>1. \A j \in Invoices \ {i} : u[j] = t[j]
    BY <1>2
  <2>2. InvoicedIn(u, q, i) = InvoicedIn(t, q, i)
    BY <2>1, InvoicedOfOthers
  <2> QED
    BY <1>3, <2>2
<1>5. a \in Int /\ InvoicedIn(t, q, NoInvoice) = Counts(t[i], q) + a
  BY <1>3, InvoicedWithOut
<1>6. InvoicedIn(u, q, NoInvoice) = Counts(row, q) + a
  BY <1>2, <1>4, InvoicedWithOut
<1>7. InvoicedOfQuote(q, NoInvoice) = Counts(t[i], q) + a /\ InvoicedOfQuote(q, i) = a
  BY <1>1, <1>3, <1>5, InvoicedOfTable
<1>8. InvoicedOfQuote(q, NoInvoice)' = Counts(row, q) + a
  BY <1>2, <1>6, InvoicedOfTable
<1>9. Counts(row, q) \in Int /\ Counts(t[i], q) \in Int /\ QuoteTotal \in Int
  BY CountsTyped, ConstantsAssumption
<1>10. Counts(t[i], q) + a <= QuoteTotal
  BY <1>7 DEF InvoicedWithinQuote
<1>11. Counts(row, q) <= Counts(t[i], q) \/ a + Counts(row, q) <= QuoteTotal
  BY <1>1, <1>7
<1> QED
  BY <1>5, <1>8, <1>9, <1>10, <1>11

(***************************************************************************)
(* One request at a time.  A quote is not invoiced over its total, and a   *)
(* payment enters an invoice only while it fits, because what a request    *)
(* read is still so when it writes: no other request writes between, and   *)
(* what a restart interrupts is not gone on with.                          *)
(***************************************************************************)
OneAtWork == \A r, s \in Reqs : r # s => At(r, "idle") \/ At(s, "idle")

\* What a request in flight knows of the tables.
Knows(q) ==
    /\ q.pc = "create" /\ q.quote # NoQuote => InvoicedOfQuote(q.quote, NoInvoice) + q.amount <= QuoteTotal
    /\ q.pc \in {"update_sum", "update", "delete", "paid", "credited", "add", "link", "apply"} => q.inv \in Invoices
    /\ q.pc \in {"update_sum", "update", "delete"} => inv[q.inv].status = "draft"
    /\ q.pc \in {"update_sum", "update"} => q.quote = inv[q.inv].quote
    /\ q.pc = "update" /\ q.quote # NoQuote /\ inv[q.inv].related = NoInvoice =>
          InvoicedOfQuote(q.quote, q.inv) + q.amount <= QuoteTotal
    /\ q.pc = "paid" => q.balance = inv[q.inv].total
    /\ q.pc = "credited" => q.balance = inv[q.inv].total - Paid(q.inv)
    /\ q.pc \in {"add", "link", "apply"} => q.balance = inv[q.inv].total - Paid(q.inv) - Credited(q.inv)
    /\ q.pc = "add" => q.amount <= q.balance
    /\ q.pc \in {"link", "apply", "save_payment"} => q.pay \in Payments
    /\ q.pc = "link" =>
          pay[q.pay].inv = NoInvoice /\ pay[q.pay].status = "completed" /\ pay[q.pay].amount <= q.balance
    /\ q.pc = "save_payment" => q.row.inv = pay[q.pay].inv

KInv == IInv /\ OneAtWork /\ (\A r \in Reqs : Knows(req[r])) /\ InvoicedWithinQuote

\* Nothing is known of the tables by a request that is not in flight.
LEMMA IdleKnows == ASSUME NEW q, q.pc = "idle" PROVE Knows(q) /\ Knows(q)'
BY DEF Knows

LEMMA SameSums ==
    ASSUME UNCHANGED <<inv, pay>>
    PROVE  /\ \A q, i : UNCHANGED InvoicedOfQuote(q, i)
           /\ \A i : UNCHANGED Paid(i) /\ UNCHANGED Credited(i)
<1>1. ASSUME NEW q, NEW i PROVE UNCHANGED InvoicedOfQuote(q, i)
  BY InvoicedOfTable
<1>2. ASSUME NEW i PROVE UNCHANGED Paid(i) /\ UNCHANGED Credited(i)
  BY DEF Paid, Credited, Total
<1> QED
  BY <1>1, <1>2

LEMMA KnowsSame ==
    ASSUME UNCHANGED <<inv, pay>>, NEW q, Knows(q)
    PROVE  Knows(q)'
BY SameSums DEF Knows

\* At most one request is in flight after a step, and knows the tables as they are.
LEMMA OneKInv ==
    ASSUME IInv', InvoicedWithinQuote', NEW r \in Reqs, NEW q, req'[r] = q, Knows(q)',
           \A s \in Reqs \ {r} : req'[s].pc = "idle"
    PROVE  KInv'
<1>1. OneAtWork'
  BY DEF OneAtWork, At
<1>2. ASSUME NEW s \in Reqs
      PROVE  Knows(req[s])'
  <2>1. CASE s = r
    BY <2>1 DEF Knows
  <2>2. CASE s # r
    BY <2>2 DEF Knows
  <2> QED
    BY <2>1, <2>2
<1> QED
  BY <1>1, <1>2 DEF KInv

\* No request is in flight after a step.
LEMMA QuietKInv ==
    ASSUME IInv', InvoicedWithinQuote', \A s \in Reqs : req'[s].pc = "idle"
    PROVE  KInv'
<1>1. OneAtWork'
  BY DEF OneAtWork, At
<1>2. \A s \in Reqs : Knows(req[s])'
  BY DEF Knows
<1> QED
  BY <1>1, <1>2 DEF KInv

LEMMA OthersIdle ==
    ASSUME KInv, NEW r \in Reqs, ~At(r, "idle"), NEW q, req' = [req EXCEPT ![r] = q]
    PROVE  req'[r] = q /\ \A s \in Reqs \ {r} : req'[s].pc = "idle"
BY DEF KInv, OneAtWork, IInv, RowsTyped, At

\* The request in flight reads.
LEMMA ReadKInv ==
    ASSUME KInv, IInv', NEW r \in Reqs, ~At(r, "idle"), NEW q, req' = [req EXCEPT ![r] = q], Knows(q),
           UNCHANGED <<inv, pay>>
    PROVE  KInv'
<1>1. req'[r] = q /\ \A s \in Reqs \ {r} : req'[s].pc = "idle"
  BY OthersIdle
<1>2. Knows(q)'
  BY KnowsSame
<1>3. InvoicedWithinQuote'
  BY SameSums DEF KInv, InvoicedWithinQuote
<1> QED
  BY <1>1, <1>2, <1>3, OneKInv

\* The request in flight ends, having written or not.
LEMMA EndKInv ==
    ASSUME KInv, IInv', NEW r \in Reqs, ~At(r, "idle"), Finish(r), InvoicedWithinQuote'
    PROVE  KInv'
<1>1. PICK q : q = Idle
  OBVIOUS
<1>2. req' = [req EXCEPT ![r] = q] /\ q.pc = "idle"
  BY <1>1 DEF Finish, Idle
<1>3. req'[r] = q /\ \A s \in Reqs \ {r} : req'[s].pc = "idle"
  BY <1>2, OthersIdle
<1>4. \A s \in Reqs : req'[s].pc = "idle"
  BY <1>2, <1>3
<1> QED
  BY <1>4, QuietKInv

LEMMA NothingKInv ==
    ASSUME KInv, IInv', NEW r \in Reqs, ~At(r, "idle"), Finish(r), UNCHANGED <<inv, pay>>
    PROVE  KInv'
<1>1. InvoicedWithinQuote'
  BY SameSums DEF KInv, InvoicedWithinQuote
<1> QED
  BY <1>1, EndKInv

\* A request begins.
LEMMA BeginKInv ==
    ASSUME ~Crowd, KInv, IInv', NEW r \in Reqs, NEW q, Begin(r, q), Knows(q), UNCHANGED <<inv, pay>>
    PROVE  KInv'
<1>1. req' = [req EXCEPT ![r] = q] /\ \A s \in Reqs : req[s].pc = "idle"
  BY DEF Begin, Quiet, At
<1>2. req'[r] = q /\ \A s \in Reqs \ {r} : req'[s].pc = "idle"
  BY <1>1 DEF KInv, IInv, RowsTyped
<1>3. Knows(q)'
  BY KnowsSame
<1>4. InvoicedWithinQuote'
  BY SameSums DEF KInv, InvoicedWithinQuote
<1> QED
  BY <1>2, <1>3, <1>4, OneKInv

LEMMA StartKInv ==
    ASSUME ~Crowd, KInv, IInv', NEW r \in Reqs, Start(r)
    PROVE  KInv'
<1>1. ASSUME NEW quote \in Quotes \cup {NoQuote}, CreateLoad(r, quote)
      PROVE  KInv'
  <2>1. PICK total \in Amount :
           Begin(r, [Idle EXCEPT !.pc = IF quote = NoQuote THEN "create" ELSE "create_sum",
                                 !.quote = quote, !.amount = total])
    BY <1>1 DEF CreateLoad
  <2>2. PICK q : q = [Idle EXCEPT !.pc = IF quote = NoQuote THEN "create" ELSE "create_sum",
                                  !.quote = quote, !.amount = total]
    OBVIOUS
  <2>3. q.quote = quote /\ q.pc = IF quote = NoQuote THEN "create" ELSE "create_sum"
    BY <2>2 DEF Idle
  <2>4. Knows(q)
    BY <2>3 DEF Knows
  <2> QED
    BY <1>1, <2>1, <2>2, <2>4, BeginKInv DEF CreateLoad
<1>2. ASSUME NEW i \in Invoices, UpdateRead(r, i)
      PROVE  KInv'
  <2>1. PICK total \in Amount :
           Begin(r, [Idle EXCEPT !.pc = IF inv[i].quote # NoQuote /\ IsInvoice(i) THEN "update_sum" ELSE "update",
                                 !.inv = i, !.quote = inv[i].quote, !.amount = total])
    BY <1>2 DEF UpdateRead
  <2>2. PICK q : q = [Idle EXCEPT !.pc = IF inv[i].quote # NoQuote /\ IsInvoice(i) THEN "update_sum" ELSE "update",
                                  !.inv = i, !.quote = inv[i].quote, !.amount = total]
    OBVIOUS
  <2>3. /\ q.inv = i /\ q.quote = inv[i].quote
        /\ q.pc = IF inv[i].quote # NoQuote /\ IsInvoice(i) THEN "update_sum" ELSE "update"
    BY <2>2 DEF Idle
  <2>4. Knows(q)
    BY <1>2, <2>3 DEF Knows, UpdateRead, IsInvoice
  <2> QED
    BY <1>2, <2>1, <2>2, <2>4, BeginKInv DEF UpdateRead
<1>3. ASSUME NEW i \in Invoices, RemoveRead(r, i)
      PROVE  KInv'
  <2>1. PICK q : q = [Idle EXCEPT !.pc = "delete", !.inv = i]
    OBVIOUS
  <2>2. q.pc = "delete" /\ q.inv = i
    BY <2>1 DEF Idle
  <2>3. Knows(q)
    BY <1>3, <2>2 DEF Knows, RemoveRead
  <2> QED
    BY <1>3, <2>1, <2>3, BeginKInv DEF RemoveRead
<1>4. ASSUME NEW i \in Invoices, CreditNoteRead(r, i)
      PROVE  KInv'
  <2>1. PICK total \in Amount :
           Begin(r, [Idle EXCEPT !.pc = "credit_sum", !.inv = i, !.quote = inv[i].quote,
                                 !.amount = total, !.balance = inv[i].total])
    BY <1>4 DEF CreditNoteRead
  <2>2. PICK q : q = [Idle EXCEPT !.pc = "credit_sum", !.inv = i, !.quote = inv[i].quote,
                                  !.amount = total, !.balance = inv[i].total]
    OBVIOUS
  <2>3. q.pc = "credit_sum"
    BY <2>2 DEF Idle
  <2>4. Knows(q)
    BY <2>3 DEF Knows
  <2> QED
    BY <1>4, <2>1, <2>2, <2>4, BeginKInv DEF CreditNoteRead
<1>5. ASSUME NEW i \in Invoices, NEW p, NEW amount, FindOne(r, i, p, amount)
      PROVE  KInv'
  <2>1. PICK q : q = [Idle EXCEPT !.pc = "paid", !.inv = i, !.pay = p, !.amount = amount,
                                  !.flag = (inv[i].status = "issued" /\ IsInvoice(i)),
                                  !.balance = inv[i].total]
    OBVIOUS
  <2>2. q.pc = "paid" /\ q.inv = i /\ q.balance = inv[i].total
    BY <2>1 DEF Idle
  <2>3. Knows(q)
    BY <2>2 DEF Knows
  <2> QED
    BY <1>5, <2>1, <2>3, BeginKInv DEF FindOne
<1>6. ASSUME NEW p \in Payments, PaymentRead(r, p)
      PROVE  KInv'
  <2>1. PICK status \in LivePayment, amount \in Amount :
           Begin(r, [Idle EXCEPT !.pc = "save_payment", !.pay = p,
                                 !.row = [pay[p] EXCEPT !.status = status, !.amount = amount]])
    BY <1>6 DEF PaymentRead
  <2>2. PICK row : row = [pay[p] EXCEPT !.status = status, !.amount = amount]
    OBVIOUS
  <2>3. row.inv = pay[p].inv
    BY <2>2 DEF KInv, IInv, RowsTyped, Payment
  <2>4. PICK q : q = [Idle EXCEPT !.pc = "save_payment", !.pay = p, !.row = row]
    OBVIOUS
  <2>5. q.pc = "save_payment" /\ q.pay = p /\ q.row = row
    BY <2>4 DEF Idle
  <2>6. Knows(q)
    BY <2>3, <2>5 DEF Knows
  <2> QED
    BY <1>6, <2>1, <2>2, <2>4, <2>6, BeginKInv DEF PaymentRead
<1> QED
  BY <1>1, <1>2, <1>3, <1>4, <1>5, <1>6 DEF Start, AddRead, ApplyRead

\* The fields of the request in flight when it goes to another statement.
LEMMA GotoFields ==
    ASSUME KInv, NEW r \in Reqs, NEW label, NEW q, q = [req[r] EXCEPT !.pc = label]
    PROVE  /\ q.pc = label /\ q.inv = req[r].inv /\ q.pay = req[r].pay /\ q.quote = req[r].quote
           /\ q.amount = req[r].amount /\ q.balance = req[r].balance /\ q.row = req[r].row
BY DEF KInv, IInv, RowsTyped, Asked

\* A document is written by the request in flight.
LEMMA WriteKInv ==
    ASSUME KInv, IInv', NEW r \in Reqs, ~At(r, "idle"), Finish(r),
           NEW i \in Invoices, NEW row \in Invoice, inv' = [inv EXCEPT ![i] = row],
           \A q \in Quotes : \/ Counts(row, q) <= Counts(inv[i], q)
                             \/ InvoicedOfQuote(q, i) + Counts(row, q) <= QuoteTotal
    PROVE  KInv'
<1>1. RowsTyped /\ InvoicedWithinQuote
  BY DEF KInv, IInv
<1>2. InvoicedWithinQuote'
  BY <1>1, WriteWithin
<1> QED
  BY <1>2, EndKInv

LEMMA DocumentKInv ==
    ASSUME KInv, IInv', NEW r \in Reqs,
           \/ CreateSum(r) \/ UpdateSum(r) \/ UpdatePatch(r) \/ RemoveDelete(r) \/ CreditNoteSum(r)
           \/ \E i \in Invoices : CreateInsert(r, i) \/ CreditNoteInsert(r, i)
    PROVE  KInv'
<1> ~At(r, "idle")
  BY DEF At, CreateSum, UpdateSum, UpdatePatch, RemoveDelete, CreditNoteSum, CreateInsert, CreditNoteInsert
<1> DEFINE me == req[r]
<1>0. /\ me.amount \in Int /\ me.amount >= 0 /\ Knows(me) /\ QuoteTotal \in Int
      /\ inv \in [Invoices -> Invoice] /\ me.amount \in Amount \cup {0}
      /\ me.quote \in Quotes \cup {NoQuote} /\ me.inv \in Invoices \cup {NoInvoice}
  <2>1. me.amount \in Amount \cup {0} /\ me.quote \in Quotes \cup {NoQuote} /\ me.inv \in Invoices \cup {NoInvoice}
    BY RequestTyped DEF KInv
  <2> QED
    BY <2>1, ConstantsAssumption DEF KInv, IInv, RowsTyped, Amount
<1>1. CASE CreateSum(r)
  <2>1. CASE InvoicedOfQuote(me.quote, NoInvoice) + me.amount <= QuoteTotal
    <3>1. PICK q : q = [me EXCEPT !.pc = "create"]
      OBVIOUS
    <3>2. q.pc = "create" /\ q.quote = me.quote /\ q.amount = me.amount
      BY <3>1, GotoFields
    <3>3. Knows(q)
      BY <2>1, <3>2 DEF Knows
    <3> QED
      BY <1>1, <2>1, <3>1, <3>3, ReadKInv DEF CreateSum, Goto
  <2>2. CASE ~(InvoicedOfQuote(me.quote, NoInvoice) + me.amount <= QuoteTotal)
    BY <1>1, <2>2, NothingKInv DEF CreateSum
  <2> QED
    BY <2>1, <2>2
<1>2. CASE UpdateSum(r)
  <2>1. CASE InvoicedOfQuote(me.quote, me.inv) + me.amount <= QuoteTotal
    <3>1. PICK q : q = [me EXCEPT !.pc = "update"]
      OBVIOUS
    <3>2. q.pc = "update" /\ q.quote = me.quote /\ q.amount = me.amount /\ q.inv = me.inv
      BY <3>1, GotoFields
    <3>3. me.pc = "update_sum"
      BY <1>2 DEF UpdateSum, At
    <3>4. Knows(q)
      BY <1>0, <2>1, <3>2, <3>3 DEF Knows
    <3> QED
      BY <1>2, <2>1, <3>1, <3>4, ReadKInv DEF UpdateSum, Goto
  <2>2. CASE ~(InvoicedOfQuote(me.quote, me.inv) + me.amount <= QuoteTotal)
    BY <1>2, <2>2, NothingKInv DEF UpdateSum
  <2> QED
    BY <2>1, <2>2
<1>3. CASE CreditNoteSum(r)
  <2>1. CASE Goto(r, "credit")
    <3>1. PICK q : q = [me EXCEPT !.pc = "credit"]
      OBVIOUS
    <3>2. q.pc = "credit"
      BY <3>1, GotoFields
    <3>3. Knows(q)
      BY <3>2 DEF Knows
    <3> QED
      BY <1>3, <2>1, <3>1, <3>3, ReadKInv DEF CreditNoteSum, Goto
  <2>2. CASE Finish(r)
    BY <1>3, <2>2, NothingKInv DEF CreditNoteSum
  <2> QED
    BY <1>3, <2>1, <2>2 DEF CreditNoteSum
<1>4. CASE UpdatePatch(r)
  <2>1. CASE ~Exists(me.inv)
    BY <1>4, <2>1, NothingKInv DEF UpdatePatch
  <2>2. CASE Exists(me.inv)
    <3>1. PICK i \in Invoices : i = me.inv
      BY <2>2 DEF Exists
    <3>2. PICK row : row = [inv[i] EXCEPT !.total = me.amount]
      OBVIOUS
    <3>3. /\ row \in Invoice /\ row.status = inv[i].status /\ row.related = inv[i].related
          /\ row.quote = inv[i].quote /\ row.total = me.amount
      BY <1>0, <3>2 DEF Invoice
    <3>4. inv' = [inv EXCEPT ![i] = row] /\ Finish(r)
      BY <1>4, <2>2, <3>1, <3>2 DEF UpdatePatch
    <3>5. /\ inv[i].status = "draft" /\ me.quote = inv[i].quote
          /\ me.quote # NoQuote /\ inv[i].related = NoInvoice => InvoicedOfQuote(me.quote, i) + me.amount <= QuoteTotal
      BY <1>0, <1>4, <3>1 DEF UpdatePatch, At, Knows
    <3>6. ASSUME NEW q \in Quotes
          PROVE  Counts(row, q) <= Counts(inv[i], q) \/ InvoicedOfQuote(q, i) + Counts(row, q) <= QuoteTotal
      <4>1. CASE inv[i].quote # q \/ inv[i].related # NoInvoice
        <5>1. Counts(row, q) = 0 /\ Counts(inv[i], q) = 0
          BY <3>3, <3>5, <4>1 DEF Counts
        <5> QED
          BY <5>1
      <4>2. CASE inv[i].quote = q /\ inv[i].related = NoInvoice
        <5>1. Counts(row, q) = me.amount
          BY <3>3, <3>5, <4>2 DEF Counts, LiveInvoice
        <5>2. q # NoQuote
          BY ConstantsAssumption
        <5> QED
          BY <3>5, <4>2, <5>1, <5>2
      <4> QED
        BY <4>1, <4>2
    <3> QED
      BY <3>3, <3>4, <3>6, WriteKInv
  <2> QED
    BY <2>1, <2>2
<1>5. ASSUME NEW i \in Invoices, CreateInsert(r, i)
      PROVE  KInv'
  <2>1. PICK row : row = [status |-> "draft", quote |-> me.quote, related |-> NoInvoice, total |-> me.amount]
    OBVIOUS
  <2>2. row \in Invoice
    BY <1>0, <2>1 DEF Invoice, LiveInvoice
  <2>3. inv' = [inv EXCEPT ![i] = row] /\ Finish(r) /\ inv[i].status = "none" /\ me.pc = "create"
    BY <1>5, <2>1 DEF CreateInsert, At
  <2>4. ASSUME NEW q \in Quotes
        PROVE  Counts(row, q) <= Counts(inv[i], q) \/ InvoicedOfQuote(q, i) + Counts(row, q) <= QuoteTotal
    <3>1. Counts(inv[i], q) = 0
      BY <2>3 DEF Counts, LiveInvoice
    <3>2. CASE me.quote # q
      <4>1. Counts(row, q) = 0
        BY <2>1, <3>2 DEF Counts
      <4> QED
        BY <3>1, <4>1
    <3>3. CASE me.quote = q
      <4>1. Counts(row, q) = me.amount
        BY <2>1, <3>3 DEF Counts, LiveInvoice
      <4>2. q # NoQuote
        BY ConstantsAssumption
      <4>3. InvoicedOfQuote(q, NoInvoice) + me.amount <= QuoteTotal
        BY <1>0, <2>3, <3>3, <4>2 DEF Knows
      <4>4. PICK t \in [Invoices -> Invoice] : t = inv
        BY <1>0
      <4>5. InvoicedIn(t, q, i) \in Int /\ InvoicedIn(t, q, NoInvoice) = Counts(t[i], q) + InvoicedIn(t, q, i)
        BY InvoicedWithOut
      <4>6. InvoicedOfQuote(q, NoInvoice) = InvoicedOfQuote(q, i)
        BY <3>1, <4>4, <4>5, InvoicedOfTable
      <4> QED
        BY <4>1, <4>3, <4>6
    <3> QED
      BY <3>2, <3>3
  <2> QED
    BY <2>2, <2>3, <2>4, WriteKInv
<1>6. ASSUME NEW c \in Invoices, CreditNoteInsert(r, c)
      PROVE  KInv'
  <2>1. CASE ~Exists(me.inv)
    BY <1>6, <2>1, NothingKInv DEF CreditNoteInsert
  <2>2. CASE Exists(me.inv)
    <3>1. PICK row : row = [status |-> "draft", quote |-> me.quote, related |-> me.inv, total |-> me.amount]
      OBVIOUS
    <3>2. row \in Invoice
      BY <1>0, <3>1 DEF Invoice, LiveInvoice
    <3>3. inv' = [inv EXCEPT ![c] = row] /\ Finish(r) /\ inv[c].status = "none"
      BY <1>6, <2>2, <3>1 DEF CreditNoteInsert
    <3>4. me.inv # NoInvoice
      BY <2>2, ConstantsAssumption DEF Exists
    <3>5. \A q \in Quotes : Counts(row, q) = 0 /\ Counts(inv[c], q) = 0
      BY <3>1, <3>3, <3>4 DEF Counts, LiveInvoice
    <3>6. \A q \in Quotes : Counts(row, q) <= Counts(inv[c], q)
      BY <3>5
    <3> QED
      BY <3>2, <3>3, <3>6, WriteKInv
  <2> QED
    BY <2>1, <2>2
<1>7. CASE RemoveDelete(r)
  <2>1. CASE \E c \in Invoices : inv[c].related = me.inv
    BY <1>7, <2>1, NothingKInv DEF RemoveDelete
  <2>2. CASE ~\E c \in Invoices : inv[c].related = me.inv
    <3>1. PICK row : row = [NoRow EXCEPT !.status = "deleted"]
      OBVIOUS
    <3>2. row \in Invoice /\ row.status = "deleted"
      BY <3>1 DEF NoRow, Invoice
    <3>3. PICK i \in Invoices : i = me.inv
      BY <1>0, <1>7 DEF RemoveDelete, At, Knows
    <3>4. inv' = [inv EXCEPT ![i] = row] /\ Finish(r)
      BY <1>7, <2>2, <3>1, <3>3 DEF RemoveDelete
    <3>5. inv[i].status = "draft"
      BY <1>0, <1>7, <3>3 DEF RemoveDelete, At, Knows
    <3>6. ASSUME NEW q \in Quotes
          PROVE  Counts(row, q) <= Counts(inv[i], q)
      <4>1. Counts(row, q) = 0
        BY <3>2 DEF Counts, LiveInvoice
      <4>2. inv[i].total \in Int /\ inv[i].total >= 0
        BY <1>0 DEF Invoice, Amount
      <4>3. Counts(inv[i], q) = 0 \/ Counts(inv[i], q) = inv[i].total
        BY <3>5 DEF Counts
      <4> QED
        BY <4>1, <4>2, <4>3
    <3> QED
      BY <3>2, <3>4, <3>6, WriteKInv
  <2> QED
    BY <2>1, <2>2
<1> QED
  BY <1>1, <1>2, <1>3, <1>4, <1>5, <1>6, <1>7

(***************************************************************************)
(* Payments, one request at a time.                                        *)
(***************************************************************************)
\* The rows that Paid adds up.
PaidRows(t, i) == {p \in Payments : t[p].inv = i /\ t[p].status = "completed"}

LEMMA PaidOfTable ==
    ASSUME NEW i
    PROVE  /\ Paid(i) = SumOver([p \in Payments |-> pay[p].amount], PaidRows(pay, i))
           /\ Paid(i)' = SumOver([p \in Payments |-> pay'[p].amount], PaidRows(pay', i))
BY DEF Paid, PaidRows

LEMMA PaidRowsFinite == ASSUME NEW t, NEW i PROVE IsFiniteSet(PaidRows(t, i)) /\ PaidRows(t, i) \subseteq Payments
<1>1. PaidRows(t, i) \subseteq Payments /\ IsFiniteSet(Payments)
  BY ConstantsAssumption DEF PaidRows
<1> QED
  BY <1>1, FS_Subset

\* A payment is saved that is in no invoice before nor after.
LEMMA NewKeepsPaid ==
    ASSUME RowsTyped, NEW i \in Invoices, NEW p \in Payments, NEW row, row.inv = NoInvoice,
           pay' = [pay EXCEPT ![p] = row], pay[p].status = "none"
    PROVE  Paid(i)' = Paid(i)
<1>1. \A o \in Payments : pay'[o] = IF o = p THEN row ELSE pay[o]
  BY DEF RowsTyped
<1>2. i # NoInvoice
  BY ConstantsAssumption
<1>3. PaidRows(pay', i) = PaidRows(pay, i) /\ p \notin PaidRows(pay, i)
  BY <1>1, <1>2 DEF PaidRows
<1>4. PICK S : S = PaidRows(pay, i)
  OBVIOUS
<1>5. IsFiniteSet(S) /\ S \subseteq Payments /\ p \notin S
  BY <1>3, <1>4, PaidRowsFinite
<1>6. PICK w : w = [o \in Payments |-> pay[o].amount]
  OBVIOUS
<1>7. PICK v : v = [o \in Payments |-> pay'[o].amount]
  OBVIOUS
<1>8. \A x \in S : v[x] = w[x]
  BY <1>1, <1>5, <1>6, <1>7
<1>9. SumOver(v, S) = SumOver(w, S)
  BY <1>5, <1>8, SumOfSame
<1> QED
  BY <1>3, <1>4, <1>6, <1>7, <1>9, PaidOfTable

\* A completed payment enters an invoice, from none.
LEMMA LinkAddsPaid ==
    ASSUME RowsTyped, NEW i \in Invoices, NEW p \in Payments,
           pay[p].inv = NoInvoice, pay[p].status = "completed", pay' = [pay EXCEPT ![p].inv = i]
    PROVE  Paid(i)' = Paid(i) + pay[p].amount
<1>1. PICK row : row = [pay[p] EXCEPT !.inv = i]
  OBVIOUS
<1>2. row.inv = i /\ row.status = "completed" /\ row.amount = pay[p].amount
  BY <1>1 DEF RowsTyped, Payment
<1>3. \A o \in Payments : pay'[o] = IF o = p THEN row ELSE pay[o]
  BY <1>1 DEF RowsTyped
<1>4. PICK S : S = PaidRows(pay, i)
  OBVIOUS
<1>5. i # NoInvoice
  BY ConstantsAssumption
<1>6. p \notin S /\ PaidRows(pay', i) = S \cup {p}
  BY <1>2, <1>3, <1>4, <1>5 DEF PaidRows
<1>7. IsFiniteSet(S) /\ S \subseteq Payments
  BY <1>4, PaidRowsFinite
<1>8. PICK w : w = [o \in Payments |-> pay[o].amount]
  OBVIOUS
<1>9. PICK v : v = [o \in Payments |-> pay'[o].amount]
  OBVIOUS
<1>10. v = w
  <2>1. \A o \in Payments : v[o] = w[o]
    BY <1>2, <1>3, <1>8, <1>9
  <2> QED
    BY <1>8, <1>9, <2>1
<1>11. \A o \in Payments : w[o] \in Int
  BY <1>8 DEF RowsTyped, Payment, Amount
<1>12. (\A x \in S : w[x] \in Int) /\ w[p] \in Int /\ w[p] = pay[p].amount
  BY <1>7, <1>8, <1>11
<1>13. SumOver(w, S \cup {p}) = w[p] + SumOver(w, S)
  BY <1>6, <1>7, <1>12, SumTakesIn
<1>14. SumOver(w, S) \in Int
  BY <1>7, <1>12, SumIsNumber
<1>15. Paid(i) = SumOver(w, S) /\ Paid(i)' = SumOver(w, S \cup {p})
  BY <1>4, <1>6, <1>8, <1>9, <1>10, PaidOfTable
<1> QED
  BY <1>12, <1>13, <1>14, <1>15

LEMMA SameQuoteSums == ASSUME UNCHANGED inv, InvoicedWithinQuote PROVE InvoicedWithinQuote'
BY InvoicedOfTable DEF InvoicedWithinQuote

LEMMA PaymentKInv ==
    ASSUME KInv, IInv', NEW r \in Reqs,
           \/ AttachPaid(r) \/ AttachCredited(r) \/ ApplyPayment(r) \/ LinkPayment(r)
           \/ \E p \in Payments : AddPayment(r, p)
           \/ PaymentSave(r)
    PROVE  KInv'
<1> ~At(r, "idle")
  BY DEF At, AttachPaid, AttachCredited, ApplyPayment, LinkPayment, AddPayment, PaymentSave
<1> DEFINE me == req[r]
<1>0. me \in Asked /\ Knows(me) /\ RowsTyped /\ InvoicedWithinQuote
  BY DEF KInv, IInv, RowsTyped
<1>1. CASE AttachPaid(r)
  <2>1. PICK b : b = me.balance - Paid(me.inv)
    OBVIOUS
  <2>2. PICK q : q = [me EXCEPT !.pc = "credited", !.balance = b]
    OBVIOUS
  <2>3. q.pc = "credited" /\ q.inv = me.inv /\ q.balance = b /\ me.pc = "paid"
    BY <1>0, <1>1, <2>2 DEF Asked, AttachPaid, At
  <2>4. Knows(q)
    BY <1>0, <2>1, <2>3 DEF Knows
  <2>5. req' = [req EXCEPT ![r] = q] /\ UNCHANGED <<inv, pay>>
    BY <1>1, <2>1, <2>2 DEF AttachPaid
  <2> QED
    BY <2>4, <2>5, ReadKInv
<1>2. CASE AttachCredited(r)
  <2>1. PICK b \in Int : b = me.balance - Credited(me.inv)
    BY <1>0, TotalsTyped DEF Asked
  <2>2. PICK next : next = [me EXCEPT !.balance = b]
    OBVIOUS
  <2>3. next \in Asked
        /\ next.inv = me.inv /\ next.balance = b /\ next.amount = me.amount /\ next.pay = me.pay /\ me.pc = "credited"
    BY <1>0, <1>2, <2>2 DEF Asked, AttachCredited, At
  <2>4. UNCHANGED <<inv, pay>>
    BY <1>2 DEF AttachCredited
  <2>5. \/ me.pay # NoPayment /\ req' = [req EXCEPT ![r] = [next EXCEPT !.pc = "apply"]]
        \/ me.amount <= b /\ req' = [req EXCEPT ![r] = [next EXCEPT !.pc = "add"]]
        \/ Finish(r)
    BY <1>2, <2>1, <2>2 DEF AttachCredited
  <2>6. me.inv \in Invoices /\ b = inv[me.inv].total - Paid(me.inv) - Credited(me.inv)
    BY <1>0, <2>1, <2>3 DEF Knows
  <2>7. CASE me.pay # NoPayment /\ req' = [req EXCEPT ![r] = [next EXCEPT !.pc = "apply"]]
    <3>1. PICK q : q = [next EXCEPT !.pc = "apply"]
      OBVIOUS
    <3>2. q.pc = "apply" /\ q.inv = me.inv /\ q.balance = b /\ q.pay = me.pay
      BY <2>3, <3>1 DEF Asked
    <3>3. q.pay \in Payments
      BY <1>0, <2>7, <3>2 DEF Asked
    <3>4. Knows(q)
      BY <2>6, <3>2, <3>3 DEF Knows
    <3> QED
      BY <2>4, <2>7, <3>1, <3>4, ReadKInv
  <2>8. CASE me.amount <= b /\ req' = [req EXCEPT ![r] = [next EXCEPT !.pc = "add"]]
    <3>1. PICK q : q = [next EXCEPT !.pc = "add"]
      OBVIOUS
    <3>2. q.pc = "add" /\ q.inv = me.inv /\ q.balance = b /\ q.amount = me.amount
      BY <2>3, <3>1 DEF Asked
    <3>3. Knows(q)
      BY <2>6, <2>8, <3>2 DEF Knows
    <3> QED
      BY <2>4, <2>8, <3>1, <3>3, ReadKInv
  <2> QED
    BY <2>4, <2>5, <2>7, <2>8, NothingKInv
<1>3. CASE ApplyPayment(r)
  <2>1. UNCHANGED <<inv, pay>> /\ me.pc = "apply"
    BY <1>3 DEF ApplyPayment, At
  <2>2. \/ /\ pay[me.pay].status = "completed" /\ pay[me.pay].inv = NoInvoice
           /\ pay[me.pay].amount <= me.balance /\ Goto(r, "link")
        \/ Finish(r)
    BY <1>3 DEF ApplyPayment
  <2>3. CASE /\ pay[me.pay].status = "completed" /\ pay[me.pay].inv = NoInvoice
             /\ pay[me.pay].amount <= me.balance /\ Goto(r, "link")
    <3>1. PICK q : q = [me EXCEPT !.pc = "link"]
      OBVIOUS
    <3>2. q.pc = "link" /\ q.inv = me.inv /\ q.balance = me.balance /\ q.pay = me.pay
      BY <3>1, GotoFields
    <3>3. Knows(q)
      BY <1>0, <2>1, <2>3, <3>2 DEF Knows
    <3> QED
      BY <2>1, <2>3, <3>1, <3>3, ReadKInv DEF Goto
  <2> QED
    BY <2>1, <2>2, <2>3, NothingKInv
<1>4. CASE LinkPayment(r) \/ PaymentSave(r)
  <2>1. Finish(r) /\ UNCHANGED inv
    BY <1>4 DEF LinkPayment, PaymentSave
  <2>2. InvoicedWithinQuote'
    BY <1>0, <2>1, SameQuoteSums
  <2> QED
    BY <2>1, <2>2, EndKInv
<1>5. ASSUME NEW p \in Payments, AddPayment(r, p)
      PROVE  KInv'
  <2>1. PICK row : row = [FreePayment EXCEPT !.status = "completed", !.amount = me.amount]
    OBVIOUS
  <2>2. row.inv = NoInvoice /\ row.status = "completed" /\ row.amount = me.amount
    BY <2>1 DEF FreePayment
  <2>3. PICK q : q = [me EXCEPT !.pc = "link", !.pay = p]
    OBVIOUS
  <2>4. q.pc = "link" /\ q.inv = me.inv /\ q.balance = me.balance /\ q.pay = p /\ me.pc = "add"
    BY <1>0, <1>5, <2>3 DEF Asked, AddPayment, At
  <2>5. pay' = [pay EXCEPT ![p] = row] /\ pay[p].status = "none" /\ UNCHANGED inv /\ req' = [req EXCEPT ![r] = q]
    BY <1>5, <2>1, <2>3 DEF AddPayment
  <2>6. PICK i \in Invoices : i = me.inv
    BY <1>0, <2>4 DEF Knows
  <2>7. q.inv = i /\ q.balance = inv[i].total - Paid(i) - Credited(i) /\ row.amount <= q.balance
    BY <1>0, <2>2, <2>4, <2>6 DEF Knows
  <2>8. Paid(i)' = Paid(i)
    BY <1>0, <2>2, <2>5, NewKeepsPaid
  <2>9. Credited(i)' = Credited(i)
    BY <2>5 DEF Credited, Total
  <2>10. pay'[p] = row
    BY <1>0, <2>5 DEF RowsTyped
  <2>11. q.balance = inv'[i].total - Paid(i)' - Credited(i)'
    BY <2>5, <2>7, <2>8, <2>9
  <2>12. Knows(q)'
    <3>1. (q.pc = "link" /\ q.inv \in Invoices /\ q.pay \in Payments)'
      BY <2>4, <2>7
    <3>2. (q.balance = inv[q.inv].total - Paid(q.inv) - Credited(q.inv))'
      BY <2>7, <2>11
    <3>3. (pay[q.pay].inv = NoInvoice /\ pay[q.pay].status = "completed" /\ pay[q.pay].amount <= q.balance)'
      BY <2>2, <2>4, <2>7, <2>10
    <3> QED
      BY <3>1, <3>2, <3>3 DEF Knows
  <2>13. req'[r] = q /\ \A s \in Reqs \ {r} : req'[s].pc = "idle"
    BY <2>5, OthersIdle
  <2>14. InvoicedWithinQuote'
    BY <1>0, <2>5, SameQuoteSums
  <2> QED
    BY <2>12, <2>13, <2>14, OneKInv
<1> QED
  BY <1>1, <1>2, <1>3, <1>4, <1>5

(***************************************************************************)
(* Single statements run while no request is in flight, except a revision  *)
(* of a quote, which changes nothing that a request knows.                 *)
(***************************************************************************)
LEMMA SameKInv ==
    ASSUME KInv, IInv', UNCHANGED <<inv, pay, req>>
    PROVE  KInv'
<1>1. \A r \in Reqs : Knows(req[r])'
  <2> SUFFICES ASSUME NEW r \in Reqs PROVE Knows(req[r])'
    OBVIOUS
  <2>1. PICK q : q = req[r]
    OBVIOUS
  <2>2. Knows(q)'
    BY <2>1, KnowsSame DEF KInv
  <2>3. req'[r] = q
    BY <2>1
  <2> QED
    BY <2>2, <2>3 DEF Knows
<1>2. OneAtWork'
  BY DEF KInv, OneAtWork, At
<1>3. InvoicedWithinQuote'
  BY SameQuoteSums DEF KInv
<1> QED
  BY <1>1, <1>2, <1>3 DEF KInv

LEMMA EmissionKInv ==
    ASSUME ~Crowd, KInv, IInv', NEW i \in Invoices, NEW from, NEW to, Emission(i, from, to),
           <<from, to>> \in {<<"draft", "emitting">>, <<"emitting", "draft">>, <<"emitting", "issued">>}
    PROVE  KInv'
<1>1. PICK row : row = [inv[i] EXCEPT !.status = to]
  OBVIOUS
<1>2. RowsTyped /\ InvoicedWithinQuote /\ inv[i] \in Invoice
  BY DEF KInv, IInv, RowsTyped
<1>3. from \in {"draft", "emitting"} /\ to \in LiveInvoice
  BY DEF LiveInvoice
<1>4. /\ row \in Invoice /\ row.status = to /\ row.related = inv[i].related
      /\ row.quote = inv[i].quote /\ row.total = inv[i].total
  BY <1>1, <1>2, <1>3 DEF Invoice
<1>5. inv' = [inv EXCEPT ![i] = row] /\ inv[i].status = from /\ UNCHANGED req /\ Quiet
  BY <1>1 DEF Emission
<1>6. inv[i].total \in Int /\ inv[i].total >= 0
  BY <1>2 DEF Invoice, Amount
<1>7. ASSUME NEW q \in Quotes
      PROVE  Counts(row, q) <= Counts(inv[i], q)
  <2>1. CASE inv[i].quote # q
    BY <1>4, <2>1 DEF Counts
  <2>2. CASE inv[i].quote = q /\ inv[i].related = NoInvoice
    BY <1>3, <1>4, <1>5, <1>6, <2>2 DEF Counts, LiveInvoice
  <2>3. CASE inv[i].quote = q /\ inv[i].related # NoInvoice
    <3>1. Counts(inv[i], q) = 0
      BY <1>3, <1>5, <2>3 DEF Counts
    <3>2. Counts(row, q) = 0 \/ Counts(row, q) = 0 - inv[i].total
      BY <1>4, <2>3 DEF Counts
    <3> QED
      BY <1>6, <3>1, <3>2
  <2> QED
    BY <2>1, <2>2, <2>3
<1>8. InvoicedWithinQuote'
  BY <1>2, <1>4, <1>5, <1>7, WriteWithin
<1> QED
  BY <1>5, <1>8, QuietKInv DEF Quiet, At

LEMMA NextKInv == ASSUME ~Crowd, KInv, [Next]_vars PROVE KInv'
<1>0. IInv'
  BY NextIInv DEF KInv
<1>1. ASSUME NEW r \in Reqs, Start(r)
      PROVE  KInv'
  BY <1>0, <1>1, StartKInv
<1>2. ASSUME NEW r \in Reqs, Continue(r)
      PROVE  KInv'
  BY <1>0, <1>2, DocumentKInv, PaymentKInv DEF Continue
<1>3. ASSUME NEW i \in Invoices, EmitClaim(i) \/ EmitRollback(i) \/ EmitCommit(i)
      PROVE  KInv'
  BY <1>0, <1>3, EmissionKInv DEF EmitClaim, EmitRollback, EmitCommit
<1>4. ASSUME NEW p \in Payments, UnlinkPayment(p) \/ CreatePayment(p) \/ DeletePayment(p)
      PROVE  KInv'
  <2>1. Quiet /\ UNCHANGED <<inv, req>>
    BY <1>4 DEF UnlinkPayment, CreatePayment, DeletePayment
  <2>2. InvoicedWithinQuote'
    BY <2>1, SameQuoteSums DEF KInv
  <2> QED
    BY <1>0, <2>1, <2>2, QuietKInv DEF Quiet, At
<1>5. ASSUME NEW q \in Quotes, Supersede(q)
      PROVE  KInv'
  BY <1>0, <1>5, SameKInv DEF Supersede
<1>6. CASE Restart
  <2>1. UNCHANGED inv /\ \A s \in Reqs : req'[s].pc = "idle"
    BY <1>6 DEF Restart, Idle
  <2>2. InvoicedWithinQuote'
    BY <2>1, SameQuoteSums DEF KInv
  <2> QED
    BY <1>0, <2>1, <2>2, QuietKInv
<1>7. CASE UNCHANGED vars
  BY <1>0, <1>7, SameKInv DEF vars
<1> QED
  BY <1>1, <1>2, <1>3, <1>4, <1>5, <1>6, <1>7 DEF Next, Statement

LEMMA InitKInv == Init => KInv
<1> SUFFICES ASSUME Init PROVE KInv
  OBVIOUS
<1>1. IInv
  BY InitIInv
<1>2. OneAtWork /\ \A r \in Reqs : Knows(req[r])
  BY IdleKnows DEF Init, OneAtWork, At, Idle
<1>3. InvoicedWithinQuote
  <2> SUFFICES ASSUME NEW q \in Quotes PROVE InvoicedOfQuote(q, NoInvoice) <= QuoteTotal
    BY DEF InvoicedWithinQuote
  <2>1. BilledIn(inv, q, NoInvoice) = {} /\ NotedIn(inv, q, NoInvoice) = {}
    BY DEF Init, NoRow, BilledIn, NotedIn, LiveInvoice
  <2>2. InvoicedIn(inv, q, NoInvoice) = 0 - 0
    BY <2>1, SumOfNone DEF InvoicedIn
  <2>3. InvoicedOfQuote(q, NoInvoice) = 0 - 0
    BY <2>2, InvoicedOfTable
  <2> QED
    BY <2>3, ConstantsAssumption
<1> QED
  BY <1>1, <1>2, <1>3 DEF KInv

\* assertWithinQuote holds the line with one request at a time: for any number of
\* documents of any totals, no sequence of invoices, edits of drafts, credit
\* notes, emissions, removals and restarts invoices more of a quote than its total.
THEOREM SpecInvoicedWithinQuote == ASSUME ~Crowd PROVE Spec => []InvoicedWithinQuote
<1>1. KInv /\ [Next]_vars => KInv'
  BY NextKInv
<1>2. KInv => InvoicedWithinQuote
  BY DEF KInv
<1> QED
  BY <1>1, <1>2, InitKInv, PTL DEF Spec

(***************************************************************************)
(* What is applied fits.  Only the UPDATE of addPayment and applyPayment   *)
(* takes a payment into an invoice, the one the request looked at.         *)
(***************************************************************************)
LEMMA OnlyLinkApplies ==
    ASSUME ~Crowd, KInv, [Next]_vars, NEW p \in Payments, NEW i \in Invoices, pay'[p].inv = i, pay[p].inv # i
    PROVE  \E r \in Reqs : LinkPayment(r) /\ req[r].pay = p /\ req[r].inv = i
<1>0. /\ pay \in [Payments -> Payment] /\ i # NoInvoice /\ pay' # pay
      /\ \A r \in Reqs : Knows(req[r])
  BY ConstantsAssumption DEF KInv, IInv, RowsTyped
<1>1. ASSUME NEW r \in Reqs, Start(r)
      PROVE  FALSE
  BY <1>0, <1>1 DEF Start, CreateLoad, UpdateRead, RemoveRead, CreditNoteRead, AddRead, ApplyRead, FindOne, PaymentRead
<1>2. ASSUME NEW r \in Reqs, CreateSum(r) \/ UpdateSum(r) \/ UpdatePatch(r) \/ CreditNoteSum(r)
                             \/ AttachPaid(r) \/ AttachCredited(r) \/ ApplyPayment(r)
      PROVE  FALSE
  BY <1>0, <1>2 DEF CreateSum, UpdateSum, UpdatePatch, CreditNoteSum, AttachPaid, AttachCredited, ApplyPayment
<1>3. ASSUME NEW r \in Reqs, NEW j \in Invoices, CreateInsert(r, j) \/ CreditNoteInsert(r, j)
      PROVE  FALSE
  BY <1>0, <1>3 DEF CreateInsert, CreditNoteInsert
<1>4. ASSUME NEW r \in Reqs, RemoveDelete(r)
      PROVE  FALSE
  <2>1. PICK gone : pay' = [o \in Payments |-> IF pay[o].inv = gone THEN [pay[o] EXCEPT !.inv = NoInvoice] ELSE pay[o]]
    BY <1>0, <1>4 DEF RemoveDelete
  <2>2. pay'[p] = IF pay[p].inv = gone THEN [pay[p] EXCEPT !.inv = NoInvoice] ELSE pay[p]
    BY <2>1
  <2>3. [pay[p] EXCEPT !.inv = NoInvoice].inv = NoInvoice
    BY <1>0 DEF Payment
  <2> QED
    BY <1>0, <2>2, <2>3
<1>5. ASSUME NEW r \in Reqs, NEW o \in Payments, AddPayment(r, o)
      PROVE  FALSE
  <2>1. PICK row : row = [FreePayment EXCEPT !.status = "completed", !.amount = req[r].amount]
    OBVIOUS
  <2>2. row.inv = NoInvoice /\ pay' = [pay EXCEPT ![o] = row]
    BY <1>5, <2>1 DEF AddPayment, FreePayment
  <2> QED
    BY <1>0, <2>2
<1>6. ASSUME NEW r \in Reqs, PaymentSave(r)
      PROVE  FALSE
  <2>1. pay' = [pay EXCEPT ![req[r].pay] = req[r].row] /\ req[r].pc = "save_payment"
    BY <1>0, <1>6 DEF PaymentSave, At
  <2>2. req[r].pay \in Payments /\ req[r].row.inv = pay[req[r].pay].inv
    BY <1>0, <2>1 DEF Knows
  <2> QED
    BY <1>0, <2>1, <2>2
<1>7. ASSUME NEW r \in Reqs, LinkPayment(r)
      PROVE  req[r].pay = p /\ req[r].inv = i
  <2>1. pay' = [pay EXCEPT ![req[r].pay].inv = req[r].inv] /\ req[r].pc = "link"
    BY <1>0, <1>7 DEF LinkPayment, At
  <2>2. req[r].pay \in Payments
    BY <1>0, <2>1 DEF Knows
  <2> QED
    BY <1>0, <2>1, <2>2 DEF Payment
<1>8. ASSUME NEW j \in Invoices, EmitClaim(j) \/ EmitRollback(j) \/ EmitCommit(j)
      PROVE  FALSE
  BY <1>0, <1>8 DEF EmitClaim, EmitRollback, EmitCommit, Emission
<1>9. ASSUME NEW o \in Payments, UnlinkPayment(o) \/ CreatePayment(o) \/ DeletePayment(o)
      PROVE  FALSE
  <2>1. CASE UnlinkPayment(o)
    BY <1>0, <2>1 DEF UnlinkPayment, Payment
  <2>2. CASE CreatePayment(o) \/ DeletePayment(o)
    <3>1. PICK row : row.inv = NoInvoice /\ pay' = [pay EXCEPT ![o] = row]
      BY <2>2 DEF CreatePayment, DeletePayment, FreePayment
    <3> QED
      BY <1>0, <3>1
  <2> QED
    BY <1>9, <2>1, <2>2
<1>10. ASSUME NEW q \in Quotes, Supersede(q)
       PROVE  FALSE
  BY <1>0, <1>10 DEF Supersede
<1>11. ~Restart /\ ~UNCHANGED vars
  BY <1>0 DEF Restart, vars
<1> QED
  BY <1>1, <1>2, <1>3, <1>4, <1>5, <1>6, <1>7, <1>8, <1>9, <1>10, <1>11 DEF Next, Continue, Statement

\* assertCapacity holds the line with one request at a time: for any number of
\* payments and credit notes, a payment enters an invoice only if, with it, no
\* more is paid and credited than the invoice's total.
THEOREM SpecAppliedFits == ASSUME ~Crowd PROVE Spec => AppliedFits
<1>1. ASSUME KInv, [Next]_vars, NEW p \in Payments, NEW i \in Invoices, pay'[p].inv = i, pay[p].inv # i
      PROVE  (inv[i].total >= Credited(i) + Paid(i))'
  <2>1. PICK r \in Reqs : LinkPayment(r) /\ req[r].pay = p /\ req[r].inv = i
    BY <1>1, OnlyLinkApplies
  <2>2. RowsTyped /\ Knows(req[r]) /\ req[r].pc = "link"
    BY <1>1, <2>1 DEF KInv, IInv, LinkPayment, At
  <2>3. /\ req[r].balance = inv[i].total - Paid(i) - Credited(i)
        /\ pay[p].inv = NoInvoice /\ pay[p].status = "completed" /\ pay[p].amount <= req[r].balance
    BY <2>1, <2>2 DEF Knows
  <2>4. pay' # pay
    BY <1>1
  <2>5. pay' = [pay EXCEPT ![p].inv = i] /\ UNCHANGED inv
    BY <2>1, <2>4 DEF LinkPayment
  <2>6. Paid(i)' = Paid(i) + pay[p].amount
    BY <2>2, <2>3, <2>5, LinkAddsPaid
  <2>7. Credited(i)' = Credited(i) /\ inv'[i].total = inv[i].total
    BY <2>5 DEF Credited, Total
  <2>8. Paid(i) \in Int /\ Credited(i) \in Int /\ inv[i].total \in Int /\ pay[p].amount \in Int
    BY <2>2, TotalsTyped DEF RowsTyped, Payment, Amount
  <2> QED
    BY <2>3, <2>6, <2>7, <2>8
<1>2. KInv /\ [Next]_vars =>
        \A p \in Payments : \A i \in Invoices :
           pay'[p].inv = i /\ pay[p].inv # i => (inv[i].total >= Credited(i) + Paid(i))'
  BY <1>1
<1>3. KInv /\ [Next]_vars => KInv'
  BY NextKInv
<1> QED
  BY <1>2, <1>3, InitKInv, PTL DEF Spec, AppliedFits
=============================================================================
