------------------------ MODULE SalesInvoicesProofs ------------------------
(***************************************************************************)
(* Proofs about SalesInvoices for any number of documents, receipts and    *)
(* requests.                                                               *)
(***************************************************************************)
EXTENDS SalesInvoices, TLAPS

(***************************************************************************)
(* What a step does to one row of each table, field by field.  The lemmas  *)
(* about actions cite these instead of expanding record updates.           *)
(***************************************************************************)
\* The state of a request that is not running is a request.
LEMMA IdleTyped == Idle \in Request
BY DEF Idle, Request, Pcs, EcfStates

\* A place of the table without a row yet is an invoice.
LEMMA NoInvoiceTyped == NoInvoice \in Invoice
BY DEF NoInvoice, Invoice, InvoiceStatus, EcfStates

\* Goto moves one request to another place and changes nothing else of it.
LEMMA GotoEffect ==
    ASSUME TypeOK, NEW r \in Reqs, NEW label \in Pcs, Goto(r, label)
    PROVE  /\ req' \in [Reqs -> Request]
           /\ req'[r].pc = label
           /\ req'[r].doc = req[r].doc
           /\ req'[r].ecf = req[r].ecf
           /\ req'[r].estado = req[r].estado
           /\ \A q \in Reqs \ {r} : req'[q] = req[q]
BY DEF Goto, TypeOK, Request

\* Learn moves one request on and keeps in it a receipt and its state.
LEMMA LearnEffect ==
    ASSUME TypeOK, NEW r \in Reqs, NEW label \in Pcs, NEW state \in EcfStates, Learn(r, label, state)
    PROVE  /\ req' \in [Reqs -> Request]
           /\ req'[r].pc = label
           /\ req'[r].doc = req[r].doc
           /\ req'[r].ecf = req[r].ecf
           /\ req'[r].estado = state
           /\ \A q \in Reqs \ {r} : req'[q] = req[q]
<1> DEFINE next == [req[r] EXCEPT !.pc = label, !.estado = state]
<1>1. /\ next \in Request
      /\ next.pc = label
      /\ next.doc = req[r].doc
      /\ next.ecf = req[r].ecf
      /\ next.estado = state
  BY DEF TypeOK, Request
<1> HIDE DEF next
<1> QED
  BY <1>1 DEF Learn, TypeOK, next

\* Finish leaves one request idle.
LEMMA FinishEffect ==
    ASSUME TypeOK, NEW r \in Reqs, Finish(r)
    PROVE  /\ req' \in [Reqs -> Request]
           /\ req'[r].pc = "idle"
           /\ \A q \in Reqs \ {r} : req'[q] = req[q]
<1> QED
  BY IdleTyped DEF Finish, TypeOK, Idle

\* GiveUp sends an emission to its rollback and ends any other request.
LEMMA GiveUpEffect ==
    ASSUME TypeOK, NEW r \in Reqs, GiveUp(r)
    PROVE  /\ req' \in [Reqs -> Request]
           /\ req'[r].pc = "rollback"
           /\ req'[r].doc = req[r].doc
           /\ \A q \in Reqs \ {r} : req'[q] = req[q]
<1> DEFINE next == [Idle EXCEPT !.pc = "rollback", !.doc = req[r].doc]
<1>1. req[r].doc \in Docs \cup {NoDoc}
  BY DEF TypeOK, Request
<1>2. next \in Request /\ next.pc = "rollback" /\ next.doc = req[r].doc
  BY <1>1 DEF Idle, Request, Pcs, Claimed, EcfStates
<1>3. req' = [req EXCEPT ![r] = next]
  BY DEF GiveUp
<1> QED
  BY <1>2, <1>3 DEF TypeOK

\* Begin puts an idle request to work.
LEMMA BeginEffect ==
    ASSUME TypeOK, NEW r \in Reqs, NEW next \in Request, Begin(r, next)
    PROVE  /\ req' \in [Reqs -> Request]
           /\ req[r].pc = "idle"
           /\ req'[r] = next
           /\ \A q \in Reqs \ {r} : req'[q] = req[q]
BY DEF Begin, At, TypeOK

\* UpdateRow writes one row of the table.
LEMMA RowEffect ==
    ASSUME TypeOK, NEW d \in Docs, NEW row \in Invoice, UpdateRow(d, row)
    PROVE  /\ inv' \in [Docs -> Invoice]
           /\ inv'[d] = IF Exists(d) THEN row ELSE inv[d]
           /\ \A c \in Docs \ {d} : inv'[c] = inv[c]
BY DEF UpdateRow, TypeOK

\* InsertRow writes a draft in a place that had no row.
LEMMA InsertEffect ==
    ASSUME TypeOK, NEW d \in Docs, NEW amount \in Nat, NEW orig \in Docs \cup {NoDoc},
           InsertRow(d, amount, orig)
    PROVE  /\ inv' \in [Docs -> Invoice]
           /\ inv[d].status = "none"
           /\ inv'[d].status = "draft"
           /\ inv'[d].related = orig
           /\ inv'[d].ecfId = NoEcf
           /\ \A c \in Docs \ {d} : inv'[c] = inv[c]
<1> DEFINE row == [NoInvoice EXCEPT !.status = "draft", !.related = orig,
                                    !.lines = amount, !.total = amount]
<1>1. /\ row \in Invoice
      /\ row.status = "draft"
      /\ row.related = orig
      /\ row.ecfId = NoEcf
  BY DEF NoInvoice, Invoice, InvoiceStatus, Live, EcfStates
<1> QED
  BY <1>1 DEF InsertRow, TypeOK

\* Writing one receipt leaves the others alone.
LEMMA ReceiptEffect ==
    ASSUME TypeOK, NEW e \in Ecfs, NEW receipt \in Receipt, ecf' = [ecf EXCEPT ![e] = receipt]
    PROVE  /\ ecf' \in [Ecfs -> Receipt]
           /\ ecf'[e] = receipt
           /\ \A f \in Ecfs \ {e} : ecf'[f] = ecf[f]
BY DEF TypeOK

\* Writing a receipt's state keeps its document and the other receipts.
LEMMA StateEffect ==
    ASSUME TypeOK, NEW e \in Ecfs, NEW s \in EcfStates
    PROVE  /\ [ecf[e] EXCEPT !.state = s] \in Receipt
           /\ [ecf[e] EXCEPT !.state = s].state = s
           /\ [ecf[e] EXCEPT !.state = s].doc = ecf[e].doc
BY DEF TypeOK, Receipt

(***************************************************************************)
(* The inductive invariant.                                                *)
(***************************************************************************)
HoldsReceipt == {"validate", "sign", "fetch", "commit"}
UsesReceipt == {"post", "sync", "status", "sync_write"}

\* A request that has started names a document, and a receipt when it has one.
RequestsNameThings ==
    \A r \in Reqs :
        /\ req[r].pc # "idle" => req[r].doc \in Docs
        /\ req[r].pc \in HoldsReceipt \cup UsesReceipt => req[r].ecf \in Ecfs

Typed == TypeOK /\ RequestsNameThings

\* The receipt an emission is working on belongs to its document and is in
\* the state the emission left it in.
HeldReceipts ==
    \A r \in Reqs :
        /\ req[r].pc \in HoldsReceipt => ecf[req[r].ecf].doc = req[r].doc
        /\ req[r].pc = "validate" => ecf[req[r].ecf].state = "created"
        /\ req[r].pc = "sign" => ecf[req[r].ecf].state = "validated"
        /\ req[r].pc \in {"fetch", "commit"} => ecf[req[r].ecf].state \in Signed

\* Only an issued document names a receipt.
OnlyIssuedHasReceipt ==
    \A d \in Docs : inv[d].status # "issued" => inv[d].ecfId = NoEcf

\* A receipt that is transmitted or read again was signed, and is the one its
\* document records, unless the document was deleted, before its emission ended
\* or after.
UsedReceipts ==
    \A r \in Reqs : req[r].pc \in UsesReceipt =>
        /\ ecf[req[r].ecf].doc = req[r].doc
        /\ ecf[req[r].ecf].state \in Signed
        /\ inv[req[r].doc].ecfId = req[r].ecf \/ inv[req[r].doc].status = "deleted"
        /\ req[r].pc = "status" => ecf[req[r].ecf].state \in Sent

\* The invoice of a credit note being created was issued, and is still, unless
\* it was deleted since.
CreditNoteRequests ==
    \A r \in Reqs : req[r].pc \in {"cn_sum", "cn_insert"} =>
        inv[req[r].doc].status \in {"issued", "deleted"}

ReceiptsNameDocs ==
    \A e \in Ecfs : ecf[e].state # "absent" => ecf[e].doc \in Docs

\* The receipt that was sent is the one its document records, unless the
\* document was deleted, before or after it was sent.
SentIsRecorded ==
    \A e \in Ecfs : ecf[e].state \in Sent => inv[ecf[e].doc].ecfId = e \/ inv[ecf[e].doc].status = "deleted"

IInv ==
    /\ Typed
    /\ ClaimExclusive
    /\ HeldReceipts
    /\ OnlyIssuedHasReceipt
    /\ IssuedIsBacked
    /\ UsedReceipts
    /\ CreditNoteRequests
    /\ CreditNoteHasIssuedInvoice
    /\ ReceiptsNameDocs
    /\ SentIsRecorded

\* No document, receipt or request: the invariant holds.
LEMMA InitIInv == Init => IInv
<1> SUFFICES ASSUME Init
             PROVE  IInv
  OBVIOUS
<1>1. /\ \A d \in Docs : inv[d] = NoInvoice
      /\ \A e \in Ecfs : ecf[e] = NoReceipt
      /\ \A r \in Reqs : req[r] = Idle
  BY DEF Init
<1>2. TypeOK
  <2>1. NoReceipt \in Receipt
    BY DEF NoReceipt, Receipt, EcfStates
  <2> QED
    BY <2>1, IdleTyped, NoInvoiceTyped DEF Init, TypeOK
<1>3. /\ \A d \in Docs : inv[d].status = "none" /\ inv[d].ecfId = NoEcf
      /\ \A e \in Ecfs : ecf[e].state = "absent"
      /\ \A r \in Reqs : req[r].pc = "idle"
  BY <1>1 DEF NoInvoice, NoReceipt, Idle
<1> QED
  BY <1>2, <1>3 DEF IInv, Typed, RequestsNameThings, ClaimExclusive, HeldReceipts,
     OnlyIssuedHasReceipt, IssuedIsBacked, UsedReceipts, CreditNoteRequests,
     CreditNoteHasIssuedInvoice, ReceiptsNameDocs, SentIsRecorded, Exists, Live, Claimed,
     HoldsReceipt, UsesReceipt, Sent

(***************************************************************************)
(* The steps that only read leave both tables alone; the request that      *)
(* reads learns what it read.                                              *)
(***************************************************************************)
\* A request that starts reads one row and writes none.
LEMMA StartIInv ==
    ASSUME IInv, NEW r \in Reqs, Start(r)
    PROVE  IInv'
<1> USE DEF IInv, Typed
<1> DEFINE Started(label, d, e) ==
        /\ req' \in [Reqs -> Request]
        /\ req'[r].pc = label
        /\ req'[r].doc = d
        /\ req'[r].ecf = e
        /\ \A q \in Reqs \ {r} : req'[q] = req[q]
        /\ UNCHANGED <<inv, ecf>>
<1>1. ASSUME NEW d \in Docs, NEW label \in {"cn_sum", "del_lines", "delete", "claim"},
             Started(label, d, NoEcf), label = "cn_sum" => inv[d].status = "issued"
      PROVE  IInv'
  BY <1>1 DEF TypeOK, RequestsNameThings, ClaimExclusive, HeldReceipts, OnlyIssuedHasReceipt,
     IssuedIsBacked, UsedReceipts, CreditNoteRequests, CreditNoteHasIssuedInvoice,
     ReceiptsNameDocs, SentIsRecorded, Exists, Claimed, HoldsReceipt, UsesReceipt
<1>2. ASSUME NEW d \in Docs, NEW label \in {"post", "sync"}, inv[d].ecfId # NoEcf,
             Started(label, d, inv[d].ecfId)
      PROVE  IInv'
  <2> QED
    BY <1>2 DEF TypeOK, RequestsNameThings, ClaimExclusive, HeldReceipts, OnlyIssuedHasReceipt,
       IssuedIsBacked, UsedReceipts, CreditNoteRequests, CreditNoteHasIssuedInvoice,
       ReceiptsNameDocs, SentIsRecorded, Exists, Claimed
<1>3. PICK d \in Docs :
        \/ \E amount \in Amounts, full \in BOOLEAN : CreditNoteRead(r, d, amount, full)
        \/ \E amount \in Amounts : UpdateRead(r, d, amount)
        \/ RemoveRead(r, d)
        \/ EmitRead(r, d)
        \/ TransmitRead(r, d)
        \/ RefreshRead(r, d)
  BY DEF Start
<1>4. inv[d].lines \in Nat /\ inv[d].total \in Nat /\ inv[d].ecfId \in Ecfs \cup {NoEcf}
  BY DEF TypeOK, Invoice
<1>5. ASSUME NEW amount \in Amounts, NEW full \in BOOLEAN, CreditNoteRead(r, d, amount, full)
      PROVE  IInv'
  <2> DEFINE size == IF full THEN inv[d].lines ELSE amount
             total == inv[d].total
             next == [Idle EXCEPT !.pc = "cn_sum", !.doc = d, !.full = full, !.total = total, !.amount = size]
  <2>1. size \in Nat /\ total \in Nat
    BY <1>4, ConstantsAssumption
  <2>2. next \in Request /\ next.pc = "cn_sum" /\ next.doc = d /\ next.ecf = NoEcf
    <3> HIDE DEF size, total
    <3> QED
      BY <2>1 DEF Idle, Request, Pcs, EcfStates
  <2>3. Begin(r, next) /\ UNCHANGED <<inv, ecf>>
    BY <1>5 DEF CreditNoteRead
  <2>4. Started("cn_sum", d, NoEcf)
    BY <2>2, <2>3, BeginEffect
  <2> QED
    BY <1>1, <1>5, <2>4 DEF CreditNoteRead
<1>6. ASSUME NEW amount \in Amounts, UpdateRead(r, d, amount)
      PROVE  IInv'
  <2> DEFINE next == [Idle EXCEPT !.pc = "del_lines", !.doc = d, !.amount = amount]
  <2>1. next \in Request /\ next.pc = "del_lines" /\ next.doc = d /\ next.ecf = NoEcf
    BY ConstantsAssumption DEF Idle, Request, Pcs, EcfStates
  <2>2. Begin(r, next) /\ UNCHANGED <<inv, ecf>>
    BY <1>6 DEF UpdateRead
  <2>3. Started("del_lines", d, NoEcf)
    BY <2>1, <2>2, BeginEffect
  <2> QED
    BY <1>1, <2>3
<1>7. CASE RemoveRead(r, d)
  <2> DEFINE next == [Idle EXCEPT !.pc = "delete", !.doc = d]
  <2>1. next \in Request /\ next.pc = "delete" /\ next.doc = d /\ next.ecf = NoEcf
    BY DEF Idle, Request, Pcs, EcfStates
  <2>2. Begin(r, next) /\ UNCHANGED <<inv, ecf>>
    BY <1>7 DEF RemoveRead
  <2>3. Started("delete", d, NoEcf)
    BY <2>1, <2>2, BeginEffect
  <2> QED
    BY <1>1, <2>3
<1>8. CASE EmitRead(r, d)
  <2> DEFINE next == [Idle EXCEPT !.pc = "claim", !.doc = d, !.amount = inv[d].lines]
  <2>1. next \in Request /\ next.pc = "claim" /\ next.doc = d /\ next.ecf = NoEcf
    BY <1>4 DEF Idle, Request, Pcs, EcfStates
  <2>2. Begin(r, next) /\ UNCHANGED <<inv, ecf>>
    BY <1>8 DEF EmitRead
  <2>3. Started("claim", d, NoEcf)
    BY <2>1, <2>2, BeginEffect
  <2> QED
    BY <1>1, <2>3
<1>9. CASE TransmitRead(r, d)
  <2> DEFINE next == [Idle EXCEPT !.pc = "post", !.doc = d, !.ecf = inv[d].ecfId]
  <2>1. next \in Request /\ next.pc = "post" /\ next.doc = d /\ next.ecf = inv[d].ecfId
    BY <1>4 DEF Idle, Request, Pcs, EcfStates
  <2>2. Begin(r, next) /\ UNCHANGED <<inv, ecf>>
    BY <1>9 DEF TransmitRead
  <2>3. Started("post", d, inv[d].ecfId)
    BY <2>1, <2>2, BeginEffect
  <2> QED
    BY <1>2, <1>9, <2>3 DEF TransmitRead
<1>10. CASE RefreshRead(r, d)
  <2> DEFINE next == [Idle EXCEPT !.pc = "sync", !.doc = d, !.ecf = inv[d].ecfId]
  <2>1. next \in Request /\ next.pc = "sync" /\ next.doc = d /\ next.ecf = inv[d].ecfId
    BY <1>4 DEF Idle, Request, Pcs, EcfStates
  <2>2. Begin(r, next) /\ UNCHANGED <<inv, ecf>>
    BY <1>10 DEF RefreshRead
  <2>3. Started("sync", d, inv[d].ecfId)
    BY <2>1, <2>2, BeginEffect
  <2> QED
    BY <1>2, <1>10, <2>3 DEF RefreshRead
<1> QED
  BY <1>3, <1>5, <1>6, <1>7, <1>8, <1>9, <1>10

(***************************************************************************)
(* The steps that continue a request.  A step that changes only the        *)
(* request is proved by what the request then is; the others also by what  *)
(* they write.                                                             *)
(***************************************************************************)
\* A request that only ends disturbs nothing.
LEMMA EndsIInv ==
    ASSUME IInv, NEW r \in Reqs, Finish(r), UNCHANGED <<inv, ecf>>
    PROVE  IInv'
<1>1. /\ req' \in [Reqs -> Request]
      /\ req'[r].pc = "idle"
      /\ \A q \in Reqs \ {r} : req'[q] = req[q]
  BY FinishEffect DEF IInv, Typed
<1> QED
  BY <1>1 DEF IInv, Typed, TypeOK, RequestsNameThings, ClaimExclusive, HeldReceipts,
     OnlyIssuedHasReceipt, IssuedIsBacked, UsedReceipts, CreditNoteRequests,
     CreditNoteHasIssuedInvoice, ReceiptsNameDocs, SentIsRecorded, Exists, Claimed, HoldsReceipt,
     UsesReceipt

\* Failing to emit keeps the claim until the rollback.
LEMMA GivesUpIInv ==
    ASSUME IInv, NEW r \in Reqs, req[r].pc \in Claimed, GiveUp(r), UNCHANGED <<inv, ecf>>
    PROVE  IInv'
<1>1. /\ req' \in [Reqs -> Request]
      /\ req'[r].pc = "rollback"
      /\ req'[r].doc = req[r].doc
      /\ \A q \in Reqs \ {r} : req'[q] = req[q]
  BY GiveUpEffect DEF IInv, Typed
<1> QED
  BY <1>1 DEF IInv, Typed, TypeOK, RequestsNameThings, ClaimExclusive, HeldReceipts,
     OnlyIssuedHasReceipt, IssuedIsBacked, UsedReceipts, CreditNoteRequests,
     CreditNoteHasIssuedInvoice, ReceiptsNameDocs, SentIsRecorded, Exists, Claimed, HoldsReceipt,
     UsesReceipt

\* A restart forgets the requests and keeps both tables.
LEMMA RestartIInv ==
    ASSUME IInv, Restart
    PROVE  IInv'
<1>1. /\ req' \in [Reqs -> Request]
      /\ \A r \in Reqs : req'[r].pc = "idle"
  BY IdleTyped DEF Restart, Idle
<1> QED
  BY <1>1 DEF Restart, IInv, Typed, TypeOK, RequestsNameThings, ClaimExclusive, HeldReceipts,
     OnlyIssuedHasReceipt, IssuedIsBacked, UsedReceipts, CreditNoteRequests,
     CreditNoteHasIssuedInvoice, ReceiptsNameDocs, SentIsRecorded, Exists, Claimed, HoldsReceipt,
     UsesReceipt

\* A step that writes only amounts or the receipt's state in a row, or only
\* moves its request on, to a place that depends on nothing else.
LEMMA QuietIInv ==
    ASSUME IInv, NEW r \in Reqs, NEW label \in {"cn_insert", "save_lines", "patch", "idle"},
           req[r].pc # "idle",
           label = "cn_insert" => req[r].pc = "cn_sum",
           UNCHANGED ecf,
           inv' \in [Docs -> Invoice],
           \A c \in Docs : /\ inv'[c].status = inv[c].status
                          /\ inv'[c].related = inv[c].related
                          /\ inv'[c].ecfId = inv[c].ecfId,
           req' \in [Reqs -> Request],
           req'[r].pc = label,
           label # "idle" => req'[r].doc = req[r].doc,
           \A q \in Reqs \ {r} : req'[q] = req[q]
    PROVE  IInv'
<1> USE DEF IInv
<1>1. Typed'
  BY DEF Typed, TypeOK, RequestsNameThings, HoldsReceipt, UsesReceipt
<1>2. ClaimExclusive'
  BY DEF Typed, RequestsNameThings, ClaimExclusive, Claimed
<1>3. HeldReceipts'
  BY DEF HeldReceipts, HoldsReceipt
<1>4. OnlyIssuedHasReceipt'
  BY DEF OnlyIssuedHasReceipt
<1>5. IssuedIsBacked'
  BY DEF IssuedIsBacked
<1>6. UsedReceipts'
  BY DEF Typed, RequestsNameThings, UsedReceipts, UsesReceipt
<1>7. CreditNoteRequests'
  BY DEF Typed, RequestsNameThings, CreditNoteRequests
<1>8. CreditNoteHasIssuedInvoice'
  BY DEF Invoice, CreditNoteHasIssuedInvoice, Exists
<1>9. ReceiptsNameDocs'
  BY DEF ReceiptsNameDocs
<1>10. SentIsRecorded'
  BY DEF SentIsRecorded, ReceiptsNameDocs, Sent
<1> QED
  BY <1>1, <1>2, <1>3, <1>4, <1>5, <1>6, <1>7, <1>8, <1>9, <1>10

\* A step that only reads a receipt its document has recorded.
LEMMA ReadsIInv ==
    ASSUME IInv, NEW r \in Reqs, NEW label \in {"status", "sync_write"},
           req[r].pc \in UsesReceipt,
           UNCHANGED <<inv, ecf>>,
           req' \in [Reqs -> Request],
           req'[r].pc = label,
           req'[r].doc = req[r].doc,
           req'[r].ecf = req[r].ecf,
           label = "status" => ecf[req[r].ecf].state \in Sent,
           \A q \in Reqs \ {r} : req'[q] = req[q]
    PROVE  IInv'
<1> USE DEF IInv
<1>1. Typed'
  BY DEF Typed, TypeOK, RequestsNameThings, UsesReceipt
<1>2. ClaimExclusive'
  BY DEF ClaimExclusive, Claimed
<1>3. HeldReceipts'
  BY DEF HeldReceipts, HoldsReceipt
<1>4. OnlyIssuedHasReceipt'
  BY DEF OnlyIssuedHasReceipt
<1>5. IssuedIsBacked'
  BY DEF IssuedIsBacked
<1>6. UsedReceipts'
  BY DEF UsedReceipts
<1>7. CreditNoteRequests'
  BY DEF CreditNoteRequests
<1>8. CreditNoteHasIssuedInvoice'
  BY DEF CreditNoteHasIssuedInvoice, Exists
<1>9. ReceiptsNameDocs'
  BY DEF ReceiptsNameDocs
<1>10. SentIsRecorded'
  BY DEF SentIsRecorded
<1> QED
  BY <1>1, <1>2, <1>3, <1>4, <1>5, <1>6, <1>7, <1>8, <1>9, <1>10

\* A recorded receipt is sent to DGII, or answered by it.
LEMMA SendsIInv ==
    ASSUME IInv, NEW r \in Reqs, NEW label \in {"idle", "sync", "sync_write"},
           req[r].pc \in UsesReceipt,
           UNCHANGED inv,
           ecf' \in [Ecfs -> Receipt],
           ecf'[req[r].ecf].state \in {"transmitted", "resolved"},
           ecf'[req[r].ecf].doc = ecf[req[r].ecf].doc,
           \A f \in Ecfs \ {req[r].ecf} : ecf'[f] = ecf[f],
           req' \in [Reqs -> Request],
           req'[r].pc = label,
           label # "idle" => req'[r].doc = req[r].doc /\ req'[r].ecf = req[r].ecf,
           \A q \in Reqs \ {r} : req'[q] = req[q]
    PROVE  IInv'
<1> USE DEF IInv
<1>1. /\ req[r].doc \in Docs
      /\ req[r].ecf \in Ecfs
      /\ ecf[req[r].ecf].doc = req[r].doc
      /\ ecf[req[r].ecf].state \in Signed
      /\ inv[req[r].doc].ecfId = req[r].ecf \/ inv[req[r].doc].status = "deleted"
  BY DEF Typed, RequestsNameThings, UsedReceipts, UsesReceipt
<1>2. Typed'
  BY DEF Typed, TypeOK, RequestsNameThings, HoldsReceipt, UsesReceipt
<1>3. ClaimExclusive'
  BY DEF ClaimExclusive, Claimed
<1>4. HeldReceipts'
  BY <1>1 DEF Typed, RequestsNameThings, HeldReceipts, HoldsReceipt, Signed
<1>5. OnlyIssuedHasReceipt'
  BY DEF OnlyIssuedHasReceipt
<1>6. IssuedIsBacked'
  BY DEF IssuedIsBacked, Signed
<1>7. UsedReceipts'
  BY DEF Typed, RequestsNameThings, UsedReceipts, UsesReceipt, Signed, Sent
<1>8. CreditNoteRequests'
  BY DEF CreditNoteRequests
<1>9. CreditNoteHasIssuedInvoice'
  BY DEF CreditNoteHasIssuedInvoice, Exists
<1>10. ReceiptsNameDocs'
  BY <1>1 DEF ReceiptsNameDocs
<1>11. SentIsRecorded'
  BY <1>1 DEF SentIsRecorded
<1> QED
  BY <1>2, <1>3, <1>4, <1>5, <1>6, <1>7, <1>8, <1>9, <1>10, <1>11

\* Every later step of a request keeps the invariant.
LEMMA ContinueIInv ==
    ASSUME IInv, NEW r \in Reqs, Continue(r)
    PROVE  IInv'
<1> USE DEF IInv
<1> DEFINE d == req[r].doc
           e == req[r].ecf
           Moved(label) ==
              /\ req' \in [Reqs -> Request]
              /\ req'[r].pc = label
              /\ label # "idle" => req'[r].doc = d
              /\ \A q \in Reqs \ {r} : req'[q] = req[q]
           Kept == req'[r].ecf = e
<1>1. TypeOK
  BY DEF Typed
<1>2. ASSUME NEW label \in Pcs, Goto(r, label)
      PROVE  Moved(label) /\ Kept
  BY <1>1, <1>2, GotoEffect
<1>3. ASSUME Finish(r)
      PROVE  Moved("idle")
  BY <1>1, <1>3, FinishEffect
<1>4. ASSUME GiveUp(r)
      PROVE  Moved("rollback")
  BY <1>1, <1>4, GiveUpEffect
<1>5. req[r].pc # "idle" => d \in Docs
  BY DEF Typed, RequestsNameThings
<1>6. req[r].pc \in HoldsReceipt \cup UsesReceipt => e \in Ecfs
  BY DEF Typed, RequestsNameThings
<1>7. req[r].amount \in Nat /\ req[r].estado \in EcfStates
  BY <1>1 DEF TypeOK, Request
<1>8. \A c \in Docs : inv[c] \in Invoice
  BY <1>1 DEF TypeOK
<1>9. CASE CreditNoteSum(r)
  <2>1. UNCHANGED <<inv, ecf>> /\ req[r].pc = "cn_sum"
    BY <1>9 DEF CreditNoteSum, At
  <2>2. CASE Goto(r, "cn_insert")
    BY <1>1, <1>2, <2>1, <2>2, QuietIInv DEF Pcs, TypeOK
  <2>3. CASE Finish(r)
    BY <2>1, <2>3, EndsIInv
  <2> QED
    BY <1>9, <2>2, <2>3 DEF CreditNoteSum
<1>10. CASE CreditNoteInsert(r)
  <2>1. /\ UNCHANGED ecf
        /\ req[r].pc = "cn_insert"
        /\ Moved("idle")
    BY <1>3, <1>10 DEF CreditNoteInsert, At
  <2>2. CASE Exists(d)
    <3>1. inv[d].status = "issued"
      BY <2>1, <2>2 DEF CreditNoteRequests, Exists, Live
    <3>2. PICK c \in Docs : InsertRow(c, req[r].amount, d)
      BY <1>10, <2>2 DEF CreditNoteInsert
    <3>3. /\ inv' \in [Docs -> Invoice]
          /\ inv[c].status = "none"
          /\ inv'[c].status = "draft"
          /\ inv'[c].related = d
          /\ inv'[c].ecfId = NoEcf
          /\ \A b \in Docs \ {c} : inv'[b] = inv[b]
      BY <1>1, <1>5, <1>7, <2>1, <3>2, InsertEffect
    <3>5. Typed'
      BY <2>1, <3>3 DEF Typed, TypeOK, RequestsNameThings, HoldsReceipt, UsesReceipt
    <3>6. ClaimExclusive'
      BY <2>1, <3>3 DEF Typed, RequestsNameThings, ClaimExclusive, Claimed
    <3>7. HeldReceipts'
      BY <2>1 DEF HeldReceipts, HoldsReceipt
    <3>8. OnlyIssuedHasReceipt'
      BY <3>3 DEF OnlyIssuedHasReceipt
    <3>9. IssuedIsBacked'
      BY <2>1, <3>3 DEF IssuedIsBacked
    <3>10. UsedReceipts'
      BY <2>1, <3>3 DEF Typed, RequestsNameThings, UsedReceipts, UsesReceipt,
             OnlyIssuedHasReceipt
    <3>11. CreditNoteRequests'
      BY <2>1, <3>3 DEF Typed, RequestsNameThings, CreditNoteRequests
    <3>12. CreditNoteHasIssuedInvoice'
      BY <3>1, <3>3 DEF Invoice, CreditNoteHasIssuedInvoice, Exists
    <3>13. ReceiptsNameDocs'
      BY <2>1 DEF ReceiptsNameDocs
    <3>14. SentIsRecorded'
      BY <2>1, <3>3 DEF SentIsRecorded, ReceiptsNameDocs, Sent, OnlyIssuedHasReceipt
    <3> QED
      BY <3>5, <3>6, <3>7, <3>8, <3>9, <3>10, <3>11, <3>12, <3>13, <3>14
  <2>3. CASE ~Exists(d)
    BY <1>10, <2>3, EndsIInv DEF CreditNoteInsert
  <2> QED
    BY <2>2, <2>3
<1>11. CASE UpdateDeleteLines(r)
  <2> DEFINE row == [inv[d] EXCEPT !.lines = 0]
  <2>1. UNCHANGED ecf /\ req[r].pc = "del_lines" /\ UpdateRow(d, row)
    BY <1>11 DEF UpdateDeleteLines, At
  <2>2. d \in Docs
    BY <1>5, <2>1
  <2>3. /\ row \in Invoice
        /\ row.status = inv[d].status
        /\ row.related = inv[d].related
        /\ row.ecfId = inv[d].ecfId
    BY <1>8, <2>2 DEF Invoice
  <2>4. /\ inv' \in [Docs -> Invoice]
        /\ \A c \in Docs : /\ inv'[c].status = inv[c].status
                           /\ inv'[c].related = inv[c].related
                           /\ inv'[c].ecfId = inv[c].ecfId
    <3> HIDE DEF row
    <3> QED
      BY <1>1, <2>1, <2>2, <2>3, RowEffect
  <2>5. Moved("save_lines")
    BY <1>2, <1>11 DEF UpdateDeleteLines, Pcs
  <2> QED
    BY <2>1, <2>4, <2>5, QuietIInv
<1>12. CASE UpdateSaveLines(r)
  <2> DEFINE row == [inv[d] EXCEPT !.lines = @ + req[r].amount]
  <2>1. UNCHANGED ecf /\ req[r].pc = "save_lines" /\ UpdateRow(d, row)
    BY <1>12 DEF UpdateSaveLines, At
  <2>2. d \in Docs
    BY <1>5, <2>1
  <2>3. /\ row \in Invoice
        /\ row.status = inv[d].status
        /\ row.related = inv[d].related
        /\ row.ecfId = inv[d].ecfId
    BY <1>7, <1>8, <2>2 DEF Invoice
  <2>4. /\ inv' \in [Docs -> Invoice]
        /\ \A c \in Docs : /\ inv'[c].status = inv[c].status
                           /\ inv'[c].related = inv[c].related
                           /\ inv'[c].ecfId = inv[c].ecfId
    <3> HIDE DEF row
    <3> QED
      BY <1>1, <2>1, <2>2, <2>3, RowEffect
  <2>5. Moved("patch") \/ Moved("idle")
    BY <1>2, <1>3, <1>12 DEF UpdateSaveLines, Pcs
  <2> QED
    BY <2>1, <2>4, <2>5, QuietIInv
<1>13. CASE UpdatePatch(r)
  <2> DEFINE row == [inv[d] EXCEPT !.total = req[r].amount]
  <2>1. UNCHANGED ecf /\ req[r].pc = "patch" /\ UpdateRow(d, row)
    BY <1>13 DEF UpdatePatch, At
  <2>2. d \in Docs
    BY <1>5, <2>1
  <2>3. /\ row \in Invoice
        /\ row.status = inv[d].status
        /\ row.related = inv[d].related
        /\ row.ecfId = inv[d].ecfId
    BY <1>7, <1>8, <2>2 DEF Invoice
  <2>4. /\ inv' \in [Docs -> Invoice]
        /\ \A c \in Docs : /\ inv'[c].status = inv[c].status
                           /\ inv'[c].related = inv[c].related
                           /\ inv'[c].ecfId = inv[c].ecfId
    <3> HIDE DEF row
    <3> QED
      BY <1>1, <2>1, <2>2, <2>3, RowEffect
  <2>5. Moved("idle")
    BY <1>3, <1>13 DEF UpdatePatch
  <2> QED
    BY <2>1, <2>4, <2>5, QuietIInv
<1>14. CASE SyncWrite(r)
  <2> DEFINE row == [inv[d] EXCEPT !.estado = req[r].estado]
  <2>1. UNCHANGED ecf /\ req[r].pc = "sync_write" /\ UpdateRow(d, row)
    BY <1>14 DEF SyncWrite, At
  <2>2. d \in Docs
    BY <1>5, <2>1
  <2>3. /\ row \in Invoice
        /\ row.status = inv[d].status
        /\ row.related = inv[d].related
        /\ row.ecfId = inv[d].ecfId
    BY <1>7, <1>8, <2>2 DEF Invoice
  <2>4. /\ inv' \in [Docs -> Invoice]
        /\ \A c \in Docs : /\ inv'[c].status = inv[c].status
                           /\ inv'[c].related = inv[c].related
                           /\ inv'[c].ecfId = inv[c].ecfId
    <3> HIDE DEF row
    <3> QED
      BY <1>1, <2>1, <2>2, <2>3, RowEffect
  <2>5. Moved("idle")
    BY <1>3, <1>14 DEF SyncWrite
  <2> QED
    BY <2>1, <2>4, <2>5, QuietIInv
<1>15. CASE RemoveDelete(r)
  <2> DEFINE row == [NoInvoice EXCEPT !.status = "deleted"]
  <2>1. UNCHANGED ecf /\ req[r].pc = "delete" /\ Finish(r)
    BY <1>15 DEF RemoveDelete, At
  <2>2. CASE UNCHANGED inv
    BY <2>1, <2>2, EndsIInv
  <2>3. CASE CreditNotesOf(d) = {} /\ UpdateRow(d, row)
    <3>1. row \in Invoice /\ row.status = "deleted" /\ row.related = NoDoc /\ row.ecfId = NoEcf
      BY DEF NoInvoice, Invoice, InvoiceStatus, EcfStates
    <3>2. d \in Docs /\ Moved("idle")
      BY <1>3, <1>5, <2>1
    <3>3. /\ inv' \in [Docs -> Invoice]
          /\ inv'[d] = IF Exists(d) THEN row ELSE inv[d]
          /\ \A c \in Docs \ {d} : inv'[c] = inv[c]
      <4> HIDE DEF row
      <4> QED
        BY <1>1, <2>3, <3>1, <3>2, RowEffect
    <3>4. CASE ~Exists(d)
      <4>1. inv' = inv
        BY <2>3, <3>4 DEF UpdateRow
      <4> QED
        BY <2>1, <4>1, EndsIInv
    <3>5. CASE Exists(d)
      <4>1. \A c \in Docs : Exists(c) => inv[c].related # d
        BY <2>3 DEF CreditNotesOf
      <4>2. inv'[d].status = "deleted" /\ inv'[d].related = NoDoc /\ inv'[d].ecfId = NoEcf
        BY <3>1, <3>3, <3>5
      <4> HIDE DEF row
      <4>3. Typed'
        BY <2>1, <3>2, <3>3 DEF Typed, TypeOK, RequestsNameThings, HoldsReceipt, UsesReceipt
      <4>4. ClaimExclusive'
        BY <3>2, <3>3, <4>2 DEF Typed, RequestsNameThings, ClaimExclusive, Claimed
      <4>5. HeldReceipts'
        BY <2>1, <3>2 DEF HeldReceipts, HoldsReceipt
      <4>6. OnlyIssuedHasReceipt'
        BY <3>3, <4>2 DEF OnlyIssuedHasReceipt
      <4>7. IssuedIsBacked'
        BY <2>1, <3>3, <4>2 DEF IssuedIsBacked
      <4>8. UsedReceipts'
        BY <2>1, <3>2, <3>3, <4>2 DEF Typed, RequestsNameThings, UsedReceipts, UsesReceipt
      <4>9. CreditNoteRequests'
        BY <3>2, <3>3, <4>2 DEF Typed, RequestsNameThings, CreditNoteRequests
      <4>10. CreditNoteHasIssuedInvoice'
        BY <3>3, <4>1, <4>2 DEF Invoice, CreditNoteHasIssuedInvoice, Exists
      <4>11. ReceiptsNameDocs'
        BY <2>1 DEF ReceiptsNameDocs
      <4>12. SentIsRecorded'
        BY <2>1, <3>3, <4>2 DEF SentIsRecorded, ReceiptsNameDocs, Sent
      <4> QED
        BY <4>3, <4>4, <4>5, <4>6, <4>7, <4>8, <4>9, <4>10, <4>11, <4>12
    <3> QED
      BY <3>4, <3>5
  <2> QED
    BY <1>15, <2>2, <2>3 DEF RemoveDelete
<1>16. CASE EmitClaim(r)
  <2>1. UNCHANGED ecf /\ req[r].pc = "claim" /\ d \in Docs
    BY <1>5, <1>16 DEF EmitClaim, At
  <2>2. CASE inv[d].status # "draft"
    BY <1>16, <2>2, EndsIInv DEF EmitClaim
  <2>3. CASE inv[d].status = "draft"
    <3> DEFINE row == [inv[d] EXCEPT !.status = "emitting"]
    <3>1. /\ row \in Invoice
          /\ row.status = "emitting"
          /\ row.related = inv[d].related
          /\ row.ecfId = inv[d].ecfId
      BY <1>8, <2>1 DEF Invoice, InvoiceStatus, Live
    <3>2. Moved("create") /\ inv' = [inv EXCEPT ![d] = row]
      BY <1>2, <1>16, <2>3 DEF EmitClaim, Pcs, Claimed
    <3>3. /\ inv' \in [Docs -> Invoice]
          /\ inv'[d] = row
          /\ \A c \in Docs \ {d} : inv'[c] = inv[c]
      <4> HIDE DEF row
      <4> QED
        BY <1>1, <2>1, <3>1, <3>2 DEF TypeOK
    <3> HIDE DEF row
    <3>5. Typed'
      BY <2>1, <3>1, <3>2 DEF Typed, TypeOK, RequestsNameThings, HoldsReceipt, UsesReceipt
    <3>6. ClaimExclusive'
      BY <2>3, <3>1, <3>2, <3>3 DEF ClaimExclusive
    <3>7. HeldReceipts'
      BY <2>1, <3>2 DEF HeldReceipts, HoldsReceipt
    <3>8. OnlyIssuedHasReceipt'
      BY <2>3, <3>1, <3>2 DEF OnlyIssuedHasReceipt
    <3>9. IssuedIsBacked'
      BY <2>1, <3>1, <3>2 DEF IssuedIsBacked
    <3>10. UsedReceipts'
      BY <2>1, <2>3, <3>1, <3>2 DEF UsedReceipts, UsesReceipt
    <3>11. CreditNoteRequests'
      BY <2>3, <3>2 DEF CreditNoteRequests
    <3>12. CreditNoteHasIssuedInvoice'
      BY <2>3, <3>1, <3>2 DEF CreditNoteHasIssuedInvoice, Exists, Live
    <3>13. ReceiptsNameDocs'
      BY <2>1 DEF ReceiptsNameDocs
    <3>14. SentIsRecorded'
      BY <2>1, <2>3, <3>1, <3>2 DEF SentIsRecorded
    <3> QED
      BY <3>5, <3>6, <3>7, <3>8, <3>9, <3>10, <3>11, <3>12, <3>13, <3>14
  <2> QED
    BY <2>2, <2>3
<1>17. CASE EmitCreate(r)
  <2>1. UNCHANGED inv /\ req[r].pc = "create" /\ d \in Docs
    BY <1>5, <1>17 DEF EmitCreate, At
  <2>2. CASE GiveUp(r) /\ UNCHANGED ecf
    BY <2>1, <2>2, GivesUpIInv DEF Claimed
  <2>3. ASSUME NEW f \in Ecfs, ecf[f].state = "absent",
               ecf' = [ecf EXCEPT ![f] = [state |-> "created", doc |-> d, amount |-> req[r].amount]],
               \/ req' = [req EXCEPT ![r] = [req[r] EXCEPT !.pc = "validate", !.ecf = f, !.amount = 0]]
               \/ GiveUp(r)
        PROVE  IInv'
    <3>1. /\ ecf' \in [Ecfs -> Receipt]
          /\ ecf'[f].state = "created"
          /\ ecf'[f].doc = d
          /\ \A g \in Ecfs \ {f} : ecf'[g] = ecf[g]
      <4> DEFINE x == [state |-> "created", doc |-> d, amount |-> req[r].amount]
      <4>1. x \in Receipt /\ x.state = "created" /\ x.doc = d
        BY <1>7, <2>1 DEF Receipt, EcfStates
      <4> QED
        BY <1>1, <2>3, <4>1, ReceiptEffect
    <3>2. \/ Moved("rollback")
          \/ Moved("validate") /\ req'[r].ecf = f
      <4> DEFINE next == [req[r] EXCEPT !.pc = "validate", !.ecf = f, !.amount = 0]
      <4>1. CASE req' = [req EXCEPT ![r] = next]
        <5>1. next \in Request /\ next.pc = "validate" /\ next.ecf = f /\ next.doc = d
          BY <1>1 DEF TypeOK, Request, Pcs, Claimed
        <5> HIDE DEF next
        <5> QED
          BY <1>1, <4>1, <5>1 DEF TypeOK
      <4> QED
        BY <1>4, <2>3, <4>1
    <3>3. \A q \in Reqs : req[q].pc \in HoldsReceipt \cup UsesReceipt => req[q].ecf # f
      BY <2>3 DEF HeldReceipts, UsedReceipts, HoldsReceipt, Signed
    <3>4. Typed'
      BY <2>1, <3>1, <3>2 DEF Typed, TypeOK, RequestsNameThings, HoldsReceipt, UsesReceipt
    <3>5. ClaimExclusive'
      BY <2>1, <3>2 DEF ClaimExclusive, Claimed
    <3>6. HeldReceipts'
      BY <2>3, <3>1, <3>2, <3>3 DEF HeldReceipts, HoldsReceipt
    <3>7. OnlyIssuedHasReceipt'
      BY <2>1 DEF OnlyIssuedHasReceipt
    <3>8. IssuedIsBacked'
      BY <2>1, <2>3 DEF IssuedIsBacked, Signed
    <3>9. UsedReceipts'
      BY <2>1, <2>3, <3>2, <3>3 DEF UsedReceipts, UsesReceipt
    <3>10. CreditNoteRequests'
      BY <2>1, <3>2 DEF CreditNoteRequests
    <3>11. CreditNoteHasIssuedInvoice'
      BY <2>1 DEF CreditNoteHasIssuedInvoice, Exists
    <3>12. ReceiptsNameDocs'
      BY <2>1, <2>3 DEF ReceiptsNameDocs
    <3>13. SentIsRecorded'
      BY <2>1, <2>3 DEF SentIsRecorded, Sent
    <3> QED
      BY <3>4, <3>5, <3>6, <3>7, <3>8, <3>9, <3>10, <3>11, <3>12, <3>13
  <2> QED
    BY <1>17, <2>2, <2>3 DEF EmitCreate, Call
<1>18. CASE EmitValidate(r)
  <2> DEFINE x == [ecf[e] EXCEPT !.state = "validated"]
  <2>1. UNCHANGED inv /\ req[r].pc = "validate" /\ d \in Docs /\ e \in Ecfs
    BY <1>5, <1>6, <1>18 DEF EmitValidate, At, HoldsReceipt
  <2>2. CASE GiveUp(r) /\ UNCHANGED ecf
    BY <2>1, <2>2, GivesUpIInv DEF Claimed
  <2>3. CASE ecf' = [ecf EXCEPT ![e] = x] /\ (Goto(r, "sign") \/ GiveUp(r))
    <3>1. x \in Receipt /\ x.state = "validated" /\ x.doc = ecf[e].doc
      BY <1>1, <2>1, StateEffect DEF EcfStates
    <3>2. /\ ecf' \in [Ecfs -> Receipt]
          /\ ecf'[e] = x
          /\ \A g \in Ecfs \ {e} : ecf'[g] = ecf[g]
      <4> HIDE DEF x
      <4> QED
        BY <1>1, <2>1, <2>3, <3>1, ReceiptEffect
    <3>3. \/ Moved("rollback")
          \/ Moved("sign") /\ Kept
      BY <1>2, <1>4, <2>3 DEF Pcs, Claimed
    <3>4. /\ \A q \in Reqs \ {r} : req[q].pc \in HoldsReceipt \cup UsesReceipt => req[q].ecf # e
          /\ \A c \in Docs : inv[c].status = "issued" => inv[c].ecfId # e
          /\ ecf[e].doc = d
      <4>1. ecf[e].state \notin Signed /\ ecf[e].doc = d
        BY <2>1 DEF HeldReceipts, HoldsReceipt, Signed
      <4> QED
        BY <2>1, <4>1 DEF HeldReceipts, UsedReceipts, HoldsReceipt, ClaimExclusive, Claimed,
           IssuedIsBacked
    <3> HIDE DEF x
    <3>5. Typed'
      BY <2>1, <3>2, <3>3 DEF Typed, TypeOK, RequestsNameThings, HoldsReceipt, UsesReceipt
    <3>6. ClaimExclusive'
      BY <2>1, <3>3 DEF ClaimExclusive, Claimed
    <3>7. HeldReceipts'
      BY <3>1, <3>2, <3>3, <3>4 DEF Typed, RequestsNameThings, HeldReceipts, HoldsReceipt
    <3>8. OnlyIssuedHasReceipt'
      BY <2>1 DEF OnlyIssuedHasReceipt
    <3>9. IssuedIsBacked'
      BY <2>1, <3>2, <3>4 DEF IssuedIsBacked
    <3>10. UsedReceipts'
      BY <2>1, <3>2, <3>3, <3>4 DEF Typed, RequestsNameThings, UsedReceipts, UsesReceipt
    <3>11. CreditNoteRequests'
      BY <2>1, <3>3 DEF CreditNoteRequests
    <3>12. CreditNoteHasIssuedInvoice'
      BY <2>1 DEF CreditNoteHasIssuedInvoice, Exists
    <3>13. ReceiptsNameDocs'
      BY <2>1, <3>1, <3>2, <3>4 DEF ReceiptsNameDocs
    <3>14. SentIsRecorded'
      BY <2>1, <3>1, <3>2 DEF SentIsRecorded, Sent
    <3> QED
      BY <3>5, <3>6, <3>7, <3>8, <3>9, <3>10, <3>11, <3>12, <3>13, <3>14
  <2> QED
    BY <1>18, <2>2, <2>3 DEF EmitValidate, Call
<1>19. CASE EmitSign(r)
  <2> DEFINE x == [ecf[e] EXCEPT !.state = "signed"]
  <2>1. UNCHANGED inv /\ req[r].pc = "sign" /\ d \in Docs /\ e \in Ecfs
    BY <1>5, <1>6, <1>19 DEF EmitSign, At, HoldsReceipt
  <2>2. CASE GiveUp(r) /\ UNCHANGED ecf
    BY <2>1, <2>2, GivesUpIInv DEF Claimed
  <2>3. CASE ecf' = [ecf EXCEPT ![e] = x] /\ (Goto(r, "fetch") \/ GiveUp(r))
    <3>1. x \in Receipt /\ x.state = "signed" /\ x.doc = ecf[e].doc
      BY <1>1, <2>1, StateEffect DEF EcfStates
    <3>2. /\ ecf' \in [Ecfs -> Receipt]
          /\ ecf'[e] = x
          /\ \A g \in Ecfs \ {e} : ecf'[g] = ecf[g]
      <4> HIDE DEF x
      <4> QED
        BY <1>1, <2>1, <2>3, <3>1, ReceiptEffect
    <3>3. \/ Moved("rollback")
          \/ Moved("fetch") /\ Kept
      BY <1>2, <1>4, <2>3 DEF Pcs, Claimed
    <3>4. /\ \A q \in Reqs \ {r} : req[q].pc \in HoldsReceipt \cup UsesReceipt => req[q].ecf # e
          /\ \A c \in Docs : inv[c].status = "issued" => inv[c].ecfId # e
          /\ ecf[e].doc = d
      <4>1. ecf[e].state \notin Signed /\ ecf[e].doc = d
        BY <2>1 DEF HeldReceipts, HoldsReceipt, Signed
      <4> QED
        BY <2>1, <4>1 DEF HeldReceipts, UsedReceipts, HoldsReceipt, ClaimExclusive, Claimed,
           IssuedIsBacked
    <3> HIDE DEF x
    <3>5. Typed'
      BY <2>1, <3>2, <3>3 DEF Typed, TypeOK, RequestsNameThings, HoldsReceipt, UsesReceipt
    <3>6. ClaimExclusive'
      BY <2>1, <3>3 DEF ClaimExclusive, Claimed
    <3>7. HeldReceipts'
      BY <3>1, <3>2, <3>3, <3>4
         DEF Typed, RequestsNameThings, HeldReceipts, HoldsReceipt, Signed
    <3>8. OnlyIssuedHasReceipt'
      BY <2>1 DEF OnlyIssuedHasReceipt
    <3>9. IssuedIsBacked'
      BY <2>1, <3>2, <3>4 DEF IssuedIsBacked
    <3>10. UsedReceipts'
      BY <2>1, <3>2, <3>3, <3>4 DEF Typed, RequestsNameThings, UsedReceipts, UsesReceipt
    <3>11. CreditNoteRequests'
      BY <2>1, <3>3 DEF CreditNoteRequests
    <3>12. CreditNoteHasIssuedInvoice'
      BY <2>1 DEF CreditNoteHasIssuedInvoice, Exists
    <3>13. ReceiptsNameDocs'
      BY <2>1, <3>1, <3>2, <3>4 DEF ReceiptsNameDocs
    <3>14. SentIsRecorded'
      BY <2>1, <3>1, <3>2 DEF SentIsRecorded, Sent
    <3> QED
      BY <3>5, <3>6, <3>7, <3>8, <3>9, <3>10, <3>11, <3>12, <3>13, <3>14
  <2> QED
    BY <1>19, <2>2, <2>3 DEF EmitSign, Call
<1>20. ASSUME NEW label \in Pcs, NEW state \in EcfStates, Learn(r, label, state)
      PROVE  Moved(label) /\ Kept
  BY <1>1, <1>20, LearnEffect
<1>21. CASE EmitFetch(r)
  <2>1. UNCHANGED <<inv, ecf>> /\ req[r].pc = "fetch" /\ d \in Docs /\ e \in Ecfs
    BY <1>5, <1>6, <1>21 DEF EmitFetch, At, HoldsReceipt
  <2>2. CASE GiveUp(r)
    BY <2>1, <2>2, GivesUpIInv DEF Claimed
  <2>3. CASE Learn(r, "commit", ecf[e].state)
    <3>1. ecf[e].state \in EcfStates
      BY <1>1, <2>1 DEF TypeOK, Receipt
    <3>2. Moved("commit") /\ Kept
      BY <1>20, <2>3, <3>1 DEF Pcs, Claimed
    <3>3. Typed'
      BY <2>1, <3>2 DEF Typed, TypeOK, RequestsNameThings
    <3>4. ClaimExclusive'
      BY <2>1, <3>2 DEF ClaimExclusive, Claimed
    <3>5. HeldReceipts'
      BY <2>1, <3>2 DEF HeldReceipts, HoldsReceipt
    <3>6. OnlyIssuedHasReceipt'
      BY <2>1 DEF OnlyIssuedHasReceipt
    <3>7. IssuedIsBacked'
      BY <2>1 DEF IssuedIsBacked
    <3>8. UsedReceipts'
      BY <2>1, <3>2 DEF UsedReceipts, UsesReceipt
    <3>9. CreditNoteRequests'
      BY <2>1, <3>2 DEF CreditNoteRequests
    <3>10. CreditNoteHasIssuedInvoice'
      BY <2>1 DEF CreditNoteHasIssuedInvoice, Exists
    <3>11. ReceiptsNameDocs'
      BY <2>1 DEF ReceiptsNameDocs
    <3>12. SentIsRecorded'
      BY <2>1 DEF SentIsRecorded
    <3> QED
      BY <3>3, <3>4, <3>5, <3>6, <3>7, <3>8, <3>9, <3>10, <3>11, <3>12
  <2> QED
    BY <1>21, <2>2, <2>3 DEF EmitFetch
<1>22. CASE EmitRollback(r)
  <2> DEFINE row == [inv[d] EXCEPT !.status = "draft"]
  <2>1. UNCHANGED ecf /\ req[r].pc = "rollback" /\ d \in Docs /\ UpdateRow(d, row)
    BY <1>5, <1>22 DEF EmitRollback, At
  <2>2. Moved("idle")
    BY <1>3, <1>22 DEF EmitRollback
  <2>3. /\ row \in Invoice
        /\ row.status = "draft"
        /\ row.related = inv[d].related
        /\ row.ecfId = inv[d].ecfId
    BY <1>8, <2>1 DEF Invoice, InvoiceStatus, Live
  <2>4. /\ inv' \in [Docs -> Invoice]
        /\ inv'[d] = IF Exists(d) THEN row ELSE inv[d]
        /\ \A c \in Docs \ {d} : inv'[c] = inv[c]
    <3> HIDE DEF row
    <3> QED
      BY <1>1, <2>1, <2>3, RowEffect
  <2>5. /\ \A q \in Reqs \ {r} : req[q].pc \in Claimed => req[q].doc # d
        /\ inv[d].status \in {"emitting", "deleted"}
    BY <2>1 DEF ClaimExclusive, Claimed
  <2>7. inv[d].status = "deleted" => inv'[d] = inv[d]
    BY <2>4 DEF Exists, Live
  <2> HIDE DEF row
  <2>8. Typed'
    BY <2>1, <2>2, <2>4 DEF Typed, TypeOK, RequestsNameThings, HoldsReceipt, UsesReceipt
  <2>9. ClaimExclusive'
    BY <2>1, <2>2, <2>4 DEF Typed, RequestsNameThings, ClaimExclusive, Claimed
  <2>10. HeldReceipts'
    BY <2>1, <2>2 DEF HeldReceipts, HoldsReceipt
  <2>11. OnlyIssuedHasReceipt'
    BY <2>3, <2>4, <2>5 DEF OnlyIssuedHasReceipt
  <2>12. IssuedIsBacked'
    BY <2>1, <2>3, <2>4 DEF IssuedIsBacked
  <2>13. UsedReceipts'
    BY <2>1, <2>2, <2>3, <2>4, <2>7 DEF Typed, RequestsNameThings, UsedReceipts, UsesReceipt
  <2>14. CreditNoteRequests'
    BY <2>2, <2>4, <2>5, <2>7 DEF Typed, RequestsNameThings, CreditNoteRequests
  <2>15. CreditNoteHasIssuedInvoice'
    BY <2>3, <2>4, <2>5 DEF Invoice, CreditNoteHasIssuedInvoice, Exists
  <2>16. ReceiptsNameDocs'
    BY <2>1 DEF ReceiptsNameDocs
  <2>17. SentIsRecorded'
    BY <2>1, <2>3, <2>4, <2>7 DEF SentIsRecorded, ReceiptsNameDocs, Sent
  <2> QED
    BY <2>8, <2>9, <2>10, <2>11, <2>12, <2>13, <2>14, <2>15, <2>16, <2>17
<1>23. CASE EmitCommit(r)
  <2> DEFINE row == [inv[d] EXCEPT !.status = "issued", !.ecfId = e,
                                !.estado = req[r].estado]
  <2>1. UNCHANGED ecf /\ req[r].pc = "commit" /\ d \in Docs /\ UpdateRow(d, row)
    BY <1>5, <1>23 DEF EmitCommit, At
  <2>2. \/ Moved("idle")
        \/ Moved("post") /\ Kept
    <3> DEFINE next == [Idle EXCEPT !.pc = "post", !.doc = d, !.ecf = e]
    <3>1. CASE req' = [req EXCEPT ![r] = next]
      <4>1. next \in Request /\ next.pc = "post" /\ next.doc = d /\ next.ecf = e
        BY <1>1 DEF TypeOK, Idle, Request, Pcs, EcfStates
      <4> HIDE DEF next
      <4> QED
        BY <1>1, <3>1, <4>1 DEF TypeOK
    <3> QED
      BY <1>3, <1>23, <3>1 DEF EmitCommit
  <2>8. e \in Ecfs /\ ecf[e].state \in Signed /\ ecf[e].doc = d
    BY <1>6, <2>1 DEF HeldReceipts, HoldsReceipt
  <2>3. /\ row \in Invoice
        /\ row.status = "issued"
        /\ row.related = inv[d].related
        /\ row.ecfId = e
    BY <1>7, <1>8, <2>1, <2>8 DEF Invoice, InvoiceStatus, Live
  <2>4. /\ inv' \in [Docs -> Invoice]
        /\ inv'[d] = IF Exists(d) THEN row ELSE inv[d]
        /\ \A c \in Docs \ {d} : inv'[c] = inv[c]
    <3> HIDE DEF row
    <3> QED
      BY <1>1, <2>1, <2>3, RowEffect
  <2>5. /\ \A q \in Reqs \ {r} : req[q].pc \in Claimed => req[q].doc # d
        /\ inv[d].status \in {"emitting", "deleted"}
    BY <2>1 DEF ClaimExclusive, Claimed
  <2>6. inv[d].status = "emitting" => inv'[d] = row
    BY <2>4 DEF Exists, Live
  <2>7. inv[d].status = "deleted" => inv'[d] = inv[d]
    BY <2>4 DEF Exists, Live
  <2> HIDE DEF row
  <2>9. Typed'
    BY <2>1, <2>2, <2>4 DEF Typed, TypeOK, RequestsNameThings, HoldsReceipt, UsesReceipt
  <2>10. ClaimExclusive'
    BY <2>1, <2>2, <2>4 DEF Typed, RequestsNameThings, ClaimExclusive, Claimed
  <2>11. HeldReceipts'
    BY <2>1, <2>2 DEF HeldReceipts, HoldsReceipt
  <2>12. OnlyIssuedHasReceipt'
    BY <2>3, <2>4 DEF OnlyIssuedHasReceipt
  <2>13. IssuedIsBacked'
    BY <2>1, <2>3, <2>4, <2>8 DEF IssuedIsBacked
  <2>14. UsedReceipts'
    BY <2>1, <2>2, <2>3, <2>4, <2>5, <2>6, <2>7, <2>8, ConstantsAssumption DEF Typed,
       RequestsNameThings, UsedReceipts, UsesReceipt, OnlyIssuedHasReceipt
  <2>15. CreditNoteRequests'
    BY <2>2, <2>3, <2>4 DEF Typed, RequestsNameThings, CreditNoteRequests
  <2>16. CreditNoteHasIssuedInvoice'
    BY <2>3, <2>4 DEF Invoice, CreditNoteHasIssuedInvoice, Exists
  <2>17. ReceiptsNameDocs'
    BY <2>1 DEF ReceiptsNameDocs
  <2>18. SentIsRecorded'
    BY <2>1, <2>4, <2>5, <2>7, ConstantsAssumption DEF SentIsRecorded, ReceiptsNameDocs, Sent,
       OnlyIssuedHasReceipt
  <2> QED
    BY <2>9, <2>10, <2>11, <2>12, <2>13, <2>14, <2>15, <2>16, <2>17, <2>18
<1>24. CASE TransmitPost(r)
  <2> DEFINE x == [ecf[e] EXCEPT !.state = "transmitted"]
  <2>1. UNCHANGED inv /\ req[r].pc = "post" /\ d \in Docs /\ e \in Ecfs
    BY <1>5, <1>6, <1>24 DEF TransmitPost, At, UsesReceipt
  <2>2. CASE Finish(r) /\ UNCHANGED ecf
    BY <2>1, <2>2, EndsIInv
  <2>3. CASE ecf' = [ecf EXCEPT ![e] = x] /\ (Goto(r, "sync") \/ Finish(r))
    <3>1. x \in Receipt /\ x.state = "transmitted" /\ x.doc = ecf[e].doc
      BY <1>1, <2>1, StateEffect DEF EcfStates
    <3>2. /\ ecf' \in [Ecfs -> Receipt]
          /\ ecf'[e] = x
          /\ \A g \in Ecfs \ {e} : ecf'[g] = ecf[g]
      <4> HIDE DEF x
      <4> QED
        BY <1>1, <2>1, <2>3, <3>1, ReceiptEffect
    <3>3. \/ Moved("idle")
          \/ Moved("sync") /\ Kept
      BY <1>2, <1>3, <2>3 DEF Pcs
    <3> HIDE DEF x
    <3> QED
      BY <2>1, <3>1, <3>2, <3>3, SendsIInv DEF UsesReceipt
  <2> QED
    BY <1>24, <2>2, <2>3 DEF TransmitPost, Call
<1>25. CASE SyncGet(r)
  <2> DEFINE next == IF ecf[e].state = "transmitted" THEN "status" ELSE "sync_write"
  <2>1. UNCHANGED <<inv, ecf>> /\ req[r].pc = "sync" /\ d \in Docs /\ e \in Ecfs
    BY <1>5, <1>6, <1>25 DEF SyncGet, At, UsesReceipt
  <2>2. CASE Finish(r)
    BY <2>1, <2>2, EndsIInv
  <2>3. CASE Learn(r, next, ecf[e].state)
    <3>1. ecf[e].state \in EcfStates
      BY <1>1, <2>1 DEF TypeOK, Receipt
    <3>2. Moved(next) /\ Kept
      BY <1>20, <2>3, <3>1 DEF Pcs
    <3>4. next = "status" => ecf[e].state \in Sent
      BY DEF Sent
    <3> QED
      BY <2>1, <3>2, <3>4, ReadsIInv DEF UsesReceipt
  <2> QED
    BY <1>25, <2>2, <2>3 DEF SyncGet
<1>26. CASE SyncStatus(r)
  <2> DEFINE x == [ecf[e] EXCEPT !.state = "resolved"]
  <2>1. UNCHANGED inv /\ req[r].pc = "status" /\ d \in Docs /\ e \in Ecfs
    BY <1>5, <1>6, <1>26 DEF SyncStatus, At, UsesReceipt
  <2>2. /\ ecf' \in [Ecfs -> Receipt]
        /\ \/ UNCHANGED ecf
           \/ /\ ecf'[e].state = "resolved"
              /\ ecf'[e].doc = ecf[e].doc
              /\ \A g \in Ecfs \ {e} : ecf'[g] = ecf[g]
    <3>1. x \in Receipt /\ x.state = "resolved" /\ x.doc = ecf[e].doc
      BY <1>1, <2>1, StateEffect DEF EcfStates
    <3>2. CASE ecf' = [ecf EXCEPT ![e] = x]
      <4> HIDE DEF x
      <4> QED
        BY <1>1, <2>1, <3>1, <3>2, ReceiptEffect
    <3>3. ecf' = [ecf EXCEPT ![e] = x] \/ UNCHANGED ecf
      BY <1>26 DEF SyncStatus
    <3> QED
      BY <1>1, <3>2, <3>3 DEF TypeOK
  <2>3. Moved("sync_write") /\ Kept
    <3>1. ecf'[e].state \in EcfStates
      BY <2>1, <2>2 DEF Receipt
    <3>2. Learn(r, "sync_write", ecf'[e].state) \/ Goto(r, "sync_write")
      BY <1>26 DEF SyncStatus
    <3> QED
      BY <1>2, <1>20, <3>1, <3>2 DEF Pcs
  <2>4. CASE UNCHANGED ecf
    BY <2>1, <2>3, <2>4, ReadsIInv DEF UsesReceipt
  <2>5. CASE ~UNCHANGED ecf
    BY <2>1, <2>2, <2>3, <2>5, SendsIInv DEF UsesReceipt
  <2> QED
    BY <2>4, <2>5
<1> QED
  BY <1>9, <1>10, <1>11, <1>12, <1>13, <1>14, <1>15, <1>16, <1>17, <1>18, <1>19, <1>21, <1>22,
     <1>23, <1>24, <1>25, <1>26 DEF Continue

\* A document typed by the user: no other row and no request is touched.
LEMMA CreateIInv ==
    ASSUME IInv, NEW d \in Docs, NEW amount \in Amounts, Create(d, amount)
    PROVE  IInv'
<1> USE DEF IInv
<1>1. UNCHANGED <<ecf, req>>
  BY DEF Create
<1>2. /\ inv' \in [Docs -> Invoice]
      /\ inv[d].status = "none"
      /\ inv'[d].status = "draft"
      /\ inv'[d].related = NoDoc
      /\ inv'[d].ecfId = NoEcf
      /\ \A c \in Docs \ {d} : inv'[c] = inv[c]
  BY InsertEffect, ConstantsAssumption DEF Create, Typed
<1>3. Typed'
  BY <1>1, <1>2 DEF Typed, TypeOK, RequestsNameThings
<1>4. ClaimExclusive'
  BY <1>1, <1>2 DEF Typed, RequestsNameThings, ClaimExclusive, Claimed
<1>5. HeldReceipts'
  BY <1>1 DEF HeldReceipts
<1>6. OnlyIssuedHasReceipt'
  BY <1>2 DEF OnlyIssuedHasReceipt
<1>7. IssuedIsBacked'
  BY <1>1, <1>2 DEF IssuedIsBacked
<1>8. UsedReceipts'
  BY <1>1, <1>2 DEF Typed, RequestsNameThings, UsedReceipts, UsesReceipt, OnlyIssuedHasReceipt
<1>9. CreditNoteRequests'
  BY <1>1, <1>2 DEF Typed, RequestsNameThings, CreditNoteRequests
<1>10. CreditNoteHasIssuedInvoice'
  BY <1>2 DEF Invoice, CreditNoteHasIssuedInvoice, Exists
<1>11. ReceiptsNameDocs'
  BY <1>1 DEF ReceiptsNameDocs
<1>12. SentIsRecorded'
  BY <1>1, <1>2 DEF SentIsRecorded, ReceiptsNameDocs, Sent, OnlyIssuedHasReceipt
<1> QED
  BY <1>3, <1>4, <1>5, <1>6, <1>7, <1>8, <1>9, <1>10, <1>11, <1>12

\* The invariant is inductive.
LEMMA NextIInv == IInv /\ [Next]_vars => IInv'
<1> SUFFICES ASSUME IInv, [Next]_vars
             PROVE  IInv'
  OBVIOUS
<1>1. ASSUME NEW d \in Docs, NEW amount \in Amounts, Create(d, amount)
      PROVE  IInv'
  BY <1>1, CreateIInv
<1>2. ASSUME NEW r \in Reqs, Start(r)
      PROVE  IInv'
  BY <1>2, StartIInv
<1>3. ASSUME NEW r \in Reqs, Continue(r)
      PROVE  IInv'
  BY <1>3, ContinueIInv
<1>4. CASE Restart
  BY <1>4, RestartIInv
<1>5. CASE UNCHANGED vars
  BY <1>5 DEF vars, IInv, Typed, TypeOK, RequestsNameThings, ClaimExclusive, HeldReceipts,
     OnlyIssuedHasReceipt, IssuedIsBacked, UsedReceipts, CreditNoteRequests,
     CreditNoteHasIssuedInvoice, ReceiptsNameDocs, SentIsRecorded, Exists
<1> QED
  BY <1>1, <1>2, <1>3, <1>4, <1>5 DEF Next

\* The inductive invariant holds throughout, for any documents, receipts and
\* requests.
THEOREM SpecIInv == Spec => []IInv
BY InitIInv, NextIInv, PTL DEF Spec

(***************************************************************************)
(* What the invariant gives, for any number of documents, receipts and     *)
(* requests, with lost replies and restarts or without them.               *)
(***************************************************************************)
\* Documents, receipts and requests always have their types.
THEOREM SpecTypeOK == Spec => []TypeOK
BY SpecIInv, PTL DEF IInv, Typed

\* The conditional UPDATE of emit keeps emissions of one document apart, and
\* update, remove and a restart never free the document an emission holds.
THEOREM SpecClaimExclusive == Spec => []ClaimExclusive
BY SpecIInv, PTL DEF IInv

\* An issued document has a signed receipt of its own.
THEOREM SpecIssuedIsBacked == Spec => []IssuedIsBacked
BY SpecIInv, PTL DEF IInv

\* A credit note never loses the issued invoice it modifies, although remove
\* checks the invoice's status before another request changes it.
THEOREM SpecCreditNoteHasIssuedInvoice == Spec => []CreditNoteHasIssuedInvoice
BY SpecIInv, PTL DEF IInv

(***************************************************************************)
(* The receipts at ecf-api: no document gets two of them signed while      *)
(* replies are not lost, and the state the ERP saves for a receipt is      *)
(* never ahead of the receipt.  The last part shows that SalesInvoices     *)
(* implements FiscalDocuments: every step of every request is a step of    *)
(* the abstract documents or leaves them as they are.                      *)
(***************************************************************************)
\* Where an emission has no signed receipt yet.
Unsigned == {"create", "validate", "sign", "rollback"}

\* Where a request keeps a state of its receipt that it read earlier.
Remembers == {"commit", "status", "sync_write"}

\* A request that starts has no receipt in the making and remembers no state.
LEMMA StartEffect ==
    ASSUME TypeOK, NEW r \in Reqs, Start(r)
    PROVE  /\ UNCHANGED <<inv, ecf>>
           /\ req'[r].pc \notin Unsigned \cup Remembers
           /\ \A q \in Reqs \ {r} : req'[q] = req[q]
<1> DEFINE Effect == /\ UNCHANGED <<inv, ecf>>
                     /\ req'[r].pc \notin Unsigned \cup Remembers
                     /\ \A q \in Reqs \ {r} : req'[q] = req[q]
<1>1. ASSUME NEW next, next.pc \in {"cn_sum", "del_lines", "delete", "claim", "post", "sync"},
             Begin(r, next), UNCHANGED <<inv, ecf>>
      PROVE  Effect
  BY <1>1 DEF Begin, TypeOK, Unsigned, Remembers
<1>2. PICK d \in Docs :
        \/ \E amount \in Amounts, full \in BOOLEAN : CreditNoteRead(r, d, amount, full)
        \/ \E amount \in Amounts : UpdateRead(r, d, amount)
        \/ RemoveRead(r, d)
        \/ EmitRead(r, d)
        \/ TransmitRead(r, d)
        \/ RefreshRead(r, d)
  BY DEF Start
<1>3. ASSUME NEW amount \in Amounts, NEW full \in BOOLEAN, CreditNoteRead(r, d, amount, full)
      PROVE  Effect
  <2> DEFINE size == IF full THEN inv[d].lines ELSE amount
             total == inv[d].total
             next == [Idle EXCEPT !.pc = "cn_sum", !.doc = d, !.full = full, !.total = total, !.amount = size]
  <2>1. next.pc = "cn_sum"
    <3> HIDE DEF size, total
    <3> QED
      OBVIOUS
  <2>2. Begin(r, next) /\ UNCHANGED <<inv, ecf>>
    BY <1>3 DEF CreditNoteRead
  <2> HIDE DEF next
  <2> QED
    BY <1>1, <2>1, <2>2
<1>4. ASSUME NEW amount \in Amounts, UpdateRead(r, d, amount)
      PROVE  Effect
  <2> DEFINE next == [Idle EXCEPT !.pc = "del_lines", !.doc = d, !.amount = amount]
  <2>1. next.pc = "del_lines"
    OBVIOUS
  <2>2. Begin(r, next) /\ UNCHANGED <<inv, ecf>>
    BY <1>4 DEF UpdateRead
  <2> HIDE DEF next
  <2> QED
    BY <1>1, <2>1, <2>2
<1>5. CASE RemoveRead(r, d)
  <2> DEFINE next == [Idle EXCEPT !.pc = "delete", !.doc = d]
  <2>1. next.pc = "delete"
    OBVIOUS
  <2>2. Begin(r, next) /\ UNCHANGED <<inv, ecf>>
    BY <1>5 DEF RemoveRead
  <2> HIDE DEF next
  <2> QED
    BY <1>1, <2>1, <2>2
<1>6. CASE EmitRead(r, d)
  <2> DEFINE next == [Idle EXCEPT !.pc = "claim", !.doc = d, !.amount = inv[d].lines]
  <2>1. next.pc = "claim"
    OBVIOUS
  <2>2. Begin(r, next) /\ UNCHANGED <<inv, ecf>>
    BY <1>6 DEF EmitRead
  <2> HIDE DEF next
  <2> QED
    BY <1>1, <2>1, <2>2
<1>7. CASE TransmitRead(r, d)
  <2> DEFINE next == [Idle EXCEPT !.pc = "post", !.doc = d, !.ecf = inv[d].ecfId]
  <2>1. next.pc = "post"
    OBVIOUS
  <2>2. Begin(r, next) /\ UNCHANGED <<inv, ecf>>
    BY <1>7 DEF TransmitRead
  <2> HIDE DEF next
  <2> QED
    BY <1>1, <2>1, <2>2
<1>8. CASE RefreshRead(r, d)
  <2> DEFINE next == [Idle EXCEPT !.pc = "sync", !.doc = d, !.ecf = inv[d].ecfId]
  <2>1. next.pc = "sync"
    OBVIOUS
  <2>2. Begin(r, next) /\ UNCHANGED <<inv, ecf>>
    BY <1>8 DEF RefreshRead
  <2> HIDE DEF next
  <2> QED
    BY <1>1, <2>1, <2>2
<1> QED
  BY <1>2, <1>3, <1>4, <1>5, <1>6, <1>7, <1>8

(***************************************************************************)
(* No document has two signed receipts while replies are not lost.         *)
(***************************************************************************)
\* Only the reservation starts an emission, and one that goes on, or fails,
\* keeps its document.
LEMMA StaysUnsigned ==
    ASSUME IInv, NEW r \in Reqs, Continue(r), req'[r].pc \in Unsigned
    PROVE  /\ req'[r].doc = req[r].doc
           /\ req[r].pc \in Unsigned \/ EmitClaim(r) \/ (LostReplies /\ EmitFetch(r))
<1> DEFINE Same == req'[r].doc = req[r].doc
<1>1. TypeOK
  BY DEF IInv, Typed
<1>2. ASSUME NEW label \in Pcs, Goto(r, label)
      PROVE  Same /\ label \in Unsigned
  BY <1>1, <1>2, GotoEffect
<1>3. ~Finish(r)
  BY <1>1, FinishEffect DEF Unsigned
<1>4. GiveUp(r) => Same
  BY <1>1, GiveUpEffect
<1>5. ASSUME NEW label \in Pcs, NEW state \in EcfStates, Learn(r, label, state)
      PROVE  label \in Unsigned
  BY <1>1, <1>5, LearnEffect
<1>6. CASE EmitCreate(r)
  <2>1. At(r, "create")
    BY <1>6 DEF EmitCreate
  <2>2. CASE GiveUp(r)
    BY <1>4, <2>1, <2>2 DEF At, Unsigned
  <2>3. ASSUME NEW f \in Ecfs,
               req' = [req EXCEPT ![r] = [req[r] EXCEPT !.pc = "validate", !.ecf = f, !.amount = 0]]
        PROVE  Same
    BY <2>3
  <2> QED
    BY <1>6, <2>2, <2>3 DEF EmitCreate, Call, At, Unsigned
<1>7. CASE EmitClaim(r) \/ EmitValidate(r) \/ EmitSign(r)
  BY <1>2, <1>3, <1>4, <1>7 DEF EmitClaim, EmitValidate, EmitSign, Call, At, Unsigned, Pcs, Claimed
<1>8. CASE EmitFetch(r)
  <2>1. req[r].ecf \in Ecfs
    BY <1>8 DEF IInv, Typed, RequestsNameThings, HoldsReceipt, EmitFetch, At
  <2>2. ecf[req[r].ecf].state \in EcfStates
    BY <1>1, <2>1 DEF TypeOK, Receipt
  <2> QED
    BY <1>4, <1>5, <1>8, <2>2 DEF EmitFetch, Unsigned, Pcs, Claimed
<1>9. CASE EmitCommit(r)
  <2> DEFINE next == [Idle EXCEPT !.pc = "post", !.doc = req[r].doc, !.ecf = req[r].ecf]
  <2>1. req' = [req EXCEPT ![r] = next]
    BY <1>3, <1>9 DEF EmitCommit
  <2>2. next.pc = "post"
    OBVIOUS
  <2> HIDE DEF next
  <2> QED
    BY <2>1, <2>2 DEF Unsigned
<1>10. CASE SyncGet(r) \/ SyncStatus(r)
  <2> DEFINE e == req[r].ecf
  <2>1. e \in Ecfs
    BY <1>10 DEF IInv, Typed, RequestsNameThings, UsesReceipt, SyncGet, SyncStatus, At
  <2>2. ecf[e].state \in EcfStates
    BY <1>1, <2>1 DEF TypeOK, Receipt
  <2>3. CASE SyncGet(r)
    BY <1>3, <1>5, <2>2, <2>3 DEF SyncGet, Unsigned, Pcs
  <2>4. CASE SyncStatus(r)
    <3>1. ecf'[e].state \in EcfStates
      BY <1>1, <2>1, <2>4 DEF SyncStatus, TypeOK, Receipt, EcfStates
    <3> QED
      BY <1>2, <1>5, <2>4, <3>1 DEF SyncStatus, Unsigned, Pcs
  <2> QED
    BY <1>10, <2>3, <2>4
<1>11. CASE \/ CreditNoteSum(r) \/ CreditNoteInsert(r) \/ UpdateDeleteLines(r) \/ UpdateSaveLines(r)
            \/ UpdatePatch(r) \/ RemoveDelete(r) \/ EmitRollback(r) \/ TransmitPost(r) \/ SyncWrite(r)
  BY <1>2, <1>3, <1>11 DEF CreditNoteSum, CreditNoteInsert, UpdateDeleteLines, UpdateSaveLines,
     UpdatePatch, RemoveDelete, EmitRollback, TransmitPost, SyncWrite, Call, Unsigned, Pcs
<1> QED
  BY <1>6, <1>7, <1>8, <1>9, <1>10, <1>11 DEF Continue

\* A signed receipt's document is not a draft, and no emission under way can
\* sign another for it.
NotSignedYet ==
    \A e \in Ecfs : ecf[e].state \in Signed =>
        /\ inv[ecf[e].doc].status \notin {"none", "draft"}
        /\ \A r \in Reqs : req[r].pc \in Unsigned => req[r].doc # ecf[e].doc

SignedOnce == EmittedOnce /\ NotSignedYet

\* A step that signs nothing, frees no document and starts no emission.
LEMMA QuietOnce ==
    ASSUME IInv, SignedOnce,
           \A e \in Ecfs : ecf'[e].state \in Signed => ecf[e].state \in Signed /\ ecf'[e].doc = ecf[e].doc,
           \A d \in Docs : inv'[d].status \in {"none", "draft"} => inv[d].status \in {"none", "draft"},
           \A q \in Reqs : req'[q].pc \in Unsigned => req[q].pc \in Unsigned /\ req'[q].doc = req[q].doc
    PROVE  SignedOnce'
<1>1. \A e \in Ecfs : ecf[e].state \in Signed => ecf[e].doc \in Docs
  BY DEF IInv, ReceiptsNameDocs, Signed
<1>2. EmittedOnce'
  BY DEF SignedOnce, EmittedOnce
<1>3. NotSignedYet'
  BY <1>1 DEF SignedOnce, NotSignedYet
<1> QED
  BY <1>2, <1>3 DEF SignedOnce

\* A request leaves the other requests as they are.
LEMMA OthersKept ==
    ASSUME TypeOK, NEW r \in Reqs, Continue(r)
    PROVE  \A q \in Reqs \ {r} : req'[q] = req[q]
<1>1. ASSUME NEW next, req' = [req EXCEPT ![r] = next]
      PROVE  \A q \in Reqs \ {r} : req'[q] = req[q]
  BY <1>1
<1>2. \E next : req' = [req EXCEPT ![r] = next]
  <2>1. ASSUME NEW label, Goto(r, label)
        PROVE  \E next : req' = [req EXCEPT ![r] = next]
    <3>1. req' = [req EXCEPT ![r] = [req[r] EXCEPT !.pc = label]]
      BY <2>1 DEF Goto
    <3> QED
      BY <3>1
  <2>2. ASSUME NEW label, NEW state, Learn(r, label, state)
        PROVE  \E next : req' = [req EXCEPT ![r] = next]
    BY <2>2 DEF Learn
  <2>3. Finish(r) \/ GiveUp(r) => \E next : req' = [req EXCEPT ![r] = next]
    BY DEF Finish, GiveUp
  <2>4. CASE EmitCreate(r) \/ EmitCommit(r)
    BY <2>3, <2>4 DEF EmitCreate, EmitCommit, Call
  <2>5. CASE \/ CreditNoteSum(r) \/ CreditNoteInsert(r) \/ UpdateDeleteLines(r)
             \/ UpdateSaveLines(r) \/ UpdatePatch(r) \/ RemoveDelete(r)
    BY <2>1, <2>3, <2>5 DEF CreditNoteSum, CreditNoteInsert, UpdateDeleteLines, UpdateSaveLines,
       UpdatePatch, RemoveDelete
  <2>6. CASE \/ EmitClaim(r) \/ EmitValidate(r) \/ EmitSign(r) \/ EmitFetch(r) \/ EmitRollback(r)
    BY <2>1, <2>2, <2>3, <2>6 DEF EmitClaim, EmitValidate, EmitSign, EmitFetch, EmitRollback, Call
  <2>7. CASE TransmitPost(r) \/ SyncGet(r) \/ SyncStatus(r) \/ SyncWrite(r)
    BY <2>1, <2>2, <2>3, <2>7 DEF TransmitPost, SyncGet, SyncStatus, SyncWrite, Call
  <2> QED
    BY <2>4, <2>5, <2>6, <2>7 DEF Continue
<1> QED
  BY <1>2

\* What a step writes in the documents: only the rollback of an emission makes
\* a draft of a document that was not, and what an issued document says of its
\* receipt is what it said or what the request remembers.
LEMMA RowsWritten ==
    ASSUME IInv, NEW r \in Reqs, Continue(r), NEW c \in Docs
    PROVE  /\ inv'[c].status \in {"none", "draft"} =>
                inv[c].status \in {"none", "draft"} \/ EmitRollback(r)
           /\ inv'[c].status = "issued" =>
                \/ /\ inv[c].status = "issued"
                   /\ inv'[c].ecfId = inv[c].ecfId
                   /\ inv'[c].estado = inv[c].estado
                \/ /\ req[r].pc \in {"commit", "sync_write"}
                   /\ inv'[c].ecfId = req[r].ecf
                   /\ inv'[c].estado = req[r].estado
<1> DEFINE d == req[r].doc
           Freed(old, new) == new.status \in {"none", "draft"} =>
                                 old.status \in {"none", "draft"} \/ EmitRollback(r)
           Said(old, new) == new.status = "issued" =>
                                 \/ /\ old.status = "issued"
                                    /\ new.ecfId = old.ecfId
                                    /\ new.estado = old.estado
                                 \/ /\ req[r].pc \in {"commit", "sync_write"}
                                    /\ new.ecfId = req[r].ecf
                                    /\ new.estado = req[r].estado
           Written == Freed(inv[c], inv'[c]) /\ Said(inv[c], inv'[c])
<1>1. TypeOK /\ (req[r].pc # "idle" => d \in Docs)
  BY DEF IInv, Typed, RequestsNameThings
<1>3. CASE UNCHANGED inv
  BY <1>3
<1>4. ASSUME NEW row, UpdateRow(d, row), d \in Docs, Freed(inv[d], row), Said(inv[d], row)
      PROVE  Written
  BY <1>4 DEF UpdateRow
<1>5. CASE CreditNoteInsert(r)
  <2>1. ASSUME NEW b \in Docs, InsertRow(b, req[r].amount, d)
        PROVE  Written
    <3> DEFINE row == [NoInvoice EXCEPT !.status = "draft", !.related = d,
                                        !.lines = req[r].amount, !.total = req[r].amount]
    <3>1. inv' = [inv EXCEPT ![b] = row] /\ inv[b].status = "none"
      BY <2>1 DEF InsertRow
    <3>2. row.status = "draft"
      OBVIOUS
    <3> HIDE DEF row
    <3> QED
      BY <3>1, <3>2
  <2> QED
    BY <1>5, <2>1 DEF CreditNoteInsert
<1>6. CASE UpdateDeleteLines(r)
  <2> DEFINE row == [inv[d] EXCEPT !.lines = 0]
  <2>1. d \in Docs /\ UpdateRow(d, row)
    BY <1>1, <1>6 DEF UpdateDeleteLines, At
  <2>2. row.status = inv[d].status /\ row.ecfId = inv[d].ecfId /\ row.estado = inv[d].estado
    OBVIOUS
  <2> HIDE DEF row
  <2> QED
    BY <1>4, <2>1, <2>2
<1>7. CASE UpdateSaveLines(r)
  <2> DEFINE row == [inv[d] EXCEPT !.lines = @ + req[r].amount]
  <2>1. d \in Docs /\ UpdateRow(d, row)
    BY <1>1, <1>7 DEF UpdateSaveLines, At
  <2>2. row.status = inv[d].status /\ row.ecfId = inv[d].ecfId /\ row.estado = inv[d].estado
    OBVIOUS
  <2> HIDE DEF row
  <2> QED
    BY <1>4, <2>1, <2>2
<1>8. CASE UpdatePatch(r)
  <2> DEFINE row == [inv[d] EXCEPT !.total = req[r].amount]
  <2>1. d \in Docs /\ UpdateRow(d, row)
    BY <1>1, <1>8 DEF UpdatePatch, At
  <2>2. row.status = inv[d].status /\ row.ecfId = inv[d].ecfId /\ row.estado = inv[d].estado
    OBVIOUS
  <2> HIDE DEF row
  <2> QED
    BY <1>4, <2>1, <2>2
<1>9. CASE RemoveDelete(r)
  <2> DEFINE row == [NoInvoice EXCEPT !.status = "deleted"]
  <2>1. d \in Docs /\ (UNCHANGED inv \/ UpdateRow(d, row))
    BY <1>1, <1>9 DEF RemoveDelete, At
  <2>2. row.status = "deleted"
    OBVIOUS
  <2> HIDE DEF row
  <2> QED
    BY <1>4, <2>1, <2>2
<1>10. CASE EmitClaim(r)
  BY <1>1, <1>10 DEF EmitClaim, TypeOK, Invoice
<1>11. CASE EmitRollback(r)
  <2> DEFINE row == [inv[d] EXCEPT !.status = "draft"]
  <2>1. d \in Docs /\ UpdateRow(d, row)
    BY <1>1, <1>11 DEF EmitRollback, At
  <2>2. row.status = "draft"
    OBVIOUS
  <2> HIDE DEF row
  <2> QED
    BY <1>4, <1>11, <2>1, <2>2
<1>12. CASE EmitCommit(r)
  <2> DEFINE row == [inv[d] EXCEPT !.status = "issued", !.ecfId = req[r].ecf, !.estado = req[r].estado]
  <2>1. /\ d \in Docs
        /\ UpdateRow(d, row)
        /\ req[r].pc = "commit"
    BY <1>1, <1>12 DEF EmitCommit, At
  <2>2. row.status = "issued" /\ row.ecfId = req[r].ecf /\ row.estado = req[r].estado
    OBVIOUS
  <2> HIDE DEF row
  <2> QED
    BY <1>4, <2>1, <2>2
<1>13. CASE SyncWrite(r)
  <2> DEFINE row == [inv[d] EXCEPT !.estado = req[r].estado]
  <2>1. /\ d \in Docs
        /\ UpdateRow(d, row)
        /\ req[r].pc = "sync_write"
        /\ inv[d].ecfId = req[r].ecf \/ inv[d].status = "deleted"
    BY <1>1, <1>13 DEF SyncWrite, At, IInv, UsedReceipts, UsesReceipt
  <2>2. row.status = inv[d].status /\ row.ecfId = inv[d].ecfId /\ row.estado = req[r].estado
    OBVIOUS
  <2> HIDE DEF row
  <2> QED
    BY <1>4, <2>1, <2>2
<1>14. CASE \/ CreditNoteSum(r) \/ EmitCreate(r) \/ EmitValidate(r) \/ EmitSign(r)
            \/ EmitFetch(r) \/ TransmitPost(r) \/ SyncGet(r) \/ SyncStatus(r)
  BY <1>14 DEF CreditNoteSum, EmitCreate, EmitValidate, EmitSign, EmitFetch, TransmitPost,
     SyncGet, SyncStatus
<1> QED
  BY <1>5, <1>6, <1>7, <1>8, <1>9, <1>10, <1>11, <1>12, <1>13, <1>14 DEF Continue

\* A receipt only goes forward, keeps its document once it has one, and is
\* signed only by the emission that holds it.
LEMMA ReceiptsAdvance ==
    ASSUME IInv, NEW r \in Reqs, Continue(r), NEW e \in Ecfs
    PROVE  /\ Progress[ecf[e].state] <= Progress[ecf'[e].state]
           /\ ecf'[e].state \in Signed =>
                /\ ecf'[e].doc = ecf[e].doc
                /\ ecf[e].state \in Signed \/ (EmitSign(r) /\ e = req[r].ecf)
<1> DEFINE Advances == /\ Progress[ecf[e].state] <= Progress[ecf'[e].state]
                       /\ ecf'[e].state \in Signed =>
                            /\ ecf'[e].doc = ecf[e].doc
                            /\ ecf[e].state \in Signed \/ (EmitSign(r) /\ e = req[r].ecf)
           f == req[r].ecf
<1>1. TypeOK
  BY DEF IInv, Typed
<1>2. /\ Progress["absent"] = 0
      /\ Progress["created"] = 1
      /\ Progress["validated"] = 2
      /\ Progress["signed"] = 3
      /\ Progress["transmitted"] = 4
      /\ Progress["resolved"] = 5
  BY DEF Progress, EcfStates
<1>3. ecf[e] \in Receipt /\ ecf[e].state \in EcfStates
  BY <1>1 DEF TypeOK, Receipt
<1>4. CASE ecf'[e] = ecf[e]
  <2>1. Progress[ecf[e].state] \in 0..5
    BY <1>2, <1>3 DEF EcfStates
  <2> QED
    BY <1>4, <2>1
<1>5. CASE EmitCreate(r)
  <2> DEFINE Made(g) == [state |-> "created", doc |-> req[r].doc, amount |-> req[r].amount]
  <2>1. ASSUME NEW g \in Ecfs, ecf[g].state = "absent", ecf' = [ecf EXCEPT ![g] = Made(g)]
        PROVE  Advances
    BY <1>2, <1>4, <2>1 DEF Signed
  <2>2. UNCHANGED ecf => Advances
    BY <1>4
  <2> QED
    BY <1>5, <2>1, <2>2 DEF EmitCreate, Call
<1>6. ASSUME NEW s \in EcfStates, f \in Ecfs,
             ecf' = [ecf EXCEPT ![f] = [ecf[f] EXCEPT !.state = s]],
             Progress[ecf[f].state] <= Progress[s],
             s \in Signed => ecf[f].state \in Signed \/ EmitSign(r)
      PROVE  Advances
  <2> DEFINE x == [ecf[f] EXCEPT !.state = s]
  <2>2. ecf' = [ecf EXCEPT ![f] = x]
    BY <1>6
  <2> HIDE DEF x
  <2>3. CASE e = f
    BY <1>1, <1>6, <2>3 DEF TypeOK
  <2>4. CASE e # f
    BY <1>4, <2>2, <2>4
  <2> QED
    BY <2>3, <2>4
<1>7. CASE EmitValidate(r)
  <2>1. f \in Ecfs /\ ecf[f].state = "created"
    BY <1>7 DEF EmitValidate, At, IInv, Typed, RequestsNameThings, HeldReceipts, HoldsReceipt
  <2> QED
    BY <1>2, <1>4, <1>6, <1>7, <2>1 DEF EmitValidate, Call, EcfStates, Signed
<1>8. CASE EmitSign(r)
  <2>1. f \in Ecfs /\ ecf[f].state = "validated"
    BY <1>8 DEF EmitSign, At, IInv, Typed, RequestsNameThings, HeldReceipts, HoldsReceipt
  <2> QED
    BY <1>2, <1>4, <1>6, <1>8, <2>1 DEF EmitSign, Call, EcfStates
<1>9. CASE TransmitPost(r)
  <2>1. f \in Ecfs
    BY <1>9 DEF TransmitPost, At, IInv, Typed, RequestsNameThings, UsesReceipt
  <2> QED
    BY <1>2, <1>4, <1>6, <1>9, <2>1 DEF TransmitPost, Call, EcfStates, Signed
<1>10. CASE SyncStatus(r)
  <2>1. f \in Ecfs /\ ecf[f].state \in Signed
    BY <1>10 DEF SyncStatus, At, IInv, Typed, RequestsNameThings, UsedReceipts, UsesReceipt
  <2>2. UNCHANGED ecf \/ ecf' = [ecf EXCEPT ![f] = [ecf[f] EXCEPT !.state = "resolved"]]
    BY <1>10 DEF SyncStatus
  <2> QED
    BY <1>2, <1>4, <1>6, <2>1, <2>2 DEF EcfStates, Signed
<1>11. CASE \/ CreditNoteSum(r) \/ CreditNoteInsert(r) \/ UpdateDeleteLines(r) \/ UpdateSaveLines(r)
            \/ UpdatePatch(r) \/ RemoveDelete(r) \/ EmitClaim(r) \/ EmitFetch(r)
            \/ EmitRollback(r) \/ EmitCommit(r) \/ SyncGet(r) \/ SyncWrite(r)
  BY <1>4, <1>11 DEF CreditNoteSum, CreditNoteInsert, UpdateDeleteLines, UpdateSaveLines,
     UpdatePatch, RemoveDelete, EmitClaim, EmitFetch, EmitRollback, EmitCommit, SyncGet, SyncWrite
<1> QED
  BY <1>5, <1>7, <1>8, <1>9, <1>10, <1>11 DEF Continue

\* While replies are not lost, the claim and the order of the calls leave at
\* most one signed receipt to a document.
LEMMA NextOnce ==
    ASSUME ~LostReplies, IInv, SignedOnce, [Next]_vars
    PROVE  SignedOnce'
<1>1. TypeOK
  BY DEF IInv, Typed
<1>2. ASSUME NEW d \in Docs, NEW amount \in Amounts, Create(d, amount)
      PROVE  SignedOnce'
  <2>1. \A c \in Docs : inv'[c].status \in {"none", "draft"} => inv[c].status \in {"none", "draft"}
    BY <1>2 DEF Create, InsertRow
  <2> QED
    BY <1>2, <2>1, QuietOnce DEF Create
<1>3. ASSUME NEW r \in Reqs, Start(r)
      PROVE  SignedOnce'
  BY <1>1, <1>3, StartEffect, QuietOnce
<1>4. ASSUME NEW r \in Reqs, Continue(r)
      PROVE  SignedOnce'
  <2> DEFINE d == req[r].doc
             f == req[r].ecf
  <2>1. \A q \in Reqs \ {r} : req'[q] = req[q]
    BY <1>1, <1>4, OthersKept
  <2>2. \A e \in Ecfs : ecf[e].state \in Signed => ecf[e].doc \in Docs
    BY DEF IInv, ReceiptsNameDocs, Signed
  <2>3. CASE EmitClaim(r)
    <3>1. UNCHANGED ecf /\ d \in Docs
      BY <2>3 DEF EmitClaim, At, IInv, Typed, RequestsNameThings
    <3>2. req'[r].pc \in Unsigned => inv[d].status = "draft" /\ req'[r].doc = d
      BY <1>1, <1>4, <2>3, FinishEffect, StaysUnsigned DEF EmitClaim, Unsigned
    <3>3. \A c \in Docs : inv'[c].status \in {"none", "draft"} => inv[c].status \in {"none", "draft"}
      BY <1>4, <2>3, RowsWritten DEF EmitClaim, EmitRollback, At
    <3>4. EmittedOnce'
      BY <3>1 DEF SignedOnce, EmittedOnce
    <3>5. NotSignedYet'
      BY <2>1, <2>2, <3>1, <3>2, <3>3 DEF SignedOnce, NotSignedYet
    <3> QED
      BY <3>4, <3>5 DEF SignedOnce
  <2>4. CASE EmitSign(r)
    <3>1. /\ UNCHANGED inv
          /\ req[r].pc = "sign"
          /\ d \in Docs
          /\ f \in Ecfs
          /\ ecf[f].doc = d
      BY <2>4 DEF EmitSign, At, IInv, Typed, RequestsNameThings, HeldReceipts, HoldsReceipt
    <3>2. CASE UNCHANGED ecf
      BY <1>4, <2>1, <3>1, <3>2, StaysUnsigned, QuietOnce DEF EmitClaim, At
    <3>3. CASE ~UNCHANGED ecf
      <4>1. req'[r].pc = "fetch"
        <5>1. Goto(r, "fetch")
          BY <2>4, <3>3 DEF EmitSign, Call
        <5> QED
          BY <1>1, <5>1, GotoEffect DEF Pcs, Claimed
      <4>2. \A e \in Ecfs : ecf[e].state \in Signed => ecf[e].doc # d
        BY <3>1 DEF SignedOnce, NotSignedYet, Unsigned
      <4>3. /\ inv[d].status \in {"emitting", "deleted"}
            /\ \A q \in Reqs \ {r} : req[q].pc \in Claimed => req[q].doc # d
        BY <3>1 DEF IInv, ClaimExclusive, Claimed
      <4>4. \A e \in Ecfs : ecf'[e].state \in Signed =>
              /\ ecf'[e].doc = ecf[e].doc
              /\ ecf[e].state \in Signed \/ e = f
        BY <1>4, ReceiptsAdvance
      <4>5. EmittedOnce'
        BY <3>1, <4>2, <4>4 DEF SignedOnce, EmittedOnce
      <4>6. NotSignedYet'
        BY <2>1, <3>1, <4>1, <4>3, <4>4 DEF SignedOnce, NotSignedYet, Unsigned, Claimed
      <4> QED
        BY <4>5, <4>6 DEF SignedOnce
    <3> QED
      BY <3>2, <3>3
  <2>5. CASE EmitRollback(r)
    <3>1. /\ UNCHANGED ecf
          /\ req[r].pc = "rollback"
          /\ d \in Docs
          /\ req'[r].pc = "idle"
      BY <2>5, FinishEffect DEF EmitRollback, At, IInv, Typed, RequestsNameThings
    <3>2. \A c \in Docs \ {d} : inv'[c] = inv[c]
      BY <2>5 DEF EmitRollback, UpdateRow
    <3>3. \A e \in Ecfs : ecf[e].state \in Signed => ecf[e].doc \in Docs \ {d}
      BY <2>2, <3>1 DEF SignedOnce, NotSignedYet, Unsigned
    <3>4. EmittedOnce'
      BY <3>1 DEF SignedOnce, EmittedOnce
    <3>5. NotSignedYet'
      BY <2>1, <3>1, <3>2, <3>3 DEF SignedOnce, NotSignedYet, Unsigned
    <3> QED
      BY <3>4, <3>5 DEF SignedOnce
  <2>6. CASE ~EmitClaim(r) /\ ~EmitSign(r) /\ ~EmitRollback(r)
    BY <1>4, <2>1, <2>6, StaysUnsigned, RowsWritten, ReceiptsAdvance, QuietOnce
  <2> QED
    BY <2>3, <2>4, <2>5, <2>6
<1>5. CASE Restart
  BY <1>5, QuietOnce DEF Restart, Idle, Unsigned
<1>6. CASE UNCHANGED vars
  BY <1>6, QuietOnce DEF vars
<1> QED
  BY <1>2, <1>3, <1>4, <1>5, <1>6 DEF Next

\* While no reply of ecf-api is lost, however many users emit at once and
\* however often the process restarts, no document gets two e-NCFs.
THEOREM SpecEmittedOnce == ASSUME ~LostReplies PROVE Spec => []EmittedOnce
<1>1. Init => SignedOnce
  BY DEF Init, NoReceipt, SignedOnce, EmittedOnce, NotSignedYet, Signed
<1>2. IInv /\ SignedOnce /\ [Next]_vars => SignedOnce'
  BY NextOnce
<1> QED
  BY <1>1, <1>2, SpecIInv, PTL DEF Spec, SignedOnce

(***************************************************************************)
(* At most one receipt of a document is ever sent, lost replies or not.    *)
(***************************************************************************)
\* The receipt was sent for the document, or a request is at its transmission
\* or its synchronisation.
InUse(d, e) ==
    \/ ecf[e].state \in Sent /\ ecf[e].doc = d
    \/ \E r \in Reqs : req[r].pc \in UsesReceipt /\ req[r].doc = d /\ req[r].ecf = e

\* One receipt of a document at most is in use, and none while an emission of
\* the document is under way.
OneInUse == \A d \in Docs : \A e, f \in Ecfs : InUse(d, e) /\ InUse(d, f) => e = f
NoneWhileClaimed ==
    \A d \in Docs : \A e \in Ecfs : InUse(d, e) =>
        \A r \in Reqs : req[r].pc \in Claimed => req[r].doc # d

UsedApart == OneInUse /\ NoneWhileClaimed

\* A receipt in use is the one that its issued document records, unless the
\* document was deleted.
LEMMA InUseIsRecorded ==
    ASSUME IInv, NEW d \in Docs, NEW e \in Ecfs, InUse(d, e)
    PROVE  \/ inv[d].status = "issued" /\ inv[d].ecfId = e
           \/ inv[d].status = "deleted"
<1>1. inv[d].ecfId = e \/ inv[d].status = "deleted"
  BY DEF IInv, InUse, UsedReceipts, SentIsRecorded
<1> QED
  BY <1>1, ConstantsAssumption DEF IInv, OnlyIssuedHasReceipt

\* A request that starts holds no document, and uses the receipt of an issued
\* document if it uses any.
LEMMA StartUse ==
    ASSUME IInv, NEW r \in Reqs, Start(r)
    PROVE  /\ UNCHANGED <<inv, ecf>>
           /\ \A q \in Reqs \ {r} : req'[q] = req[q]
           /\ req'[r].pc \notin Claimed
           /\ req'[r].pc \in UsesReceipt =>
                 inv[req'[r].doc].status = "issued" /\ inv[req'[r].doc].ecfId = req'[r].ecf
<1> DEFINE Effect == /\ UNCHANGED <<inv, ecf>>
                     /\ \A q \in Reqs \ {r} : req'[q] = req[q]
                     /\ req'[r].pc \notin Claimed
                     /\ req'[r].pc \in UsesReceipt =>
                          inv[req'[r].doc].status = "issued" /\ inv[req'[r].doc].ecfId = req'[r].ecf
<1>1. TypeOK
  BY DEF IInv, Typed
<1>2. PICK d \in Docs :
        \/ \E amount \in Amounts, full \in BOOLEAN : CreditNoteRead(r, d, amount, full)
        \/ \E amount \in Amounts : UpdateRead(r, d, amount)
        \/ RemoveRead(r, d)
        \/ EmitRead(r, d)
        \/ TransmitRead(r, d)
        \/ RefreshRead(r, d)
  BY DEF Start
<1>3. ASSUME NEW next, next.pc \in {"cn_sum", "del_lines", "delete", "claim"},
             Begin(r, next), UNCHANGED <<inv, ecf>>
      PROVE  Effect
  BY <1>1, <1>3 DEF Begin, TypeOK, Claimed, UsesReceipt
<1>4. ASSUME NEW next, next.pc \in {"post", "sync"}, next.doc = d, next.ecf = inv[d].ecfId,
             inv[d].ecfId # NoEcf, Begin(r, next), UNCHANGED <<inv, ecf>>
      PROVE  Effect
  <2>1. inv[d].status = "issued"
    BY <1>4 DEF IInv, OnlyIssuedHasReceipt
  <2> QED
    BY <1>1, <1>4, <2>1 DEF Begin, TypeOK, Claimed
<1>5. ASSUME NEW amount \in Amounts, NEW full \in BOOLEAN, CreditNoteRead(r, d, amount, full)
      PROVE  Effect
  <2> DEFINE size == IF full THEN inv[d].lines ELSE amount
             total == inv[d].total
             next == [Idle EXCEPT !.pc = "cn_sum", !.doc = d, !.full = full, !.total = total, !.amount = size]
  <2>1. next.pc = "cn_sum"
    <3> HIDE DEF size, total
    <3> QED
      OBVIOUS
  <2>2. Begin(r, next) /\ UNCHANGED <<inv, ecf>>
    BY <1>5 DEF CreditNoteRead
  <2> HIDE DEF next
  <2> QED
    BY <1>3, <2>1, <2>2
<1>6. ASSUME NEW amount \in Amounts, UpdateRead(r, d, amount)
      PROVE  Effect
  <2> DEFINE next == [Idle EXCEPT !.pc = "del_lines", !.doc = d, !.amount = amount]
  <2>1. next.pc = "del_lines"
    OBVIOUS
  <2>2. Begin(r, next) /\ UNCHANGED <<inv, ecf>>
    BY <1>6 DEF UpdateRead
  <2> HIDE DEF next
  <2> QED
    BY <1>3, <2>1, <2>2
<1>7. CASE RemoveRead(r, d)
  <2> DEFINE next == [Idle EXCEPT !.pc = "delete", !.doc = d]
  <2>1. next.pc = "delete"
    OBVIOUS
  <2>2. Begin(r, next) /\ UNCHANGED <<inv, ecf>>
    BY <1>7 DEF RemoveRead
  <2> HIDE DEF next
  <2> QED
    BY <1>3, <2>1, <2>2
<1>8. CASE EmitRead(r, d)
  <2> DEFINE next == [Idle EXCEPT !.pc = "claim", !.doc = d, !.amount = inv[d].lines]
  <2>1. next.pc = "claim"
    OBVIOUS
  <2>2. Begin(r, next) /\ UNCHANGED <<inv, ecf>>
    BY <1>8 DEF EmitRead
  <2> HIDE DEF next
  <2> QED
    BY <1>3, <2>1, <2>2
<1>9. CASE TransmitRead(r, d)
  <2> DEFINE next == [Idle EXCEPT !.pc = "post", !.doc = d, !.ecf = inv[d].ecfId]
  <2>1. next.pc = "post" /\ next.doc = d /\ next.ecf = inv[d].ecfId
    BY DEF Idle
  <2>2. inv[d].ecfId # NoEcf /\ Begin(r, next) /\ UNCHANGED <<inv, ecf>>
    BY <1>9 DEF TransmitRead
  <2> HIDE DEF next
  <2> QED
    BY <1>4, <2>1, <2>2
<1>10. CASE RefreshRead(r, d)
  <2> DEFINE next == [Idle EXCEPT !.pc = "sync", !.doc = d, !.ecf = inv[d].ecfId]
  <2>1. next.pc = "sync" /\ next.doc = d /\ next.ecf = inv[d].ecfId
    BY DEF Idle
  <2>2. inv[d].ecfId # NoEcf /\ Begin(r, next) /\ UNCHANGED <<inv, ecf>>
    BY <1>10 DEF RefreshRead
  <2> HIDE DEF next
  <2> QED
    BY <1>4, <2>1, <2>2
<1> QED
  BY <1>2, <1>5, <1>6, <1>7, <1>8, <1>9, <1>10

\* A request that goes on holds the document it held or reserves a draft; the
\* receipt it uses is the one it used, or the one its emission has just ended
\* with.
LEMMA ContinueUse ==
    ASSUME IInv, NEW r \in Reqs, Continue(r)
    PROVE  /\ req'[r].pc \in Claimed =>
                /\ req'[r].doc = req[r].doc
                /\ req[r].pc \in Claimed \/ inv[req[r].doc].status = "draft"
           /\ req'[r].pc \in UsesReceipt =>
                /\ req[r].pc \in UsesReceipt \cup {"commit"}
                /\ req'[r].doc = req[r].doc
                /\ req'[r].ecf = req[r].ecf
<1> DEFINE Holds == req'[r].pc \in Claimed =>
                        /\ req'[r].doc = req[r].doc
                        /\ req[r].pc \in Claimed \/ inv[req[r].doc].status = "draft"
           Uses == req'[r].pc \in UsesReceipt =>
                        /\ req[r].pc \in UsesReceipt \cup {"commit"}
                        /\ req'[r].doc = req[r].doc
                        /\ req'[r].ecf = req[r].ecf
<1>1. TypeOK
  BY DEF IInv, Typed
<1>2. ASSUME NEW label \in Pcs, Goto(r, label)
      PROVE  req'[r].pc = label /\ req'[r].doc = req[r].doc /\ req'[r].ecf = req[r].ecf
  BY <1>1, <1>2, GotoEffect
<1>3. Finish(r) => req'[r].pc = "idle"
  BY <1>1, FinishEffect
<1>4. GiveUp(r) => req'[r].pc = "rollback" /\ req'[r].doc = req[r].doc
  BY <1>1, GiveUpEffect
<1>5. ASSUME NEW label \in Pcs, NEW state \in EcfStates, Learn(r, label, state)
      PROVE  req'[r].pc = label /\ req'[r].doc = req[r].doc /\ req'[r].ecf = req[r].ecf
  BY <1>1, <1>5, LearnEffect
<1>6. CASE EmitCreate(r)
  <2>1. req[r].pc = "create"
    BY <1>6 DEF EmitCreate, At
  <2>2. CASE GiveUp(r)
    BY <1>4, <2>1, <2>2 DEF Claimed, UsesReceipt
  <2>3. ASSUME NEW f \in Ecfs,
               req' = [req EXCEPT ![r] = [req[r] EXCEPT !.pc = "validate", !.ecf = f, !.amount = 0]]
        PROVE  Holds /\ Uses
    <3> DEFINE next == [req[r] EXCEPT !.pc = "validate", !.ecf = f, !.amount = 0]
    <3>1. next.pc = "validate" /\ next.doc = req[r].doc
      BY <1>1 DEF TypeOK, Request
    <3>2. req' = [req EXCEPT ![r] = next]
      BY <2>3
    <3> HIDE DEF next
    <3>3. req'[r].pc = "validate" /\ req'[r].doc = req[r].doc
      BY <1>1, <3>1, <3>2 DEF TypeOK
    <3> QED
      BY <2>1, <3>3 DEF Claimed, UsesReceipt
  <2> QED
    BY <1>6, <2>2, <2>3 DEF EmitCreate, Call
<1>7. CASE EmitClaim(r) \/ EmitValidate(r) \/ EmitSign(r)
  BY <1>2, <1>3, <1>4, <1>7 DEF EmitClaim, EmitValidate, EmitSign, Call, At, UsesReceipt, Pcs, Claimed
<1>8. CASE EmitFetch(r)
  <2>1. req[r].ecf \in Ecfs /\ req[r].pc = "fetch"
    BY <1>8 DEF IInv, Typed, RequestsNameThings, HoldsReceipt, EmitFetch, At
  <2>2. ecf[req[r].ecf].state \in EcfStates
    BY <1>1, <2>1 DEF TypeOK, Receipt
  <2> QED
    BY <1>4, <1>5, <1>8, <2>1, <2>2 DEF EmitFetch, UsesReceipt, Pcs, Claimed
<1>9. CASE EmitCommit(r)
  <2> DEFINE next == [Idle EXCEPT !.pc = "post", !.doc = req[r].doc, !.ecf = req[r].ecf]
  <2>1. req[r].pc = "commit" /\ (Finish(r) \/ req' = [req EXCEPT ![r] = next])
    BY <1>9 DEF EmitCommit, At
  <2>2. next.pc = "post" /\ next.doc = req[r].doc /\ next.ecf = req[r].ecf
    BY DEF Idle
  <2> HIDE DEF next
  <2>3. CASE Finish(r)
    BY <1>3, <2>3 DEF UsesReceipt, Claimed
  <2>4. CASE req' = [req EXCEPT ![r] = next]
    <3>1. req'[r] = next
      BY <1>1, <2>4 DEF TypeOK
    <3> QED
      BY <2>1, <2>2, <3>1 DEF Claimed
  <2> QED
    BY <2>1, <2>3, <2>4
<1>10. CASE SyncGet(r) \/ SyncStatus(r)
  <2> DEFINE e == req[r].ecf
  <2>1. e \in Ecfs /\ req[r].pc \in UsesReceipt
    BY <1>10 DEF IInv, Typed, RequestsNameThings, UsesReceipt, SyncGet, SyncStatus, At
  <2>2. ecf[e].state \in EcfStates
    BY <1>1, <2>1 DEF TypeOK, Receipt
  <2>3. CASE SyncGet(r)
    BY <1>3, <1>5, <2>1, <2>2, <2>3 DEF SyncGet, UsesReceipt, Claimed, Pcs
  <2>4. CASE SyncStatus(r)
    <3>1. ecf'[e].state \in EcfStates
      BY <1>1, <2>1, <2>4 DEF SyncStatus, TypeOK, Receipt, EcfStates
    <3> QED
      BY <1>2, <1>5, <2>1, <2>4, <3>1 DEF SyncStatus, UsesReceipt, Claimed, Pcs
  <2> QED
    BY <1>10, <2>3, <2>4
<1>11. CASE TransmitPost(r)
  BY <1>2, <1>3, <1>11 DEF TransmitPost, Call, At, UsesReceipt, Claimed, Pcs
<1>12. CASE \/ CreditNoteSum(r) \/ CreditNoteInsert(r) \/ UpdateDeleteLines(r) \/ UpdateSaveLines(r)
            \/ UpdatePatch(r) \/ RemoveDelete(r) \/ EmitRollback(r) \/ SyncWrite(r)
  BY <1>2, <1>3, <1>12 DEF CreditNoteSum, CreditNoteInsert, UpdateDeleteLines, UpdateSaveLines,
     UpdatePatch, RemoveDelete, EmitRollback, SyncWrite, UsesReceipt, Claimed, Pcs
<1> QED
  BY <1>6, <1>7, <1>8, <1>9, <1>10, <1>11, <1>12 DEF Continue

\* Only a request that uses a receipt sends it.
LEMMA SentByUse ==
    ASSUME IInv, NEW r \in Reqs, Continue(r), NEW e \in Ecfs, ecf'[e].state \in Sent
    PROVE  /\ ecf'[e].doc = ecf[e].doc
           /\ ecf[e].state \in Sent \/ (req[r].pc \in UsesReceipt /\ req[r].ecf = e)
<1>1. TypeOK
  BY DEF IInv, Typed
<1>2. ecf'[e].doc = ecf[e].doc
  BY ReceiptsAdvance DEF Sent, Signed
<1> DEFINE f == req[r].ecf
<1>3. CASE EmitCreate(r)
  <2> DEFINE made == [state |-> "created", doc |-> req[r].doc, amount |-> req[r].amount]
  <2>1. UNCHANGED ecf \/ \E g \in Ecfs : ecf' = [ecf EXCEPT ![g] = made]
    BY <1>3 DEF EmitCreate, Call
  <2>2. made.state \notin Sent
    BY DEF Sent
  <2> HIDE DEF made
  <2>3. ecf'[e] = ecf[e] \/ ecf'[e] = made
    BY <1>1, <2>1 DEF TypeOK
  <2> QED
    BY <1>2, <2>2, <2>3
<1>4. CASE EmitValidate(r) \/ EmitSign(r)
  <2>1. f \in Ecfs
    BY <1>4 DEF EmitValidate, EmitSign, At, IInv, Typed, RequestsNameThings, HoldsReceipt
  <2> DEFINE valid == [ecf[f] EXCEPT !.state = "validated"]
             signed == [ecf[f] EXCEPT !.state = "signed"]
  <2>2. \/ UNCHANGED ecf
        \/ ecf' = [ecf EXCEPT ![f] = valid]
        \/ ecf' = [ecf EXCEPT ![f] = signed]
    BY <1>4 DEF EmitValidate, EmitSign, Call
  <2>3. valid.state \notin Sent /\ signed.state \notin Sent
    BY <1>1, <2>1, StateEffect DEF EcfStates, Sent
  <2> HIDE DEF valid, signed
  <2>4. ecf'[e] = ecf[e] \/ ecf'[e] = valid \/ ecf'[e] = signed
    BY <1>1, <2>1, <2>2 DEF TypeOK
  <2> QED
    BY <1>2, <2>3, <2>4
<1>5. CASE TransmitPost(r) \/ SyncStatus(r)
  <2>1. f \in Ecfs /\ req[r].pc \in UsesReceipt
    BY <1>5 DEF TransmitPost, SyncStatus, At, IInv, Typed, RequestsNameThings, UsesReceipt
  <2> DEFINE sent == [ecf[f] EXCEPT !.state = "transmitted"]
             answered == [ecf[f] EXCEPT !.state = "resolved"]
  <2>2. \/ UNCHANGED ecf
        \/ ecf' = [ecf EXCEPT ![f] = sent]
        \/ ecf' = [ecf EXCEPT ![f] = answered]
    <3>1. TransmitPost(r) => UNCHANGED ecf \/ ecf' = [ecf EXCEPT ![f] = sent]
      BY DEF TransmitPost, Call
    <3>2. SyncStatus(r) => UNCHANGED ecf \/ ecf' = [ecf EXCEPT ![f] = answered]
      BY DEF SyncStatus
    <3> QED
      BY <1>5, <3>1, <3>2
  <2> HIDE DEF sent, answered
  <2>3. e # f => ecf'[e] = ecf[e]
    BY <1>1, <2>1, <2>2 DEF TypeOK
  <2> QED
    BY <1>2, <2>1, <2>3
<1>6. CASE \/ CreditNoteSum(r) \/ CreditNoteInsert(r) \/ UpdateDeleteLines(r) \/ UpdateSaveLines(r)
           \/ UpdatePatch(r) \/ RemoveDelete(r) \/ EmitClaim(r) \/ EmitFetch(r)
           \/ EmitRollback(r) \/ EmitCommit(r) \/ SyncGet(r) \/ SyncWrite(r)
  BY <1>6 DEF CreditNoteSum, CreditNoteInsert, UpdateDeleteLines, UpdateSaveLines,
     UpdatePatch, RemoveDelete, EmitClaim, EmitFetch, EmitRollback, EmitCommit, SyncGet, SyncWrite
<1> QED
  BY <1>3, <1>4, <1>5, <1>6 DEF Continue

\* What is in use after a step was, or is what an issued document records, or
\* what the emission that ends here made.
LEMMA UseGoesOn ==
    ASSUME IInv, NEW r \in Reqs, Start(r) \/ Continue(r),
           NEW d \in Docs, NEW e \in Ecfs, InUse(d, e)'
    PROVE  \/ InUse(d, e)
           \/ inv[d].status = "issued" /\ inv[d].ecfId = e
           \/ req[r].pc = "commit" /\ req[r].doc = d /\ req[r].ecf = e /\ Continue(r)
<1>1. TypeOK
  BY DEF IInv, Typed
<1>2. CASE Start(r)
  BY <1>2, StartUse DEF InUse
<1>3. CASE Continue(r)
  <2>1. CASE ecf'[e].state \in Sent /\ ecf'[e].doc = d
    <3>1. /\ ecf[e].doc = d
          /\ ecf[e].state \in Sent \/ (req[r].pc \in UsesReceipt /\ req[r].ecf = e)
      BY <1>3, <2>1, SentByUse
    <3>2. req[r].pc \in UsesReceipt => ecf[req[r].ecf].doc = req[r].doc
      BY DEF IInv, UsedReceipts
    <3> QED
      BY <3>1, <3>2 DEF InUse
  <2>2. ASSUME NEW q \in Reqs, req'[q].pc \in UsesReceipt, req'[q].doc = d, req'[q].ecf = e
        PROVE  InUse(d, e) \/ (req[r].pc = "commit" /\ req[r].doc = d /\ req[r].ecf = e)
    <3>1. CASE q = r
      BY <1>3, <2>2, <3>1, ContinueUse DEF InUse
    <3>2. CASE q # r
      BY <1>1, <1>3, <2>2, <3>2, OthersKept DEF InUse
    <3> QED
      BY <3>1, <3>2
  <2> QED
    BY <1>3, <2>1, <2>2 DEF InUse
<1> QED
  BY <1>2, <1>3

\* Nobody begins to send a second receipt of a document, with lost replies and
\* restarts, and when the document is gone as well.
LEMMA NextUse == IInv /\ UsedApart /\ [Next]_vars => UsedApart'
<1> SUFFICES ASSUME IInv, UsedApart, [Next]_vars
             PROVE  UsedApart'
  OBVIOUS
<1>1. TypeOK
  BY DEF IInv, Typed
<1>2. ASSUME \A d \in Docs : \A e \in Ecfs : InUse(d, e)' => InUse(d, e),
             \A q \in Reqs : req'[q].pc \in Claimed => req[q].pc \in Claimed /\ req'[q].doc = req[q].doc
      PROVE  UsedApart'
  BY <1>2 DEF UsedApart, OneInUse, NoneWhileClaimed
<1>3. ASSUME NEW d \in Docs, NEW amount \in Amounts, Create(d, amount)
      PROVE  UsedApart'
  BY <1>2, <1>3 DEF Create, InUse
<1>4. ASSUME NEW r \in Reqs, Start(r) \/ Continue(r)
      PROVE  UsedApart'
  <2>1. \A q \in Reqs \ {r} : req'[q] = req[q]
    BY <1>1, <1>4, OthersKept, StartUse
  <2>2. /\ req'[r].pc \in Claimed =>
              /\ req'[r].doc = req[r].doc
              /\ req[r].pc \in Claimed \/ inv[req[r].doc].status = "draft"
        /\ req[r].pc = "commit" /\ Continue(r) => req'[r].pc \notin Claimed
    <3>1. req[r].pc = "commit" /\ Continue(r) => req'[r].pc \notin Claimed
      <4> SUFFICES ASSUME req[r].pc = "commit", Continue(r)
                   PROVE  req'[r].pc \notin Claimed
        OBVIOUS
      <4>1. EmitCommit(r)
        BY DEF Continue, CreditNoteSum, CreditNoteInsert, UpdateDeleteLines, UpdateSaveLines,
           UpdatePatch, RemoveDelete, EmitClaim, EmitCreate, EmitValidate, EmitSign, EmitFetch,
           EmitRollback, TransmitPost, SyncGet, SyncStatus, SyncWrite, At
      <4> DEFINE next == [Idle EXCEPT !.pc = "post", !.doc = req[r].doc, !.ecf = req[r].ecf]
      <4>2. Finish(r) \/ req' = [req EXCEPT ![r] = next]
        BY <4>1 DEF EmitCommit
      <4>3. next.pc = "post"
        OBVIOUS
      <4> HIDE DEF next
      <4> QED
        BY <1>1, <4>2, <4>3, FinishEffect DEF TypeOK, Claimed
    <3> QED
      BY <1>4, <3>1, StartUse, ContinueUse
  <2>3. \A b \in Docs : \A e \in Ecfs : InUse(b, e) =>
            \/ inv[b].status = "issued" /\ inv[b].ecfId = e
            \/ inv[b].status = "deleted"
    BY InUseIsRecorded
  <2>4. \A b \in Docs : \A e \in Ecfs : InUse(b, e)' =>
            \/ InUse(b, e)
            \/ inv[b].status = "issued" /\ inv[b].ecfId = e
            \/ req[r].pc = "commit" /\ req[r].doc = b /\ req[r].ecf = e /\ Continue(r)
    BY <1>4, UseGoesOn
  <2>5. \A q \in Reqs : req[q].pc \in Claimed =>
            /\ inv[req[q].doc].status \in {"emitting", "deleted"}
            /\ \A p \in Reqs \ {q} : req[p].pc \in Claimed => req[p].doc # req[q].doc
    BY DEF IInv, ClaimExclusive
  <2>6. OneInUse'
    BY <2>3, <2>4, <2>5 DEF UsedApart, OneInUse, NoneWhileClaimed, Claimed
  <2>7. NoneWhileClaimed'
    <3> SUFFICES ASSUME NEW b \in Docs, NEW e \in Ecfs, InUse(b, e)', NEW q \in Reqs,
                        req'[q].pc \in Claimed, req'[q].doc = b
                 PROVE  FALSE
      BY DEF NoneWhileClaimed
    <3>1. /\ req[q].doc = b
          /\ req[q].pc \in Claimed \/ inv[b].status = "draft"
      BY <2>1, <2>2
    <3>2. CASE req[q].pc \in Claimed
      <4>1. ~InUse(b, e)
        BY <3>1, <3>2 DEF UsedApart, NoneWhileClaimed
      <4>2. inv[b].status # "issued"
        BY <2>5, <3>1, <3>2
      <4>3. req[r].pc = "commit" /\ req[r].doc = b /\ Continue(r)
        BY <2>4, <4>1, <4>2
      <4>4. q = r
        BY <2>5, <3>1, <3>2, <4>3 DEF Claimed
      <4> QED
        BY <2>2, <4>3, <4>4
    <3>3. CASE inv[b].status = "draft"
      <4>1. ~InUse(b, e)
        BY <2>3, <3>3
      <4>2. req[r].pc = "commit" /\ req[r].doc = b
        BY <2>4, <3>3, <4>1
      <4> QED
        BY <2>5, <3>3, <4>2 DEF Claimed
    <3> QED
      BY <3>1, <3>2, <3>3
  <2> QED
    BY <2>6, <2>7 DEF UsedApart
<1>5. CASE Restart
  BY <1>2, <1>5 DEF Restart, Idle, InUse, UsesReceipt, Claimed
<1>6. CASE UNCHANGED vars
  BY <1>2, <1>6 DEF vars, InUse
<1> QED
  BY <1>3, <1>4, <1>5, <1>6 DEF Next

\* However many receipts failed calls and lost replies leave signed for a
\* document, one of them at most reaches DGII, the one the document records
\* while it exists.
THEOREM SpecSentOnce == Spec => []SentOnce
<1>1. Init => UsedApart
  BY DEF Init, NoReceipt, Idle, UsedApart, OneInUse, NoneWhileClaimed, InUse, Sent, UsesReceipt
<1>2. IInv /\ UsedApart /\ [Next]_vars => UsedApart'
  BY NextUse
<1>3. IInv /\ UsedApart => SentOnce
  <2> SUFFICES ASSUME IInv, UsedApart
               PROVE  SentOnce
    OBVIOUS
  <2>1. \A e \in Ecfs : ecf[e].state \in Sent => ecf[e].doc \in Docs
    BY DEF IInv, ReceiptsNameDocs, Sent
  <2>2. ASSUME NEW e \in Ecfs, NEW f \in Ecfs, ecf[e].state \in Sent, ecf[f].state \in Sent,
               ecf[e].doc = ecf[f].doc
        PROVE  e = f
    BY <2>1, <2>2 DEF UsedApart, OneInUse, InUse
  <2>3. ASSUME NEW e \in Ecfs, ecf[e].state \in Sent, Exists(ecf[e].doc)
        PROVE  inv[ecf[e].doc].ecfId = e
    BY <2>3 DEF IInv, SentIsRecorded, Exists, Live
  <2> QED
    BY <2>2, <2>3 DEF SentOnce
<1> QED
  BY <1>1, <1>2, <1>3, SpecIInv, PTL DEF Spec

(***************************************************************************)
(* The ERP never shows a state that the receipt has not reached.           *)
(***************************************************************************)
\* What a request remembers of its receipt, the receipt has been through.
RememberedStates ==
    \A r \in Reqs : req[r].pc \in Remembers =>
        Progress[req[r].estado] <= Progress[ecf[req[r].ecf].state]

\* The state a request remembers is the one it remembered or the receipt's.
LEMMA LearnsFromReceipt ==
    ASSUME IInv, NEW r \in Reqs, Continue(r), req'[r].pc \in Remembers
    PROVE  /\ req[r].pc \in HoldsReceipt \cup UsesReceipt
           /\ req'[r].ecf = req[r].ecf
           /\ \/ req'[r].estado = ecf'[req[r].ecf].state
              \/ req[r].pc \in Remembers /\ req'[r].estado = req[r].estado
<1> DEFINE e == req[r].ecf
           Remembered == /\ req'[r].ecf = e
                         /\ \/ req'[r].estado = ecf'[e].state
                            \/ req[r].pc \in Remembers /\ req'[r].estado = req[r].estado
<1>1. TypeOK
  BY DEF IInv, Typed
<1>2. ASSUME NEW label \in Pcs, Goto(r, label)
      PROVE  /\ label \in Remembers
             /\ req'[r].ecf = e /\ req'[r].estado = req[r].estado
  BY <1>1, <1>2, GotoEffect
<1>3. ~Finish(r) /\ ~GiveUp(r)
  BY <1>1, FinishEffect, GiveUpEffect DEF Remembers
<1>4. ASSUME NEW label \in Pcs, Learn(r, label, ecf'[e].state), ecf'[e].state \in EcfStates
      PROVE  Remembered
  BY <1>1, <1>4, LearnEffect
<1>5. CASE EmitFetch(r)
  <2>1. req[r].pc = "fetch" /\ e \in Ecfs /\ UNCHANGED ecf
    BY <1>5 DEF EmitFetch, At, IInv, Typed, RequestsNameThings, HoldsReceipt
  <2>2. ecf[e].state \in EcfStates
    BY <1>1, <2>1 DEF TypeOK, Receipt
  <2> QED
    BY <1>3, <1>4, <1>5, <2>1, <2>2 DEF EmitFetch, HoldsReceipt, Pcs, Claimed
<1>6. CASE SyncGet(r)
  <2>1. req[r].pc = "sync" /\ e \in Ecfs /\ UNCHANGED ecf
    BY <1>6 DEF SyncGet, At, IInv, Typed, RequestsNameThings, UsesReceipt
  <2>2. ecf[e].state \in EcfStates
    BY <1>1, <2>1 DEF TypeOK, Receipt
  <2> QED
    BY <1>3, <1>4, <1>6, <2>1, <2>2 DEF SyncGet, UsesReceipt, Pcs
<1>7. CASE SyncStatus(r)
  <2>1. req[r].pc = "status" /\ e \in Ecfs
    BY <1>7 DEF SyncStatus, At, IInv, Typed, RequestsNameThings, UsesReceipt
  <2>2. ecf'[e].state \in EcfStates
    BY <1>1, <1>7, <2>1 DEF SyncStatus, TypeOK, Receipt, EcfStates
  <2> QED
    BY <1>2, <1>4, <1>7, <2>1, <2>2 DEF SyncStatus, UsesReceipt, Remembers, Pcs
<1>8. CASE EmitCreate(r)
  <2>1. ASSUME NEW f \in Ecfs,
               req' = [req EXCEPT ![r] = [req[r] EXCEPT !.pc = "validate", !.ecf = f, !.amount = 0]]
        PROVE  FALSE
    BY <1>1, <2>1 DEF TypeOK, Remembers
  <2> QED
    BY <1>3, <1>8, <2>1 DEF EmitCreate, Call
<1>9. CASE EmitCommit(r)
  <2> DEFINE next == [Idle EXCEPT !.pc = "post", !.doc = req[r].doc, !.ecf = e]
  <2>1. req' = [req EXCEPT ![r] = next]
    BY <1>3, <1>9 DEF EmitCommit
  <2>2. next.pc = "post"
    OBVIOUS
  <2> HIDE DEF next
  <2> QED
    BY <1>1, <2>1, <2>2 DEF TypeOK, Remembers
<1>10. CASE \/ CreditNoteSum(r) \/ CreditNoteInsert(r) \/ UpdateDeleteLines(r) \/ UpdateSaveLines(r)
            \/ UpdatePatch(r) \/ RemoveDelete(r) \/ EmitClaim(r) \/ EmitValidate(r) \/ EmitSign(r)
            \/ EmitRollback(r) \/ TransmitPost(r) \/ SyncWrite(r)
  BY <1>2, <1>3, <1>10 DEF CreditNoteSum, CreditNoteInsert, UpdateDeleteLines, UpdateSaveLines,
     UpdatePatch, RemoveDelete, EmitClaim, EmitValidate, EmitSign, EmitRollback, TransmitPost,
     SyncWrite, Call, Remembers, Pcs, Claimed
<1> QED
  BY <1>5, <1>6, <1>7, <1>8, <1>9, <1>10 DEF Continue

\* Receipts only advance, so a state that was true of one is never ahead of it.
LEMMA NextNotAhead ==
    ASSUME IInv, RememberedStates, EstadoNotAhead, [Next]_vars
    PROVE  (RememberedStates /\ EstadoNotAhead)'
<1>1. TypeOK
  BY DEF IInv, Typed
<1>2. \A s \in EcfStates : Progress[s] \in 0..5
  BY DEF Progress, EcfStates
<1>3. IInv'
  BY NextIInv
<1>4. \A e \in Ecfs : ecf[e].state \in EcfStates /\ ecf'[e].state \in EcfStates
  BY <1>3 DEF IInv, Typed, TypeOK, Receipt
<1>5. /\ \A r \in Reqs : req[r].estado \in EcfStates /\ req'[r].estado \in EcfStates
      /\ \A d \in Docs : inv[d].estado \in EcfStates /\ inv'[d].estado \in EcfStates
  BY <1>3 DEF IInv, Typed, TypeOK, Request, Invoice
<1>6. ASSUME NEW d \in Docs, NEW amount \in Amounts, Create(d, amount)
      PROVE  (RememberedStates /\ EstadoNotAhead)'
  <2>1. \A c \in Docs : inv'[c].status = "issued" => inv'[c] = inv[c]
    BY <1>1, <1>6, InsertEffect, ConstantsAssumption DEF Create
  <2>2. UNCHANGED <<ecf, req>>
    BY <1>6 DEF Create
  <2> QED
    BY <2>1, <2>2 DEF RememberedStates, EstadoNotAhead
<1>7. ASSUME NEW r \in Reqs, Start(r)
      PROVE  (RememberedStates /\ EstadoNotAhead)'
  <2>1. /\ UNCHANGED <<inv, ecf>>
        /\ req'[r].pc \notin Remembers
        /\ \A q \in Reqs \ {r} : req'[q] = req[q]
    BY <1>1, <1>7, StartEffect
  <2> QED
    BY <2>1 DEF RememberedStates, EstadoNotAhead
<1>8. ASSUME NEW r \in Reqs, Continue(r)
      PROVE  (RememberedStates /\ EstadoNotAhead)'
  <2>1. \A q \in Reqs \ {r} : req'[q] = req[q]
    BY <1>1, <1>8, OthersKept
  <2>2. \A e \in Ecfs : Progress[ecf[e].state] <= Progress[ecf'[e].state]
    BY <1>8, ReceiptsAdvance
  <2>3. \A q \in Reqs : req[q].pc \in HoldsReceipt \cup UsesReceipt => req[q].ecf \in Ecfs
    BY DEF IInv, Typed, RequestsNameThings
  <2>4. \A q \in Reqs : req[q].pc \in Remembers =>
           Progress[req[q].estado] <= Progress[ecf'[req[q].ecf].state]
    BY <1>2, <1>4, <1>5, <2>2, <2>3 DEF RememberedStates, Remembers, HoldsReceipt, UsesReceipt
  <2>5. RememberedStates'
    <3>1. ASSUME NEW q \in Reqs, req'[q].pc \in Remembers
          PROVE  Progress[req'[q].estado] <= Progress[ecf'[req'[q].ecf].state]
      <4>1. CASE q # r
        BY <2>1, <2>4, <3>1, <4>1
      <4>2. CASE q = r
        BY <1>2, <1>4, <1>8, <2>3, <2>4, <3>1, <4>2, LearnsFromReceipt
      <4> QED
        BY <4>1, <4>2
    <3> QED
      BY <3>1 DEF RememberedStates
  <2>6. EstadoNotAhead'
    <3>1. ASSUME NEW d \in Docs, inv'[d].status = "issued"
          PROVE  Progress[inv'[d].estado] <= Progress[ecf'[inv'[d].ecfId].state]
      <4>1. CASE inv[d].status = "issued" /\ inv'[d].ecfId = inv[d].ecfId /\ inv'[d].estado = inv[d].estado
        <5>1. inv[d].ecfId \in Ecfs
          BY <4>1 DEF IInv, IssuedIsBacked
        <5>2. Progress[inv[d].estado] <= Progress[ecf[inv[d].ecfId].state]
          BY <4>1 DEF EstadoNotAhead
        <5> QED
          BY <1>2, <1>4, <1>5, <2>2, <4>1, <5>1, <5>2
      <4>2. CASE /\ req[r].pc \in {"commit", "sync_write"}
                 /\ inv'[d].ecfId = req[r].ecf
                 /\ inv'[d].estado = req[r].estado
        BY <2>4, <4>2 DEF Remembers
      <4> QED
        BY <1>8, <3>1, <4>1, <4>2, RowsWritten
    <3> QED
      BY <3>1 DEF EstadoNotAhead
  <2> QED
    BY <2>5, <2>6
<1>9. CASE Restart
  BY <1>9 DEF Restart, Idle, Remembers, RememberedStates, EstadoNotAhead
<1>10. CASE UNCHANGED vars
  BY <1>10 DEF vars, RememberedStates, EstadoNotAhead
<1> QED
  BY <1>6, <1>7, <1>8, <1>9, <1>10 DEF Next

\* Refreshes that overtake each other may save an old state of the receipt,
\* never one that ecf-api has not reached.
THEOREM SpecEstadoNotAhead == Spec => []EstadoNotAhead
<1>1. Init => RememberedStates /\ EstadoNotAhead
  BY DEF Init, NoInvoice, Idle, RememberedStates, EstadoNotAhead, Remembers
<1>2. IInv /\ (RememberedStates /\ EstadoNotAhead) /\ [Next]_vars
         => (RememberedStates /\ EstadoNotAhead)'
  BY NextNotAhead
<1> QED
  BY <1>1, <1>2, SpecIInv, PTL DEF Spec

(***************************************************************************)
(* The refinement: the abstract steps, read off one row of the table.      *)
(***************************************************************************)
OnlyRow(d) == \A c \in Docs \ {d} : inv'[c] = inv[c]

\* An inserted row is a new draft.
LEMMA MapsNewDraft ==
    ASSUME NEW d \in Docs, NEW orig \in Docs \cup {NoDoc}, OnlyRow(d),
           inv[d].status = "none",
           orig # NoDoc => orig \in Docs /\ inv[orig].status = "issued",
           inv'[d].status = "draft",
           inv'[d].related = orig,
           inv'[d].ecfId = inv[d].ecfId
    PROVE  Abstract!NewDraft(d, orig)
BY DEF OnlyRow, Abstract!NewDraft

\* draft to emitting is the reservation.
LEMMA MapsReserve ==
    ASSUME NEW d \in Docs, OnlyRow(d),
           inv[d].status = "draft",
           inv'[d].status = "emitting",
           inv'[d].related = inv[d].related,
           inv'[d].ecfId = inv[d].ecfId
    PROVE  Abstract!Reserve(d)
BY DEF OnlyRow, Abstract!Reserve

\* emitting to draft gives the document back.
LEMMA MapsGiveBack ==
    ASSUME NEW d \in Docs, OnlyRow(d),
           inv[d].status = "emitting",
           inv'[d].status = "draft",
           inv'[d].related = inv[d].related,
           inv'[d].ecfId = inv[d].ecfId
    PROVE  Abstract!GiveBack(d)
BY DEF OnlyRow, Abstract!GiveBack

\* emitting to issued, with its receipt, is the issue.
LEMMA MapsIssue ==
    ASSUME NEW d \in Docs, NEW e \in Ecfs, OnlyRow(d),
           inv[d].status = "emitting",
           \A c \in Docs : inv[c].ecfId # e,
           inv'[d].status = "issued",
           inv'[d].related = inv[d].related,
           inv'[d].ecfId = e
    PROVE  Abstract!Issue(d, e)
BY DEF OnlyRow, Abstract!Issue

\* A row deleted is a document deleted.
LEMMA MapsDelete ==
    ASSUME NEW d \in Docs, OnlyRow(d),
           Exists(d),
           \A c \in Docs : Exists(c) => inv[c].related # d,
           inv'[d].status = "deleted",
           inv'[d].related = NoDoc,
           inv'[d].ecfId = NoEcf
    PROVE  Abstract!Delete(d)
BY DEF OnlyRow, Exists, Live, Abstract!Delete, Abstract!Present

\* Rows with the same status and references are the same documents.
LEMMA MapsStutter ==
    ASSUME \A d \in Docs : /\ inv'[d].status = inv[d].status
                           /\ inv'[d].related = inv[d].related
                           /\ inv'[d].ecfId = inv[d].ecfId
    PROVE  UNCHANGED Abstract!docVars
BY DEF Abstract!docVars

\* A row rewritten with the same status and references is the same document.
LEMMA RowKeeps ==
    ASSUME TypeOK, NEW d \in Docs, NEW row, UpdateRow(d, row),
           row.status = inv[d].status,
           row.related = inv[d].related,
           row.ecfId = inv[d].ecfId
    PROVE  UNCHANGED Abstract!docVars
<1>1. \A c \in Docs : /\ inv'[c].status = inv[c].status
                      /\ inv'[c].related = inv[c].related
                      /\ inv'[c].ecfId = inv[c].ecfId
  BY DEF TypeOK, UpdateRow
<1> QED
  BY <1>1, MapsStutter

\* Each later step of a request is an abstract step or none.
LEMMA ContinueMaps ==
    ASSUME IInv, NEW r \in Reqs, Continue(r)
    PROVE  [Abstract!Next]_(Abstract!docVars)
<1> DEFINE d == req[r].doc
           e == req[r].ecf
<1>1. TypeOK
  BY DEF IInv, Typed
<1>2. \A c \in Docs : inv[c] \in Invoice
  BY <1>1 DEF TypeOK
<1>3. req[r].pc # "idle" => d \in Docs
  BY DEF IInv, Typed, RequestsNameThings
<1>4. CASE UNCHANGED inv
  BY <1>4, MapsStutter
<1>5. CASE CreditNoteInsert(r)
  <2>1. CASE ~Exists(d)
    BY <1>4, <1>5, <2>1 DEF CreditNoteInsert
  <2>2. CASE Exists(d)
    <3>1. d \in Docs /\ inv[d].status = "issued"
      BY <1>3, <1>5, <2>2 DEF CreditNoteInsert, At, IInv, CreditNoteRequests, Exists, Live
    <3>2. PICK c \in Docs : InsertRow(c, req[r].amount, d)
      BY <1>5, <2>2 DEF CreditNoteInsert
    <3>3. req[r].amount \in Nat
      BY <1>1 DEF TypeOK, Request
    <3>4. inv[c].ecfId = NoEcf
      BY <3>2 DEF InsertRow, IInv, OnlyIssuedHasReceipt
    <3>5. PICK orig \in Docs : orig = d
      BY <3>1
    <3>6. /\ OnlyRow(c)
          /\ inv[c].status = "none"
          /\ inv'[c].status = "draft"
          /\ inv'[c].related = orig
          /\ inv'[c].ecfId = NoEcf
      BY <1>1, <3>1, <3>2, <3>3, <3>5, InsertEffect DEF OnlyRow
    <3>7. Abstract!NewDraft(c, orig)
      BY <3>1, <3>4, <3>5, <3>6, MapsNewDraft
    <3> QED
      BY <3>7 DEF Abstract!Next
  <2> QED
    BY <2>1, <2>2
<1>6. CASE UpdateDeleteLines(r)
  <2> DEFINE row == [inv[d] EXCEPT !.lines = 0]
  <2>1. d \in Docs /\ UpdateRow(d, row)
    BY <1>3, <1>6 DEF UpdateDeleteLines, At
  <2>2. /\ row.status = inv[d].status
        /\ row.related = inv[d].related
        /\ row.ecfId = inv[d].ecfId
    BY <1>2, <2>1 DEF Invoice
  <2> HIDE DEF row
  <2> QED
    BY <1>1, <2>1, <2>2, RowKeeps
<1>7. CASE UpdateSaveLines(r)
  <2> DEFINE row == [inv[d] EXCEPT !.lines = @ + req[r].amount]
  <2>1. d \in Docs /\ UpdateRow(d, row)
    BY <1>3, <1>7 DEF UpdateSaveLines, At
  <2>2. /\ row.status = inv[d].status
        /\ row.related = inv[d].related
        /\ row.ecfId = inv[d].ecfId
    BY <1>2, <2>1 DEF Invoice
  <2> HIDE DEF row
  <2> QED
    BY <1>1, <2>1, <2>2, RowKeeps
<1>8. CASE UpdatePatch(r)
  <2> DEFINE row == [inv[d] EXCEPT !.total = req[r].amount]
  <2>1. d \in Docs /\ UpdateRow(d, row)
    BY <1>3, <1>8 DEF UpdatePatch, At
  <2>2. /\ row.status = inv[d].status
        /\ row.related = inv[d].related
        /\ row.ecfId = inv[d].ecfId
    BY <1>2, <2>1 DEF Invoice
  <2> HIDE DEF row
  <2> QED
    BY <1>1, <2>1, <2>2, RowKeeps
<1>9. CASE SyncWrite(r)
  <2> DEFINE row == [inv[d] EXCEPT !.estado = req[r].estado]
  <2>1. d \in Docs /\ UpdateRow(d, row)
    BY <1>3, <1>9 DEF SyncWrite, At
  <2>2. /\ row.status = inv[d].status
        /\ row.related = inv[d].related
        /\ row.ecfId = inv[d].ecfId
    BY <1>2, <2>1 DEF Invoice
  <2> HIDE DEF row
  <2> QED
    BY <1>1, <2>1, <2>2, RowKeeps
<1>10. CASE RemoveDelete(r)
  <2> DEFINE row == [NoInvoice EXCEPT !.status = "deleted"]
  <2>1. d \in Docs
    BY <1>3, <1>10 DEF RemoveDelete, At
  <2>2. CASE UNCHANGED inv
    BY <1>4, <2>2
  <2>3. CASE inv' # inv
    <3>1. /\ \A c \in Docs : Exists(c) => inv[c].related # d
          /\ Exists(d)
          /\ inv' = [inv EXCEPT ![d] = row]
      BY <1>10, <2>3 DEF RemoveDelete, UpdateRow, CreditNotesOf
    <3>2. row.status = "deleted" /\ row.related = NoDoc /\ row.ecfId = NoEcf
      BY DEF NoInvoice
    <3> HIDE DEF row
    <3>3. PICK c \in Docs : c = d
      BY <2>1
    <3>4. /\ OnlyRow(c)
          /\ inv'[c].status = "deleted"
          /\ inv'[c].related = NoDoc
          /\ inv'[c].ecfId = NoEcf
      BY <1>1, <3>1, <3>2, <3>3 DEF OnlyRow, TypeOK
    <3>5. Abstract!Delete(c)
      BY <3>1, <3>3, <3>4, MapsDelete
    <3> QED
      BY <3>5 DEF Abstract!Next
  <2> QED
    BY <2>2, <2>3
<1>11. CASE EmitClaim(r)
  <2> DEFINE row == [inv[d] EXCEPT !.status = "emitting"]
  <2>1. d \in Docs
    BY <1>3, <1>11 DEF EmitClaim, At
  <2>2. CASE inv[d].status # "draft"
    BY <1>4, <1>11, <2>2 DEF EmitClaim
  <2>3. CASE inv[d].status = "draft"
    <3>1. inv' = [inv EXCEPT ![d] = row]
      BY <1>11, <2>3 DEF EmitClaim
    <3>2. row.status = "emitting" /\ row.related = inv[d].related /\ row.ecfId = inv[d].ecfId
      BY <1>2, <2>1 DEF Invoice
    <3> HIDE DEF row
    <3>3. PICK c \in Docs : c = d
      BY <2>1
    <3>4. /\ OnlyRow(c)
          /\ inv'[c].status = "emitting"
          /\ inv'[c].related = inv[c].related
          /\ inv'[c].ecfId = inv[c].ecfId
      BY <1>1, <3>1, <3>2, <3>3 DEF OnlyRow, TypeOK
    <3>5. Abstract!Reserve(c)
      BY <2>3, <3>3, <3>4, MapsReserve
    <3> QED
      BY <3>5 DEF Abstract!Next
  <2> QED
    BY <2>2, <2>3
<1>12. CASE EmitRollback(r)
  <2> DEFINE row == [inv[d] EXCEPT !.status = "draft"]
  <2>1. d \in Docs /\ UpdateRow(d, row) /\ inv[d].status \in {"emitting", "deleted"}
    BY <1>3, <1>12 DEF EmitRollback, At, IInv, ClaimExclusive, Claimed
  <2>2. CASE inv[d].status = "deleted"
    BY <1>4, <2>1, <2>2 DEF UpdateRow, Exists, Live
  <2>3. CASE inv[d].status = "emitting"
    <3>1. inv' = [inv EXCEPT ![d] = row]
      BY <2>1, <2>3 DEF UpdateRow, Exists, Live
    <3>2. row.status = "draft" /\ row.related = inv[d].related /\ row.ecfId = inv[d].ecfId
      BY <1>2, <2>1 DEF Invoice
    <3> HIDE DEF row
    <3>3. PICK c \in Docs : c = d
      BY <2>1
    <3>4. /\ OnlyRow(c)
          /\ inv'[c].status = "draft"
          /\ inv'[c].related = inv[c].related
          /\ inv'[c].ecfId = inv[c].ecfId
      BY <1>1, <3>1, <3>2, <3>3 DEF OnlyRow, TypeOK
    <3>5. Abstract!GiveBack(c)
      BY <2>3, <3>3, <3>4, MapsGiveBack
    <3> QED
      BY <3>5 DEF Abstract!Next
  <2> QED
    BY <2>1, <2>2, <2>3
<1>13. CASE EmitCommit(r)
  <2> DEFINE row == [inv[d] EXCEPT !.status = "issued", !.ecfId = e, !.estado = req[r].estado]
  <2>1. /\ d \in Docs
        /\ UpdateRow(d, row)
        /\ inv[d].status \in {"emitting", "deleted"}
        /\ e \in Ecfs
        /\ ecf[e].doc = d
    BY <1>3, <1>13 DEF EmitCommit, At, IInv, ClaimExclusive, Claimed, Typed, RequestsNameThings,
       HeldReceipts, HoldsReceipt
  <2>2. CASE inv[d].status = "deleted"
    BY <1>4, <2>1, <2>2 DEF UpdateRow, Exists, Live
  <2>3. CASE inv[d].status = "emitting"
    <3>1. inv' = [inv EXCEPT ![d] = row]
      BY <2>1, <2>3 DEF UpdateRow, Exists, Live
    <3>2. row.status = "issued" /\ row.related = inv[d].related /\ row.ecfId = e
      BY <1>2, <2>1 DEF Invoice
    <3>3. \A c \in Docs : inv[c].ecfId # e
      BY <2>1, <2>3, ConstantsAssumption DEF IInv, OnlyIssuedHasReceipt, IssuedIsBacked
    <3> HIDE DEF row
    <3>4. PICK c \in Docs, f \in Ecfs : c = d /\ f = e
      BY <2>1
    <3>5. /\ OnlyRow(c)
          /\ inv'[c].status = "issued"
          /\ inv'[c].related = inv[c].related
          /\ inv'[c].ecfId = f
      BY <1>1, <3>1, <3>2, <3>4 DEF OnlyRow, TypeOK
    <3>6. Abstract!Issue(c, f)
      BY <2>3, <3>3, <3>4, <3>5, MapsIssue
    <3> QED
      BY <3>6 DEF Abstract!Next
  <2> QED
    BY <2>1, <2>2, <2>3
<1>14. CASE \/ CreditNoteSum(r) \/ EmitCreate(r) \/ EmitValidate(r) \/ EmitSign(r)
            \/ EmitFetch(r) \/ TransmitPost(r) \/ SyncGet(r) \/ SyncStatus(r)
  BY <1>4, <1>14 DEF CreditNoteSum, EmitCreate, EmitValidate, EmitSign, EmitFetch,
     TransmitPost, SyncGet, SyncStatus
<1> QED
  BY <1>5, <1>6, <1>7, <1>8, <1>9, <1>10, <1>11, <1>12, <1>13, <1>14 DEF Continue

\* Every step of the system is an abstract step or none.
LEMMA NextMaps == IInv /\ [Next]_vars => [Abstract!Next]_(Abstract!docVars)
<1> SUFFICES ASSUME IInv, [Next]_vars
             PROVE  [Abstract!Next]_(Abstract!docVars)
  OBVIOUS
<1>1. ASSUME NEW d \in Docs, NEW amount \in Amounts, Create(d, amount)
      PROVE  [Abstract!Next]_(Abstract!docVars)
  <2>1. TypeOK /\ amount \in Nat /\ InsertRow(d, amount, NoDoc)
    BY <1>1, ConstantsAssumption DEF IInv, Typed, Create
  <2>2. inv[d].ecfId = NoEcf
    BY <2>1 DEF InsertRow, IInv, OnlyIssuedHasReceipt
  <2>3. Abstract!NewDraft(d, NoDoc)
    BY <2>1, <2>2, InsertEffect, MapsNewDraft DEF OnlyRow
  <2> QED
    BY <2>3 DEF Abstract!Next
<1>2. ASSUME NEW r \in Reqs, Start(r)
      PROVE  [Abstract!Next]_(Abstract!docVars)
  BY <1>2, MapsStutter DEF Start, CreditNoteRead, UpdateRead, RemoveRead, EmitRead, TransmitRead,
     RefreshRead
<1>3. ASSUME NEW r \in Reqs, Continue(r)
      PROVE  [Abstract!Next]_(Abstract!docVars)
  BY <1>3, ContinueMaps
<1>4. CASE Restart \/ UNCHANGED vars
  BY <1>4, MapsStutter DEF Restart, vars
<1> QED
  BY <1>1, <1>2, <1>3, <1>4 DEF Next

\* Whatever the requests do to each other, to ecf-api and to the process, the
\* documents follow the life of FiscalDocuments.
THEOREM Refinement == Spec => RefinesFiscalDocuments
<1>1. Init => Abstract!Init
  BY DEF Init, NoInvoice, Abstract!Init
<1> QED
  BY <1>1, SpecIInv, NextMaps, PTL DEF Spec, RefinesFiscalDocuments, Abstract!Spec

(***************************************************************************)
(* A reserved document has a request at work on it, while the process      *)
(* does not restart.                                                       *)
(***************************************************************************)
\* Only the claim reserves, and the commit and the rollback of a reserved document
\* that is still there end its reservation.
LEMMA RowsReserved ==
    ASSUME IInv, NEW r \in Reqs, Continue(r), NEW c \in Docs, inv'[c].status = "emitting"
    PROVE  \/ inv[c].status = "emitting" /\ (c = req[r].doc => ~EmitRollback(r) /\ ~EmitCommit(r))
           \/ EmitClaim(r) /\ c = req[r].doc /\ inv[c].status = "draft"
<1> DEFINE d == req[r].doc
           Kept == inv[c].status = "emitting" /\ (c = d => ~EmitRollback(r) /\ ~EmitCommit(r))
<1>1. TypeOK /\ (req[r].pc # "idle" => d \in Docs)
  BY DEF IInv, Typed, RequestsNameThings
<1>2. CASE UNCHANGED inv /\ ~EmitRollback(r) /\ ~EmitCommit(r)
  BY <1>2
<1>3. ASSUME NEW row, d \in Docs, UpdateRow(d, row), row.status = inv[d].status, ~EmitRollback(r), ~EmitCommit(r)
      PROVE  Kept
  BY <1>1, <1>3 DEF UpdateRow, TypeOK
<1>4. ASSUME NEW row, d \in Docs, UpdateRow(d, row), row.status # "emitting"
      PROVE  c # d /\ inv[c].status = "emitting"
  BY <1>1, <1>4 DEF UpdateRow, TypeOK, Exists, Live
<1>5. CASE CreditNoteInsert(r)
  <2>1. ~EmitRollback(r) /\ ~EmitCommit(r)
    BY <1>5 DEF CreditNoteInsert, EmitRollback, EmitCommit, At
  <2>2. CASE UNCHANGED inv
    BY <1>2, <2>1, <2>2
  <2>3. ASSUME NEW b \in Docs, InsertRow(b, req[r].amount, d)
        PROVE  Kept
    <3> DEFINE row == [NoInvoice EXCEPT !.status = "draft", !.related = d,
                                        !.lines = req[r].amount, !.total = req[r].amount]
    <3>1. inv' = [inv EXCEPT ![b] = row]
      BY <2>3 DEF InsertRow
    <3>2. row.status = "draft"
      BY DEF NoInvoice
    <3> HIDE DEF row
    <3> QED
      BY <1>1, <2>1, <3>1, <3>2 DEF TypeOK
  <2> QED
    BY <1>5, <2>2, <2>3 DEF CreditNoteInsert
<1>6. CASE UpdateDeleteLines(r)
  <2> DEFINE row == [inv[d] EXCEPT !.lines = 0]
  <2>1. d \in Docs /\ UpdateRow(d, row) /\ ~EmitRollback(r) /\ ~EmitCommit(r)
    BY <1>1, <1>6 DEF UpdateDeleteLines, EmitRollback, EmitCommit, At
  <2>2. row.status = inv[d].status
    OBVIOUS
  <2> HIDE DEF row
  <2> QED
    BY <1>3, <2>1, <2>2
<1>7. CASE UpdateSaveLines(r)
  <2> DEFINE row == [inv[d] EXCEPT !.lines = @ + req[r].amount]
  <2>1. d \in Docs /\ UpdateRow(d, row) /\ ~EmitRollback(r) /\ ~EmitCommit(r)
    BY <1>1, <1>7 DEF UpdateSaveLines, EmitRollback, EmitCommit, At
  <2>2. row.status = inv[d].status
    OBVIOUS
  <2> HIDE DEF row
  <2> QED
    BY <1>3, <2>1, <2>2
<1>8. CASE UpdatePatch(r)
  <2> DEFINE row == [inv[d] EXCEPT !.total = req[r].amount]
  <2>1. d \in Docs /\ UpdateRow(d, row) /\ ~EmitRollback(r) /\ ~EmitCommit(r)
    BY <1>1, <1>8 DEF UpdatePatch, EmitRollback, EmitCommit, At
  <2>2. row.status = inv[d].status
    OBVIOUS
  <2> HIDE DEF row
  <2> QED
    BY <1>3, <2>1, <2>2
<1>9. CASE SyncWrite(r)
  <2> DEFINE row == [inv[d] EXCEPT !.estado = req[r].estado]
  <2>1. d \in Docs /\ UpdateRow(d, row) /\ ~EmitRollback(r) /\ ~EmitCommit(r)
    BY <1>1, <1>9 DEF SyncWrite, EmitRollback, EmitCommit, At
  <2>2. row.status = inv[d].status
    OBVIOUS
  <2> HIDE DEF row
  <2> QED
    BY <1>3, <2>1, <2>2
<1>10. CASE RemoveDelete(r)
  <2> DEFINE row == [NoInvoice EXCEPT !.status = "deleted"]
  <2>1. d \in Docs /\ (UNCHANGED inv \/ UpdateRow(d, row)) /\ ~EmitRollback(r) /\ ~EmitCommit(r)
    BY <1>1, <1>10 DEF RemoveDelete, EmitRollback, EmitCommit, At
  <2>2. row.status # "emitting"
    BY DEF NoInvoice
  <2> HIDE DEF row
  <2> QED
    BY <1>4, <2>1, <2>2
<1>11. CASE EmitRollback(r)
  <2> DEFINE row == [inv[d] EXCEPT !.status = "draft"]
  <2>1. d \in Docs /\ UpdateRow(d, row)
    BY <1>1, <1>11 DEF EmitRollback, At
  <2>2. row.status # "emitting"
    BY <1>1, <2>1 DEF TypeOK, Invoice
  <2> HIDE DEF row
  <2> QED
    BY <1>4, <2>1, <2>2
<1>12. CASE EmitCommit(r)
  <2> DEFINE row == [inv[d] EXCEPT !.status = "issued", !.ecfId = req[r].ecf, !.estado = req[r].estado]
  <2>1. d \in Docs /\ UpdateRow(d, row)
    BY <1>1, <1>12 DEF EmitCommit, At
  <2>2. row.status # "emitting"
    BY <1>1, <2>1 DEF TypeOK, Invoice
  <2> HIDE DEF row
  <2> QED
    BY <1>4, <2>1, <2>2
<1>13. CASE EmitClaim(r)
  BY <1>1, <1>13 DEF EmitClaim, EmitRollback, EmitCommit, At, TypeOK, Invoice
<1>14. CASE \/ CreditNoteSum(r) \/ EmitCreate(r) \/ EmitValidate(r) \/ EmitSign(r)
            \/ EmitFetch(r) \/ TransmitPost(r) \/ SyncGet(r) \/ SyncStatus(r)
  <2>1. UNCHANGED inv /\ ~EmitRollback(r) /\ ~EmitCommit(r)
    BY <1>14 DEF CreditNoteSum, EmitCreate, EmitValidate, EmitSign, EmitFetch, TransmitPost,
       SyncGet, SyncStatus, EmitRollback, EmitCommit, At
  <2> QED
    BY <1>2, <2>1
<1> QED
  BY <1>5, <1>6, <1>7, <1>8, <1>9, <1>10, <1>11, <1>12, <1>13, <1>14 DEF Continue

\* An emission is at work on its document until its commit or its rollback.
LEMMA StaysClaimed ==
    ASSUME IInv, NEW r \in Reqs, Continue(r), ~EmitRollback(r), ~EmitCommit(r),
           req[r].pc \in Claimed \/ (EmitClaim(r) /\ inv[req[r].doc].status = "draft")
    PROVE  req'[r].pc \in Claimed /\ req'[r].doc = req[r].doc
<1> DEFINE At2 == req'[r].pc \in Claimed /\ req'[r].doc = req[r].doc
<1>1. TypeOK
  BY DEF IInv, Typed
<1>2. ASSUME NEW label \in Claimed, Goto(r, label)
      PROVE  At2
  BY <1>1, <1>2, GotoEffect DEF Pcs
<1>3. ASSUME GiveUp(r)
      PROVE  At2
  BY <1>1, <1>3, GiveUpEffect DEF Claimed
<1>4. CASE EmitClaim(r)
  <2>1. Goto(r, "create")
    BY <1>4 DEF EmitClaim, At, Claimed
  <2> QED
    BY <1>2, <2>1 DEF Claimed
<1>5. CASE EmitCreate(r)
  <2>1. ASSUME NEW f \in Ecfs, req' = [req EXCEPT ![r] = [req[r] EXCEPT !.pc = "validate", !.ecf = f, !.amount = 0]]
        PROVE  At2
    <3>1. PICK next : next = [req[r] EXCEPT !.pc = "validate", !.ecf = f, !.amount = 0]
      OBVIOUS
    <3>2. next.pc = "validate" /\ next.doc = req[r].doc
      BY <1>1, <3>1 DEF TypeOK, Request
    <3>3. req'[r] = next
      BY <1>1, <2>1, <3>1 DEF TypeOK
    <3> QED
      BY <3>2, <3>3 DEF Claimed
  <2> QED
    BY <1>3, <1>5, <2>1 DEF EmitCreate, Call
<1>6. CASE EmitValidate(r)
  <2>1. Goto(r, "sign") \/ GiveUp(r)
    BY <1>6 DEF EmitValidate, Call
  <2> QED
    BY <1>2, <1>3, <2>1 DEF Claimed
<1>7. CASE EmitSign(r)
  <2>1. Goto(r, "fetch") \/ GiveUp(r)
    BY <1>7 DEF EmitSign, Call
  <2> QED
    BY <1>2, <1>3, <2>1 DEF Claimed
<1>8. CASE EmitFetch(r)
  <2>1. CASE Learn(r, "commit", ecf[req[r].ecf].state)
    <3>1. req[r].ecf \in Ecfs
      BY <1>8 DEF EmitFetch, At, IInv, Typed, RequestsNameThings, HoldsReceipt
    <3>2. ecf[req[r].ecf].state \in EcfStates
      BY <1>1, <3>1 DEF TypeOK, Receipt
    <3> QED
      BY <1>1, <2>1, <3>2, LearnEffect DEF Pcs, Claimed
  <2> QED
    BY <1>3, <1>8, <2>1 DEF EmitFetch
<1>9. CASE \/ CreditNoteSum(r) \/ CreditNoteInsert(r) \/ UpdateDeleteLines(r) \/ UpdateSaveLines(r) \/ UpdatePatch(r)
           \/ RemoveDelete(r) \/ TransmitPost(r) \/ SyncGet(r) \/ SyncStatus(r) \/ SyncWrite(r)
  BY <1>9 DEF CreditNoteSum, CreditNoteInsert, UpdateDeleteLines, UpdateSaveLines, UpdatePatch, RemoveDelete,
     TransmitPost, SyncGet, SyncStatus, SyncWrite, EmitClaim, At, Claimed
<1> QED
  BY <1>4, <1>5, <1>6, <1>7, <1>8, <1>9 DEF Continue

LEMMA NextReserved ==
    ASSUME ~Restarts, IInv, ReservedWhileAtWork, [Next]_vars
    PROVE  ReservedWhileAtWork'
<1>1. TypeOK
  BY DEF IInv, Typed
<1> SUFFICES ASSUME NEW d \in Docs, inv'[d].status = "emitting"
             PROVE  \E q \in Reqs : req'[q].pc \in Claimed /\ req'[q].doc = d
  BY DEF ReservedWhileAtWork
<1>2. ASSUME UNCHANGED req, inv[d].status = "emitting"
      PROVE  \E q \in Reqs : req'[q].pc \in Claimed /\ req'[q].doc = d
  BY <1>2 DEF ReservedWhileAtWork
<1>3. ASSUME NEW b \in Docs, NEW amount \in Amounts, Create(b, amount)
      PROVE  \E q \in Reqs : req'[q].pc \in Claimed /\ req'[q].doc = d
  <2>1. inv[d].status = "emitting"
    BY <1>1, <1>3 DEF Create, InsertRow, NoInvoice, TypeOK
  <2> QED
    BY <1>2, <1>3, <2>1 DEF Create
<1>4. ASSUME NEW r \in Reqs, Start(r)
      PROVE  \E q \in Reqs : req'[q].pc \in Claimed /\ req'[q].doc = d
  <2>1. UNCHANGED inv /\ \A q \in Reqs \ {r} : req'[q] = req[q]
    BY <1>1, <1>4, StartEffect
  <2>2. req[r].pc \notin Claimed
    BY <1>4 DEF Start, CreditNoteRead, UpdateRead, RemoveRead, EmitRead, TransmitRead, RefreshRead, Begin, At, Claimed
  <2>3. PICK q \in Reqs : req[q].pc \in Claimed /\ req[q].doc = d
    BY <2>1 DEF ReservedWhileAtWork
  <2> QED
    BY <2>1, <2>2, <2>3
<1>5. ASSUME NEW r \in Reqs, Continue(r)
      PROVE  \E q \in Reqs : req'[q].pc \in Claimed /\ req'[q].doc = d
  <2>1. \A q \in Reqs \ {r} : req'[q] = req[q]
    BY <1>1, <1>5, OthersKept
  <2>2. CASE inv[d].status = "emitting" /\ (d = req[r].doc => ~EmitRollback(r) /\ ~EmitCommit(r))
    <3>1. PICK q \in Reqs : req[q].pc \in Claimed /\ req[q].doc = d
      BY <2>2 DEF ReservedWhileAtWork
    <3>2. CASE q # r
      BY <2>1, <3>1, <3>2
    <3>3. CASE q = r
      BY <1>5, <2>2, <3>1, <3>3, StaysClaimed
    <3> QED
      BY <3>2, <3>3
  <2>3. CASE EmitClaim(r) /\ d = req[r].doc /\ inv[d].status = "draft"
    <3>1. ~EmitRollback(r) /\ ~EmitCommit(r)
      BY <2>3 DEF EmitClaim, EmitRollback, EmitCommit, At
    <3> QED
      BY <1>5, <2>3, <3>1, StaysClaimed
  <2> QED
    BY <1>5, <2>2, <2>3, RowsReserved
<1>6. CASE UNCHANGED vars
  BY <1>2, <1>6 DEF vars
<1> QED
  BY <1>3, <1>4, <1>5, <1>6 DEF Next, Restart

\* While the process does not restart, a reserved document has an emission that will
\* issue it or give it back: no answer of ecf-api, lost or not, and no other request
\* leaves it reserved with nobody at work on it.
THEOREM SpecReservedWhileAtWork == ASSUME ~Restarts PROVE Spec => []ReservedWhileAtWork
<1>1. Init => ReservedWhileAtWork
  BY DEF Init, NoInvoice, ReservedWhileAtWork
<1>2. IInv /\ ReservedWhileAtWork /\ [Next]_vars => ReservedWhileAtWork'
  BY NextReserved
<1> QED
  BY <1>1, <1>2, SpecIInv, PTL DEF Spec

(***************************************************************************)
(* What the refinement gives: an issued document is for good.              *)
(***************************************************************************)
\* A document that is issued keeps its receipt and its invoice until it is
\* deleted, and one that is deleted stays so.
IssuedForGood ==
    \A d \in Docs :
        /\ inv[d].status = "issued" =>
              \/ inv'[d].status = "deleted"
              \/ /\ inv'[d].status = "issued"
                 /\ inv'[d].ecfId = inv[d].ecfId
                 /\ inv'[d].related = inv[d].related
        /\ inv[d].status = "deleted" => inv'[d].status = "deleted"

LEMMA AbstractIssuedForGood == [Abstract!Next]_(Abstract!docVars) => IssuedForGood
<1> SUFFICES ASSUME [Abstract!Next]_(Abstract!docVars), NEW d \in Docs
             PROVE  /\ inv[d].status = "issued" =>
                          \/ inv'[d].status = "deleted"
                          \/ /\ inv'[d].status = "issued"
                             /\ inv'[d].ecfId = inv[d].ecfId
                             /\ inv'[d].related = inv[d].related
                    /\ inv[d].status = "deleted" => inv'[d].status = "deleted"
  BY DEF IssuedForGood
<1> DEFINE phase == [c \in Docs |-> inv[c].status]
           related == [c \in Docs |-> inv[c].related]
           receipt == [c \in Docs |-> inv[c].ecfId]
<1>1. /\ phase[d] = inv[d].status /\ phase'[d] = inv'[d].status
      /\ related[d] = inv[d].related /\ related'[d] = inv'[d].related
      /\ receipt[d] = inv[d].ecfId /\ receipt'[d] = inv'[d].ecfId
      /\ DOMAIN phase = Docs /\ DOMAIN related = Docs /\ DOMAIN receipt = Docs
  OBVIOUS
<1>2. ASSUME NEW c \in Docs, NEW orig, Abstract!NewDraft(c, orig)
      PROVE  /\ phase[c] = "none" /\ phase' = [phase EXCEPT ![c] = "draft"]
             /\ related' = [related EXCEPT ![c] = orig] /\ receipt' = receipt
  BY <1>2 DEF Abstract!NewDraft
<1>3. ASSUME NEW c \in Docs, Abstract!Reserve(c) \/ Abstract!GiveBack(c)
      PROVE  /\ phase[c] \in {"draft", "emitting"}
             /\ phase' = [phase EXCEPT ![c] = "emitting"] \/ phase' = [phase EXCEPT ![c] = "draft"]
             /\ related' = related /\ receipt' = receipt
  BY <1>3 DEF Abstract!Reserve, Abstract!GiveBack
<1>4. ASSUME NEW c \in Docs, NEW e, Abstract!Issue(c, e)
      PROVE  /\ phase[c] = "emitting" /\ phase' = [phase EXCEPT ![c] = "issued"]
             /\ receipt' = [receipt EXCEPT ![c] = e] /\ related' = related
  BY <1>4 DEF Abstract!Issue
<1>5. ASSUME NEW c \in Docs, Abstract!Delete(c)
      PROVE  /\ phase[c] # "deleted" /\ phase' = [phase EXCEPT ![c] = "deleted"]
             /\ related' = [related EXCEPT ![c] = NoDoc] /\ receipt' = [receipt EXCEPT ![c] = NoEcf]
  BY <1>5 DEF Abstract!Delete, Abstract!Present
<1>6. CASE UNCHANGED Abstract!docVars
  BY <1>1, <1>6 DEF Abstract!docVars
<1> HIDE DEF phase, related, receipt
<1>7. CASE Abstract!Next
  <2>1. PICK c \in Docs :
           \/ \E orig \in Docs \cup {NoDoc} : Abstract!NewDraft(c, orig)
           \/ Abstract!Reserve(c) \/ Abstract!GiveBack(c)
           \/ \E e \in Ecfs : Abstract!Issue(c, e)
           \/ Abstract!Delete(c)
    BY <1>7 DEF Abstract!Next
  <2>2. CASE \E orig \in Docs \cup {NoDoc} : Abstract!NewDraft(c, orig)
    BY <1>1, <1>2, <2>2
  <2>3. CASE Abstract!Reserve(c) \/ Abstract!GiveBack(c)
    BY <1>1, <1>3, <2>3
  <2>4. CASE \E e \in Ecfs : Abstract!Issue(c, e)
    BY <1>1, <1>4, <2>4
  <2>5. CASE Abstract!Delete(c)
    BY <1>1, <1>5, <2>5
  <2> QED
    BY <2>1, <2>2, <2>3, <2>4, <2>5
<1> QED
  BY <1>6, <1>7

\* No step of any request, no late refresh, failed call or restart takes an
\* issued document back or gives it another receipt: what is proved of the
\* abstract documents holds of the rows.
THEOREM SpecIssuedForGood == Spec => [][IssuedForGood]_vars
<1>1. IInv /\ [Next]_vars => [IssuedForGood]_vars
  BY NextMaps, AbstractIssuedForGood
<1> QED
  BY <1>1, SpecIInv, PTL DEF Spec
=============================================================================
