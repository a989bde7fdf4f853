--------------------------- MODULE SalesInvoices ---------------------------
(***************************************************************************)
(* The sales documents of stp-api (invoices and credit notes) and their    *)
(* fiscal receipts (e-CF) at the external service ecf-api.                 *)
(*                                                                         *)
(* One process serves every HTTP request, so two requests interleave at    *)
(* each await: a request is a record with a program counter and the values *)
(* it read before its last await.  A step is the code between two awaits,  *)
(* and one SQL statement or one call to ecf-api is atomic.                 *)
(*                                                                         *)
(* A check that fails ends the request with an HTTP error and changes      *)
(* nothing, so only the successful reads are actions.  The lines of a      *)
(* document are represented by the sum of their amounts.                   *)
(***************************************************************************)
EXTENDS Integers, FiniteSets, FiniteSetsExt

CONSTANTS
    Docs,          \* rows of sales_invoices, by id (an id is never reused)
    Ecfs,          \* receipts that ecf-api can create
    Reqs,          \* requests in flight at the same time
    Amounts,       \* amounts of the lines a user may enter
    NoDoc, NoEcf,  \* null references
    LostReplies,   \* may a call take effect at ecf-api and still fail here?
    Restarts       \* may the process stop and start again?

ASSUME ConstantsAssumption ==
    /\ NoDoc \notin Docs
    /\ NoEcf \notin Ecfs
    /\ Amounts \subseteq Nat \ {0}
    /\ LostReplies \in BOOLEAN
    /\ Restarts \in BOOLEAN

VARIABLES
    inv,   \* table sales_invoices, joined with its lines
    ecf,   \* the receipts kept by ecf-api
    req    \* the requests in flight

vars == <<inv, ecf, req>>

(***************************************************************************)
(* Types.                                                                  *)
(***************************************************************************)
Live == {"draft", "emitting", "issued"}
InvoiceStatus == Live \cup {"none", "deleted"}

\* The life of a receipt at ecf-api; "resolved" is DGII's final answer.
EcfStates == {"absent", "created", "validated", "signed", "transmitted", "resolved"}
Signed == {"signed", "transmitted", "resolved"}
Sent == {"transmitted", "resolved"}

\* Where emit holds the reservation of its document.
Claimed == {"create", "validate", "sign", "fetch", "commit", "rollback"}
Pcs == Claimed \cup
    {"idle", "claim", "post", "sync", "status", "sync_write",
     "del_lines", "save_lines", "patch", "delete", "cn_sum", "cn_insert"}

Invoice ==
    [status: InvoiceStatus, related: Docs \cup {NoDoc}, lines: Nat, total: Nat,
     ecfId: Ecfs \cup {NoEcf}, estado: EcfStates]
Receipt == [state: EcfStates, doc: Docs \cup {NoDoc}, amount: Nat]
Request ==
    [pc: Pcs, doc: Docs \cup {NoDoc}, amount: Nat, total: Nat, ecf: Ecfs \cup {NoEcf},
     estado: EcfStates, full: BOOLEAN]

NoInvoice ==
    [status |-> "none", related |-> NoDoc, lines |-> 0, total |-> 0,
     ecfId |-> NoEcf, estado |-> "absent"]
NoReceipt == [state |-> "absent", doc |-> NoDoc, amount |-> 0]
Idle ==
    [pc |-> "idle", doc |-> NoDoc, amount |-> 0, total |-> 0, ecf |-> NoEcf,
     estado |-> "absent", full |-> FALSE]

TypeOK ==
    /\ inv \in [Docs -> Invoice]
    /\ ecf \in [Ecfs -> Receipt]
    /\ req \in [Reqs -> Request]

Init ==
    /\ inv = [d \in Docs |-> NoInvoice]
    /\ ecf = [e \in Ecfs |-> NoReceipt]
    /\ req = [r \in Reqs |-> Idle]

(***************************************************************************)
(* Helpers.                                                                *)
(***************************************************************************)
Exists(d) == inv[d].status \in Live
CreditNotesOf(d) == {c \in Docs : Exists(c) /\ inv[c].related = d}
Credited(d) == MapThenSumSet(LAMBDA c : inv[c].total, CreditNotesOf(d))

At(r, label) == req[r].pc = label
Goto(r, label) == req' = [req EXCEPT ![r].pc = label]
Learn(r, label, state) ==
    req' = [req EXCEPT ![r] = [req[r] EXCEPT !.pc = label, !.estado = state]]
Finish(r) == req' = [req EXCEPT ![r] = Idle]
\* Faulty variant: emit has no catch around the calls to ecf-api.
GiveUpUncaught(r) == Finish(r)

GiveUp(r) ==   \* an emission that failed only remembers its document
    req' = [req EXCEPT ![r] = [Idle EXCEPT !.pc = "rollback", !.doc = req[r].doc]]
Begin(r, next) ==
    /\ At(r, "idle")
    /\ req' = [req EXCEPT ![r] = next]

\* UPDATE ... WHERE id = d: no effect when the row is gone.
UpdateRow(d, row) ==
    inv' = IF Exists(d) THEN [inv EXCEPT ![d] = row] ELSE inv

(***************************************************************************)
(* create and createCreditNote.  A new row and its lines are saved in one  *)
(* transaction.  Documents here come from lines the user typed, without a  *)
(* source quote.                                                           *)
(***************************************************************************)
InsertRow(d, amount, orig) ==
    /\ inv[d].status = "none"
    /\ inv' = [inv EXCEPT ![d] = [NoInvoice EXCEPT !.status = "draft",
              !.related = orig, !.lines = amount, !.total = amount]]

Create(d, amount) ==
    /\ InsertRow(d, amount, NoDoc)
    /\ UNCHANGED <<ecf, req>>

\* A full credit note repeats the lines of the invoice it voids; a partial
\* one has an amount of its own.
CreditNoteRead(r, orig, amount, full) ==
    /\ inv[orig].status = "issued"
    /\ inv[orig].related = NoDoc
    /\ inv[orig].ecfId # NoEcf
    /\ Begin(r, [Idle EXCEPT !.pc = "cn_sum", !.doc = orig, !.full = full, !.total = inv[orig].total,
                 !.amount = IF full THEN inv[orig].lines ELSE amount])
    /\ UNCHANGED <<inv, ecf>>

CreditNoteSum(r) ==
    LET previous == Credited(req[r].doc)
        remaining == req[r].total - previous
        accepted == /\ remaining > 0
                    /\ req[r].full => previous = 0
                    /\ req[r].amount <= remaining
    IN  /\ At(r, "cn_sum")
        /\ IF accepted THEN Goto(r, "cn_insert") ELSE Finish(r)
        /\ UNCHANGED <<inv, ecf>>

\* The foreign key refuses a credit note whose invoice is gone.
CreditNoteInsert(r) ==
    /\ At(r, "cn_insert")
    /\ IF Exists(req[r].doc)
       THEN \E d \in Docs : InsertRow(d, req[r].amount, req[r].doc)
       ELSE UNCHANGED inv
    /\ Finish(r)
    /\ UNCHANGED ecf

(***************************************************************************)
(* update: the status is checked once, at the first read; deleting the old *)
(* lines, saving the new ones and saving the total are three statements.   *)
(***************************************************************************)
UpdateRead(r, d, amount) ==
    /\ inv[d].status = "draft"
    /\ Begin(r, [Idle EXCEPT !.pc = "del_lines", !.doc = d, !.amount = amount])
    /\ UNCHANGED <<inv, ecf>>

UpdateDeleteLines(r) ==
    LET d == req[r].doc
    IN  /\ At(r, "del_lines")
        /\ UpdateRow(d, [inv[d] EXCEPT !.lines = 0])
        /\ Goto(r, "save_lines")
        /\ UNCHANGED ecf

\* Without the row the foreign key of the lines makes the request fail.
UpdateSaveLines(r) ==
    LET d == req[r].doc
    IN  /\ At(r, "save_lines")
        /\ UpdateRow(d, [inv[d] EXCEPT !.lines = @ + req[r].amount])
        /\ IF Exists(d) THEN Goto(r, "patch") ELSE Finish(r)
        /\ UNCHANGED ecf

\* Faulty variant: update saves the whole row it read, status included.
UpdatePatchWholeRow(r) ==
    LET d == req[r].doc
    IN  /\ At(r, "patch")
        /\ UpdateRow(d, [inv[d] EXCEPT !.total = req[r].amount, !.status = "draft"])
        /\ Finish(r)
        /\ UNCHANGED ecf

UpdatePatch(r) ==
    LET d == req[r].doc
    IN  /\ At(r, "patch")
        /\ UpdateRow(d, [inv[d] EXCEPT !.total = req[r].amount])
        /\ Finish(r)
        /\ UNCHANGED ecf

(***************************************************************************)
(* remove: the DELETE is by id alone.  Its lines go with it; a credit note *)
(* of the document makes the foreign key refuse it.                        *)
(***************************************************************************)
RemoveRead(r, d) ==
    /\ inv[d].status = "draft"
    /\ Begin(r, [Idle EXCEPT !.pc = "delete", !.doc = d])
    /\ UNCHANGED <<inv, ecf>>

\* Faulty variant: no foreign key protects the invoice of a credit note.
RemoveDeleteNoForeignKey(r) ==
    /\ At(r, "delete")
    /\ UpdateRow(req[r].doc, [NoInvoice EXCEPT !.status = "deleted"])
    /\ Finish(r)
    /\ UNCHANGED ecf

RemoveDelete(r) ==
    LET d == req[r].doc
    IN  /\ At(r, "delete")
        /\ IF CreditNotesOf(d) = {}
           THEN UpdateRow(d, [NoInvoice EXCEPT !.status = "deleted"])
           ELSE UNCHANGED inv
        /\ Finish(r)
        /\ UNCHANGED ecf

(***************************************************************************)
(* emit.  The document is read and checked, then reserved by a conditional *)
(* UPDATE; the receipt is built from what was read before the reservation. *)
(***************************************************************************)
EmitRead(r, d) ==
    /\ inv[d].status = "draft"
    /\ inv[d].lines > 0
    /\ inv[d].total > 0
    /\ inv[d].related # NoDoc =>
          /\ inv[inv[d].related].status = "issued"
          /\ inv[inv[d].related].ecfId # NoEcf
    /\ Begin(r, [Idle EXCEPT !.pc = "claim", !.doc = d, !.amount = inv[d].lines])
    /\ UNCHANGED <<inv, ecf>>

\* Faulty variant: the UPDATE that reserves has no condition on the status.
EmitClaimUnconditional(r) ==
    LET d == req[r].doc
    IN  /\ At(r, "claim")
        /\ UpdateRow(d, [inv[d] EXCEPT !.status = "emitting"])
        /\ Goto(r, "create")
        /\ UNCHANGED ecf

EmitClaim(r) ==
    LET d == req[r].doc
    IN  /\ At(r, "claim")
        /\ IF inv[d].status = "draft"
           THEN /\ inv' = [inv EXCEPT ![d].status = "emitting"]
                /\ Goto(r, "create")
           ELSE /\ Finish(r)
                /\ UNCHANGED inv
        /\ UNCHANGED ecf

(***************************************************************************)
(* A call to ecf-api is done; or refused without effect; or, when replies  *)
(* may be lost, done but reported here as failed.                          *)
(***************************************************************************)
Call(e, receipt, onSuccess, onFailure) ==
    \/ ecf' = [ecf EXCEPT ![e] = receipt] /\ onSuccess
    \/ UNCHANGED ecf /\ onFailure
    \/ LostReplies /\ ecf' = [ecf EXCEPT ![e] = receipt] /\ onFailure

\* POST /ecf.
EmitCreate(r) ==
    /\ At(r, "create")
    /\ \/ \E e \in Ecfs :
             /\ ecf[e].state = "absent"
             /\ Call(e, [state |-> "created", doc |-> req[r].doc, amount |-> req[r].amount],
                     req' = [req EXCEPT ![r] = [req[r] EXCEPT !.pc = "validate", !.ecf = e, !.amount = 0]],
                     GiveUp(r))
       \/ (\A e \in Ecfs : ecf[e].state # "absent") /\ GiveUp(r) /\ UNCHANGED ecf
    /\ UNCHANGED inv

\* POST /ecf/:id/validate.
EmitValidate(r) ==
    LET e == req[r].ecf
    IN  /\ At(r, "validate")
        /\ Call(e, [ecf[e] EXCEPT !.state = "validated"],
                Goto(r, "sign"), GiveUp(r))
        /\ UNCHANGED inv

\* Faulty variant: the answer of the signature is not looked at.
EmitSignUnchecked(r) ==
    LET e == req[r].ecf
    IN  /\ At(r, "sign")
        /\ Call(e, [ecf[e] EXCEPT !.state = "signed"],
                Goto(r, "fetch"), Goto(r, "fetch"))
        /\ UNCHANGED inv

\* Faulty variant: the receipt is signed and transmitted in the same call,
\* before the document records it.
EmitSignAndTransmit(r) ==
    LET e == req[r].ecf
    IN  /\ At(r, "sign")
        /\ Call(e, [ecf[e] EXCEPT !.state = "transmitted"],
                Goto(r, "fetch"), GiveUp(r))
        /\ UNCHANGED inv

\* POST /ecf/:id/sign: the receipt gets its e-NCF.
EmitSign(r) ==
    LET e == req[r].ecf
    IN  /\ At(r, "sign")
        /\ Call(e, [ecf[e] EXCEPT !.state = "signed"],
                Goto(r, "fetch"), GiveUp(r))
        /\ UNCHANGED inv

\* GET /ecf/:id, whose answer is what is saved.
EmitFetch(r) ==
    /\ At(r, "fetch")
    /\ \/ Learn(r, "commit", ecf[req[r].ecf].state)
       \/ LostReplies /\ GiveUp(r)
    /\ UNCHANGED <<inv, ecf>>

\* Faulty variant: only the error is saved, not the status.
EmitRollbackErrorOnly(r) ==
    /\ At(r, "rollback")
    /\ Finish(r)
    /\ UNCHANGED <<inv, ecf>>

\* Any failure of the calls above: back to draft.
EmitRollback(r) ==
    LET d == req[r].doc
    IN  /\ At(r, "rollback")
        /\ UpdateRow(d, [inv[d] EXCEPT !.status = "draft"])
        /\ Finish(r)
        /\ UNCHANGED ecf

\* Faulty variant: the state of the receipt is saved as the document's.
EmitCommitWrongColumn(r) ==
    LET d == req[r].doc
    IN  /\ At(r, "commit")
        /\ UpdateRow(d, [inv[d] EXCEPT !.status = req[r].estado, !.ecfId = req[r].ecf])
        /\ Finish(r)
        /\ UNCHANGED ecf

\* The request may have asked for the transmission too; only here is it read.
EmitCommit(r) ==
    LET d == req[r].doc
    IN  /\ At(r, "commit")
        /\ UpdateRow(d, [inv[d] EXCEPT !.status = "issued", !.ecfId = req[r].ecf,
                                       !.estado = req[r].estado])
        /\ \/ Finish(r)
           \/ req' = [req EXCEPT ![r] = [Idle EXCEPT !.pc = "post", !.doc = d, !.ecf = req[r].ecf]]
        /\ UNCHANGED ecf

(***************************************************************************)
(* transmit, the transmission asked for at emission (tryTransmit) and      *)
(* refreshEcf end in the same synchronisation with ecf-api.                *)
(***************************************************************************)
TransmitRead(r, d) ==
    /\ inv[d].status = "issued"
    /\ inv[d].ecfId # NoEcf
    /\ inv[d].estado \in {"signed", "validated"}
    /\ Begin(r, [Idle EXCEPT !.pc = "post", !.doc = d, !.ecf = inv[d].ecfId])
    /\ UNCHANGED <<inv, ecf>>

\* Faulty variant: "transmitted" is saved without waiting for the answer.
TransmitPostOptimistic(r) ==
    LET e == req[r].ecf
        d == req[r].doc
    IN  /\ At(r, "post")
        /\ Call(e, [ecf[e] EXCEPT !.state = "transmitted"],
                Goto(r, "sync"), Finish(r))
        /\ UpdateRow(d, [inv[d] EXCEPT !.estado = "transmitted"])

\* POST /ecf/:id/transmit, which ecf-api accepts for a signed receipt.
TransmitPost(r) ==
    LET e == req[r].ecf
    IN  /\ At(r, "post")
        /\ IF ecf[e].state = "signed"
           THEN Call(e, [ecf[e] EXCEPT !.state = "transmitted"],
                     Goto(r, "sync"), Finish(r))
           ELSE Finish(r) /\ UNCHANGED ecf
        /\ UNCHANGED inv

RefreshRead(r, d) ==
    /\ Exists(d)
    /\ inv[d].ecfId # NoEcf
    /\ Begin(r, [Idle EXCEPT !.pc = "sync", !.doc = d, !.ecf = inv[d].ecfId])
    /\ UNCHANGED <<inv, ecf>>

\* GET /ecf/:id; only a transmitted receipt is then asked about at DGII.
SyncGet(r) ==
    LET state == ecf[req[r].ecf].state
    IN  /\ At(r, "sync")
        /\ \/ /\ Exists(req[r].doc)
              /\ Learn(r, IF state = "transmitted" THEN "status" ELSE "sync_write", state)
           \/ ~Exists(req[r].doc) /\ Finish(r)
           \/ LostReplies /\ Finish(r)
        /\ UNCHANGED <<inv, ecf>>

\* GET /ecf/:id/status brings DGII's answer into ecf-api, if there is one,
\* and a second GET reads it; a failure of either leaves what was read.
SyncStatus(r) ==
    LET e == req[r].ecf
    IN  /\ At(r, "status")
        /\ \/ ecf' = [ecf EXCEPT ![e].state = "resolved"]
           \/ UNCHANGED ecf
        /\ \/ Learn(r, "sync_write", ecf'[e].state)
           \/ Goto(r, "sync_write")
        /\ UNCHANGED inv

SyncWrite(r) ==
    LET d == req[r].doc
    IN  /\ At(r, "sync_write")
        /\ UpdateRow(d, [inv[d] EXCEPT !.estado = req[r].estado])
        /\ Finish(r)
        /\ UNCHANGED ecf

(***************************************************************************)
(* The process stops and starts again: the requests in flight are gone and *)
(* nothing looks at the rows they left behind.                             *)
(***************************************************************************)
Restart ==
    /\ Restarts
    /\ \E r \in Reqs : ~At(r, "idle")
    /\ req' = [r \in Reqs |-> Idle]
    /\ UNCHANGED <<inv, ecf>>

Start(r) ==
    \E d \in Docs :
        \/ \E amount \in Amounts, full \in BOOLEAN : CreditNoteRead(r, d, amount, full)
        \/ \E amount \in Amounts : UpdateRead(r, d, amount)
        \/ RemoveRead(r, d)
        \/ EmitRead(r, d)
        \/ TransmitRead(r, d)
        \/ RefreshRead(r, d)

Continue(r) ==
    \/ CreditNoteSum(r) \/ CreditNoteInsert(r)
    \/ UpdateDeleteLines(r) \/ UpdateSaveLines(r) \/ UpdatePatch(r)
    \/ RemoveDelete(r)
    \/ EmitClaim(r) \/ EmitCreate(r) \/ EmitValidate(r) \/ EmitSign(r)
    \/ EmitFetch(r) \/ EmitRollback(r) \/ EmitCommit(r)
    \/ TransmitPost(r) \/ SyncGet(r) \/ SyncStatus(r) \/ SyncWrite(r)

Next ==
    \/ \E d \in Docs, amount \in Amounts : Create(d, amount)
    \/ \E r \in Reqs : Start(r) \/ Continue(r)
    \/ Restart

Spec == Init /\ [][Next]_vars

\* Node's event loop runs every request to its end: each awaited query or
\* call comes back, with an answer or an error.
FairSpec == Spec /\ \A r \in Reqs : WF_vars(Continue(r))

(***************************************************************************)
(* Safety.                                                                 *)
(***************************************************************************)
\* The reservation of emit excludes every other request: no two of them are
\* between the claim and the commit (or rollback) of the same document, and
\* a document somebody holds is either still reserved or was deleted.
ClaimExclusive ==
    \A r \in Reqs : req[r].pc \in Claimed =>
        /\ inv[req[r].doc].status \in {"emitting", "deleted"}
        /\ \A q \in Reqs \ {r} : req[q].pc \in Claimed => req[q].doc # req[r].doc

\* An issued document names a receipt that ecf-api signed for it, and no two
\* documents name the same one, however emissions, failed calls, restarts
\* and deletions interleave.
IssuedIsBacked ==
    \A d \in Docs : inv[d].status = "issued" =>
        /\ inv[d].ecfId \in Ecfs
        /\ ecf[inv[d].ecfId].state \in Signed
        /\ ecf[inv[d].ecfId].doc = d

\* A credit note always modifies an invoice that exists and is issued: the
\* check made when it was requested still holds when it is inserted and for
\* as long as it exists, although remove deletes by id alone.
CreditNoteHasIssuedInvoice ==
    \A c \in Docs : Exists(c) /\ inv[c].related # NoDoc =>
        inv[inv[c].related].status = "issued"

\* Failed calls, lost replies and retries may leave a document with several
\* signed receipts; at most one of them is ever sent to DGII, and as long as the
\* document exists it is the one it records.  A document that is removed while
\* its emission is under way records nothing: emit updates no row and sends the
\* receipt all the same.
SentOnce ==
    /\ \A e, f \in Ecfs :
          (/\ ecf[e].state \in Sent
           /\ ecf[f].state \in Sent
           /\ ecf[e].doc = ecf[f].doc) => e = f
    /\ \A e \in Ecfs :
          ecf[e].state \in Sent /\ Exists(ecf[e].doc) => inv[ecf[e].doc].ecfId = e

\* The state the ERP shows for a receipt is one the receipt has really been
\* through: concurrent refreshes may leave it old, never ahead of ecf-api.
Progress == [s \in EcfStates |->
    CASE s = "absent" -> 0 [] s = "created" -> 1 [] s = "validated" -> 2
      [] s = "signed" -> 3 [] s = "transmitted" -> 4 [] s = "resolved" -> 5]

EstadoNotAhead ==
    \A d \in Docs : inv[d].status = "issued" =>
        Progress[inv[d].estado] <= Progress[ecf[inv[d].ecfId].state]

\* While no reply of ecf-api is lost, a document gets one e-NCF at most: the
\* claim keeps two clicks apart, a failed emission leaves no signed receipt
\* behind, and a restart never frees the document.
EmittedOnce ==
    \A e, f \in Ecfs :
        (/\ ecf[e].state \in Signed
         /\ ecf[f].state \in Signed
         /\ ecf[e].doc = ecf[f].doc) => e = f

(***************************************************************************)
(* Refinement: rows of sales_invoices implement the abstract documents.    *)
(***************************************************************************)
Abstract == INSTANCE FiscalDocuments WITH
    phase <- [d \in Docs |-> inv[d].status],
    related <- [d \in Docs |-> inv[d].related],
    receipt <- [d \in Docs |-> inv[d].ecfId]

\* Whatever the requests do to each other, the documents follow the life of
\* FiscalDocuments: only a reserved document is issued or given back, with a
\* receipt of its own, and no invoice disappears before its credit notes.
RefinesFiscalDocuments == Abstract!Spec

(***************************************************************************)
(* Liveness: a reservation is not kept for ever.                           *)
(***************************************************************************)
\* While the process runs, an emission that fails anywhere gives its document
\* back and one that succeeds issues it: no document stays "emitting".
ClaimEnds == \A d \in Docs : inv[d].status = "emitting" ~> inv[d].status # "emitting"

(***************************************************************************)
(* The reservation, without lost replies and restarts.                     *)
(***************************************************************************)
\* SalesInvoiceStatus.EMITTING: "reservada mientras ecf-api crea/firma el
\* comprobante", so some request is at work on it.
ReservedWhileAtWork ==
    \A d \in Docs : inv[d].status = "emitting" =>
        \E r \in Reqs : req[r].pc \in Claimed /\ req[r].doc = d
=============================================================================
