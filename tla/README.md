# STP ERP: models, checks and proofs

This directory is the formal verification project of STP ERP. It models the
parts of `stp-api` in which requests, background jobs and external services
interleave over shared state, checks the models with TLC on small instances and
proves, with TLAPS, what matters most for instances of any size.

    tlc -config SalesInvoices_safety.cfg MCSalesInvoices.tla
    tlc -config PriceImports_alone.cfg MCPriceImports.tla
    tlc -config Quotes_crowd.cfg MCQuotes.tla
    tlapm QuotesProofs.tla

Sections 3 to 13 take the components one by one; section 14 says what is not modelled.

## 1. The system

`stp-api` is one NestJS process over PostgreSQL (TypeORM, READ COMMITTED). Node
runs one callback at a time, so two requests interleave exactly at each `await`:
a step of every model here is the code between two awaits, and one SQL
statement, one transaction or one HTTP call to another service is atomic. State
that is in memory is lost in a restart; the rows are not.

| Component (under `src/stp-api/src` unless said) | State | Operations | What is hard | What makes it correct |
|---|---|---|---|---|
| **Sales documents and e-CF** `sales-invoices/`, `ecf/` | documents with lines, status, link to their receipt; receipts at ecf-api | create, credit note, update, remove, emit, transmit, refresh | checks made before an await and used after it; four calls to ecf-api that may fail halfway; lost answers; restarts | one emission at a time per document; issued means signed; signed once; issued documents are frozen; credit notes keep their invoice |
| **Receivables** `sales-invoices/`, `payments/` | invoices of a quote, payments applied to invoices | create from quote, add, apply, unlink, edit and delete payments | check-then-write on sums; two-statement creation | never invoiced over the quote, never paid over the balance, a payment counts once |
| **Price imports** `costs/price-imports.*` | batches and their lines, append-only prices; a job queue in Redis | upload, worker, retry, review, approve | worker crash and redelivery, concurrent approvals and edits | a failed reading does not leave its batch in `processing`; a line gives one price, and keeps it |
| **Payroll** `payroll/`, `expenses/` | payrolls and lines, loan balances, the expense of a payroll | create, edit, remove, pay; edit loans and expenses | transactions over three tables, row locks, unlocked loan edits | loan = principal − discounted instalments; one expense per paid payroll |
| **Quotes** `quotes/` | quote, items, status, revisions | decide, send, remind, expire, revise, convert | client's decision against the daily jobs and stale saves | a decision is final; one project per quote |
| **Messaging** `messaging/` | contacts, messages, delivery status, alerts | webhook, statuses, send, escalate | duplicates, order, retries | each message once, status never goes back, every unattended contact is escalated |
| **Copilot** `messaging/copilot/` | one suggestion per conversation | schedule, run, send, discard | the model answers while the conversation goes on | nothing stale is shown or sent (rules R1–R12 of `docs/whatsapp-copiloto.md`) |
| **Supplier invoices by WhatsApp** `fiscal-invoices/whatsapp-invoice-flow.service.ts` | one conversation per sender, in memory | photo, retry, choose, save, cancel | concurrent webhooks of one sender, old buttons | nothing saved without confirmation, and what was confirmed |
| Supplier invoices `fiscal-invoices/` | fiscal invoices, their split into expenses | create, edit, split, 606 | sums and duplicates | the parts add up |
| Sessions `auth/` | refresh tokens | login, refresh, logout | two refreshes at once | a token is used once |
| Scheduler `scheduler/` | none of its own | daily notices | notice sent, then recorded | told once |
| Catalogue, projects, tasks, clients, inventory, files, reports, notifications, tickets, monitor, front ends, tooling | rows of their own | create, read, update, delete | little | — |

How they meet: a quote is the cap of its invoices and becomes a project; a
payment belongs to a client, a project and at most one invoice; a payroll owns
an expense and discounts loans; messaging feeds the copilot and the supplier
invoice flow; the scheduler calls quotes and payments; sales documents call
ecf-api, which talks to DGII.

`PROJECT.json` lists every hazard found, at its line.

## 2. The plan

Done, in the order of what each component risks:

1. **SalesInvoices**, **FiscalDocuments** (abstract), proofs: sections 3 and 4.
2. **PriceImports**, proofs: sections 5 and 6.
3. **Receivables**, proofs: section 7. It takes of SalesInvoices what an emission does to
   the status of a document.
4. **Quotes**, proofs: sections 8 and 9.
5. **Payroll** with the expense of a payment, proofs: section 10.
6. **Messaging** and **Copilot**, which extends it, proofs: sections 11 and 12. The
   conversation of Messaging is the abstract specification of the one with a copilot.
7. **InvoiceFlow**, proofs: section 13.

Left:

- the split of a supplier invoice into expenses and the other pure algorithms (quote to
  lines, payroll amounts) against reference definitions over bounded inputs.
- the rotation of refresh tokens, and delivery statuses and `claimSend` in Messaging.

Every safety property and action property of the runs has its theorem (the sections of the
proofs say under which assumptions); the liveness properties (`ClaimEnds`, `ProcessingEnds`,
`PendingEnds`, `Attended`, `ReadingEnds`) stay with TLC, since liveness under fairness is out of
the reach of the prover.

`Sums.tla` is the sum of a column over some rows, which `Receivables` and `Payroll` use;
`SumsProofs.tla` proves its laws: an element comes, goes or changes, a part sums to no more than
the whole. A sum over a set is a fold, so each law needs an induction over the set. The library's
induction theorems take a predicate as a parameter, which the provers cannot instantiate; the proofs
take instead a counterexample of the least cardinality (`LeastNumber`, `Smallest`) and find a
smaller one.

Every module takes its sets as CONSTANTS with a named assumption, has one action
per step, and no RECURSIVE operator where theorems are wanted. A faulty variant of an
operator stands before it, with a comment that says what is wrong in it: it shows which
line of the code a property depends on, and no specification uses it.

## 3. Sales documents (`SalesInvoices.tla`)

**State.** `inv` is the table `sales_invoices` joined with its lines: a document
is `none` (not created), `draft`, `emitting`, `issued` or `deleted`; `related` is
the invoice a credit note modifies, `lines` the sum of its lines, `total` the
stored total (the two differ while an update is halfway), `ecfId` and `estado` the
link to its receipt. `ecf` holds the receipts at ecf-api. `req[r]` is a request in
flight: a program counter and what it has read.

**Actions** (service lines in `PROJECT.json`, "map"):

| Request | Steps |
|---|---|
| create | `Create` |
| createCreditNote | `CreditNoteRead`, `CreditNoteSum`, `CreditNoteInsert` |
| update | `UpdateRead`, `UpdateDeleteLines`, `UpdateSaveLines`, `UpdatePatch` |
| remove | `RemoveRead`, `RemoveDelete` |
| emit | `EmitRead`, `EmitClaim`, `EmitCreate`, `EmitValidate`, `EmitSign`, `EmitFetch`, then `EmitCommit` or, after any failure, `EmitRollback` |
| transmit, tryTransmit | `TransmitRead`, `TransmitPost`, then syncEcf |
| refreshEcf, syncEcf | `RefreshRead`, `SyncGet`, `SyncStatus`, `SyncWrite` |
| the process restarts | `Restart` |

**The environment.** `Call` is a call to ecf-api: done; refused without effect;
or, when `LostReplies` is TRUE, done but reported as failed. The same constant
lets a GET fail. ecf-api itself is outside the repository: a receipt goes from
created to validated, signed, transmitted and resolved, and is transmitted only
when signed, which is what the comments of `ecf-client.service.ts` and
`sales-invoices.service.ts` say of it. The foreign keys of the migrations are in
the steps they affect (`RemoveDelete`, `CreditNoteInsert`, `UpdateSaveLines`).

**Left out.** The quote a document comes from and payments (section 7);
numbers and their retry; texts, dates, taxes by line; a statement that the
database refuses for reasons of its own (its effect on an emission is that of a
restart at that point). An identifier is never used again, and a status that the
code stores as null (no receipt yet) is `absent`.

**Abstract specification.** `FiscalDocuments` has the life of a document without
requests: `NewDraft`, `Reserve`, `GiveBack`, `Issue` with a receipt no other
document has, `Delete`. `Abstract` maps `inv` to it and `RefinesFiscalDocuments`
says that every step of every request is one of these or changes none of it.

### Runs

| Run | Instance | Shows |
|---|---|---|
| `sales_safety` | 2 documents, 2 receipts, 2 requests, lost replies and restarts; 1.25 million states | the six invariants and the refinement |
| `sales_fair` | 1 document, 2 receipts, 2 requests, no lost reply, no restart; 49 thousand states | signed once, reserved only while an emission works, every reservation ends |
| `sales_lost_reply` | 1 document, 2 receipts, 1 request, lost replies | a violation: two signed receipts for one document |

**Bounds.** Every property relates at most two documents (an invoice and its
credit note, or two that could share a receipt), two receipts or two requests, and
a request touches one document, one receipt and the invoice of a credit note. Two
of each is the smallest instance with every such pair. A failed emission consumes a receipt,
so two receipts allow a failure and a retry. One amount suffices where amounts
only tell empty from not empty; requests repeat without a bound. Identifiers run
out in a finite instance, which is why deadlock is not checked: a system where all
documents are issued and nobody asks for anything has nothing to do. Documents,
receipts and requests are symmetric in every safety run; the liveness run uses no
symmetry.

**Fairness.** `FairSpec` assumes that each request in flight goes on
(`WF(Continue(r))`): the event loop resumes a request when its query or call comes
back, with an answer or an error. Nothing is assumed of users: no request has to
start. Liveness is checked without restarts because a restart forgets the request.

### Findings

`sales_lost_reply` is a disagreement between the code and its own comments, quoted with its
lines in `PROJECT.json`: an answer of ecf-api that is lost leads to a second e-CF of the
same document.

Seen while modelling, without a run of their own: an edit or a deletion that read a draft is not
stopped by the emission that comes meanwhile, so an issued document may change or disappear; a
restart leaves a document in `emitting`, which no operation accepts; the remainder of an invoice
is read before a credit note is inserted, so two at once may credit it twice, and the edit of a
draft credit note does not look at it at all; a draft whose removal read it before an emission
claimed it (`RemoveRead`, `EmitClaim`, `RemoveDelete`) is gone when the emission commits, the
UPDATE of line 573 touches no row and fails nothing, and the receipt is sent to DGII (line 587)
with no document that records it.

## 4. Proofs about sales documents

For any sets of documents, receipts, requests and amounts; `ConstantsAssumption`
only says that null is not an identifier and that amounts are positive.

`SalesInvoicesProofs.tla`: whatever `LostReplies` and `Restarts` are, `Spec` implies
`[]TypeOK`, `[]ClaimExclusive`, `[]IssuedIsBacked`, `[]CreditNoteHasIssuedInvoice`
and `[]SentOnce`. None of these is inductive. `IInv` adds what requests in
flight carry from one await to the next: a request names a document, and a receipt
when it has one; the receipt an emission holds belongs to its document and is in the
state the emission left it in (`HeldReceipts`), so what `EmitCommit` records was
signed for it; a receipt being transmitted or read again was recorded by its
document, unless that was deleted (`UsedReceipts`); the invoice of a credit note
being created was issued, and stays so unless deleted (`CreditNoteRequests`); only an
issued document names a receipt (`OnlyIssuedHasReceipt`). The key step is `EmitClaim`:
a document in draft is held by nobody, which is `ClaimExclusive` itself read
backwards. The proof has lemmas on what each kind of update does to one row
(`GotoEffect`, `RowEffect`, `ReceiptEffect`, ...), lemmas for families of steps that
only read, end or give up (`QuietIInv`, `EndsIInv`, `GivesUpIInv`, `ReadsIInv`,
`SendsIInv`), one case per action in `ContinueIInv`, and under it one step per
conjunct.

The second part of the module has what needs the history of receipts:

- `SpecEmittedOnce`: if replies are not lost, a document gets one signed e-CF, also
  across restarts. The strengthening (`NotSignedYet`) says that the document of a
  signed receipt is not a draft and that no emission before its signature works on
  it; the assumption is used where an emission gives up, which must mean that
  nothing was signed. The run
  `sales_lost_reply` shows that the assumption cannot be dropped.
- `SpecEstadoNotAhead`: the state kept for a receipt is one the receipt has reached.
  The strengthening (`RememberedStates`) says the same of the state that each refresh
  has in hand, and receipts never go back.

The third part is the refinement: `Spec => RefinesFiscalDocuments`. Initial states map
to initial states, and under `IInv` each step of each request maps to one abstract
step or to none; the only step whose abstract guard is not its own guard is
`EmitCommit` (a receipt that no other document has), which is `HeldReceipts`.

`SpecSentOnce`: of the receipts that failed calls, lost replies and restarts leave signed for one
document, at most one is ever sent to DGII, and it is the one the document records while it
exists. Sent receipts alone do not give it: `UsedApart` counts a receipt as in use when it was
sent or a request is transmitting or synchronising it (`InUse`), and says that a document has at
most one in use, and none while it is claimed for emission. That it was recorded is `UsedReceipts`
and `SentIsRecorded`. It says nothing of a document removed during its emission but that it has no
second one: that receipt is sent and recorded nowhere (section 3).

`SpecIssuedForGood` is what the refinement gives at once: it is proved of the few steps of the abstract
documents (`AbstractIssuedForGood`) that an issued document keeps its receipt and its invoice until it
is deleted, and that a deleted one does not come back; so the rows do the same, whatever writes late.

`SpecReservedWhileAtWork`: without restarts, lost replies or not, a document
that is reserved is in the hands of an emission. It needs nothing stronger than `IInv`, but the two
halves of the argument: only a claim reserves (`RowsReserved`), and the emission that holds a document
leaves it only by the commit or the rollback that ends the reservation (`StaysClaimed`). With restarts
it does not hold: the reservation of an emission that a restart interrupts is never given back.

Only model-checked: `ClaimEnds`, a liveness property.

## 5. Supplier price lists (`PriceImports.tla`)

**State.** `imp` is the status of each import; `line` the table of extracted lines,
each with its import, status, material and the price it created; `price` the prices
that come from imports; `mat` the materials; `job` the queue in Redis, a job with the
attempts it has left; `worker` the one worker, with the job in its hands and the
step it is at; `req[r]` a request in flight, with the rows it has read.

**Actions.**

| Request | Steps |
|---|---|
| upload | `Create`, `Encolar` |
| retry | `RetryRead`, `RetryCount`, `RetryUpdate`, `RetryFind`, `Encolar` |
| worker | `WorkerTake`, `WorkerMark`, `WorkerExtract`, `WorkerSave`, then `WorkerReview` or, after any failure, `WorkerFail` |
| edit a line, create its material, match again | `UpdateLineRead`, `MaterialForLineRead` or `RematchRead`, then `SaveLinesRead`, `SaveLines` |
| approve | `ApproveRead`, `ApproveLines`, for each line `ApprovePrice`, `ApproveSaveRead` and `ApproveSave`, then `ApproveCount`, `ApproveRefresh` |
| remove an import | `RemoveRead`, `RemoveDelete` |
| remove a material | `RemoveMaterialRead`, `RemoveMaterialDelete` |
| the process restarts | `Restart` |

A `save(row)` of TypeORM is two steps: a query that reads the row again (`SaveLinesRead`,
`ApproveSaveRead`, into `seen`), and an update of the columns in which the row the request
holds differs from it (`Patched`). What others wrote before the query is overwritten where it
differs; what they wrote after it stays, but for those columns. The foreign keys of the
migrations refuse an update that names a material or a price that is gone (`Accepted`), clear
the references to a deleted one, and delete lines with their import and prices with their
material.

**The environment.** The AI service may fail or find any lines, matched with any
materials or none. The queue is external: it hands out jobs one at a time, runs a
failed one again while it has attempts left, and gives back the job of a worker that
disappeared. Reading and saving the lines may fail at each step, the last one included
(`WorkerReview`, after the lines were saved). With `Outages` the process restarts at any
time, the queue may refuse a job, and the two writes outside the try of `process` may fail
too (`WorkerThrows`).

**Left out.** The data of a line and what it is checked for (a price may be refused for any
reason); prices entered by hand or taken from expenses, and voiding; the file on disk; other
failures of the database, such as a material that a unit price analysis still uses and that
therefore is not deleted; the queue's limit on jobs given back.

### Runs

| Run | Instance | Shows |
|---|---|---|
| `prices_alone` | 1 import, 2 lines, 2 prices, 2 jobs, 1 request beside the worker, no outage; 62 thousand states | one price per line; an approved line has its price and stays approved; an import is read again only when none of its lines is approved; it leaves pending, and processing, whatever step of a reading fails |
| `prices_crowd` | 1 import, 1 line, 2 jobs, 2 requests, outages; 1.18 million states | types, and no line with a price that is gone or of another line |

**Bounds.** Every property is about one import or one line, except
`OnePricePerLine`, which takes two prices; a second line lets an approval have one
line done and one to do when another thing happens. Two jobs are the job of an import
and the one of its retry, in the queue together. Two attempts are one that fails and
one after it. `ApprovedHasPrice` and `NoneApprovedIsReread` hold with outages too, for one request:
section 6 proves it.

**Fairness.** Requests and worker go on when their calls come back
(`WF(Continue(r))`, `WF(Work)`), as before. The queue is first in, first out, and the
worker takes the next job whenever it is free, so a job that is there is taken in the
end even if others come after it: `SF(WorkerTake(j))`. Strong fairness is needed
because the worker is not free all the time. With outages there is no such promise: the
job of a worker that stopped finds its import in processing and ignores it.

### Observations

- The attempts of the queue do nothing after a failure, since `process` ignores an import that
  is not pending. For the same reason the job that survives a restart leaves its import in
  processing, and `retry` does not accept it. `price-import.processor.ts:17-18` says that a
  restart in the middle of an extraction does not lose the work: the job is not lost, the work
  is. With `Outages`, TLC violates `ProcessingEnds`; the run that checks it has none.
- When the write of line 143 fails after that of line 141, the import is failed and has lines.
  The comment of `prepareRetry` (lines 279-283) lets only an import that failed or has no lines
  be read again: this one is both failed and full, and its second reading adds the lines of
  the same PDF beside the first ones.
- An edition that reads a line before an approval saves it, and whose save compares with the
  row of before, writes its status after: the line is rejected and keeps the price. With one
  person at a time this cannot be (`ApprovedIsFinal`).
- The material of a line can be deleted, after its prices were counted, while the line is
  approved. Two approvals of a line at once give it two prices, and so does one whose process
  restarts between the price and the line.
- Two retries of a failed import at once may put it back to pending when the first one has
  already filled it with lines.
- A line that is edited or rejected never updates the status of its import, which stays in
  review with nothing pending until somebody approves something.

## 6. Proofs about price lists (`PriceImportsProofs.tla`)

For any sets of imports, lines, prices, materials, jobs and requests, and any number
of attempts (`ConstantsAssumption`: null is not an identifier, and a job has at least
one attempt): `Spec` implies `[]TypeOK` and `[]PriceIsOfLine`, with outages or without
them. The inductive `IInv` adds what a request remembers (`Remembered`): a row it will save
names no price, or one that was created from that line if it still lives (`OfLine`), since a
price never becomes another line's; and the price it has just created, if it is still there,
was created from the line it is about to save. Whatever columns an update then writes, the
price of the row is the one the table had, or the one the request holds, which the foreign
key demands to be live: lemmas `RowsWrittenBack` and `WriteIInv`, from which the steps that
save rows follow. Without that key it fails, which is the faulty variant `ApproveSaveAnyPrice`.

If there is one request at a time (`\A q, r \in Reqs : q = r`) then also
`[]ApprovedHasPrice`, whatever the worker does and however often the process restarts.
The strengthening (`RemovalIsFree`) says that a material about to be deleted has no
prices, which nobody else can change; with two requests an approval can.

The last part proves, also for one request at a time (`OneAtATime`), `[]NoneApprovedIsReread` and
`ApprovedIsFinal`, with outages or without, and without outages `[]OnePricePerLine`. None is
inductive. `AloneInv`, which TLC checked first, with and without outages, adds:

- what the worker knows (`WorkerKnows`): its import is pending or gone when it starts, and while it
  is read, processing or gone;
- what the request knows (`Knows`): a retry, that its import failed or has no approved line; an
  approval, that its import is in review or done; whoever writes rows back, that those lines are
  still under review and of the same import (`Rewrites`), and, between the query of a save and its
  update, that `seen` is still the row; between a price and its line, that the price lives and has
  the material of the row, which is still in the catalogue, so that the foreign keys let the update
  through;
- of the tables: `WaitingIsUnapproved`, `OwnedIsLive`, and `ApprovedMaterial` (a line is approved
  with the material of its price, so removing a material without prices changes no approved line);
- `Accounted`: a price that lives is named by its line, or the line is gone, or the request that
  created it is about to save the line. A restart at that point breaks it, and then the line may be
  approved again: TLC finds `OnePricePerLine` violated with outages.

Requests and worker do not disturb each other because they work on imports of different statuses:
`StatusesGoOn` and `LinesGoOn` are what a request leaves the worker (`AloneMoves`), `WorkerKeeps`
what the worker leaves a request (`WorkerAloneMoves`); each action then shows one of the two.
With two requests at a time the four properties fail; how, the observations of section 5 say.

Only model-checked: liveness (`ProcessingEnds`, `PendingEnds`).

## 7. What clients owe (`Receivables.tla`, `ReceivablesProofs.tla`)

**State.** `billable` are the quotes that may be invoiced; `inv` the documents with their
quote, the invoice a credit note modifies, status and total; `pay` the payments with their
status, amount and the invoice they are applied to; `req[r]` a request in flight.

| Request | Steps |
|---|---|
| create from a quote | `CreateLoad`, `CreateSum` (assertWithinQuote), `CreateInsert` |
| update | `UpdateRead`, `UpdateSum`, `UpdatePatch` |
| remove | `RemoveRead`, `RemoveDelete` |
| createCreditNote | `CreditNoteRead`, `CreditNoteSum`, `CreditNoteInsert` |
| addPayment, applyPayment | `AddRead` or `ApplyRead`; `AttachPaid` and `AttachCredited`, the two sums of assertCapacity; then `AddPayment` and `LinkPayment`, or `ApplyPayment` |
| edit a payment | `PaymentRead`, `PaymentSave`: the whole row |
| in one statement | `UnlinkPayment`, `CreatePayment`, `DeletePayment`, `Supersede` (a quote revised), `EmitClaim`, `EmitRollback`, `EmitCommit` |
| the process restarts | `Restart` |

Sums are read in one statement each and used after it, so with `Crowd` other requests change
what was summed. The foreign keys unlink the payments of a deleted document and refuse to
delete the invoice of a credit note.

**Left out.** The cent and the peso the code allows for rounding; several clients and projects;
the emission beyond its effect on the status (section 3); dates and references; the query that
`save` makes before it writes a payment (section 5 has it), so that a stale row is written whole
here.

| Run | Instance | Shows |
|---|---|---|
| `receivables_alone` | 3 documents, 2 payments, 4 rows between them, 1 quote of 2, amounts up to 2, one request at a time; 889 thousand states | no sequence of invoices, edits, credit notes and removals exceeds the quote; a payment enters an invoice only while it fits |
| `receivables_crowd` | 2 documents, 1 payment, 2 requests that overlap, restarts; 238 thousand states | types; a payment is only ever linked to an issued invoice |

**Bounds.** Three documents are two invoices that compete for a quote, or an invoice and the
credit note that frees what a third may take. A total of 2 with amounts 1 and 2 tells "fits
exactly" from "one too many" on each side. Two payments are one already applied to the invoice
and one that asks for what is left of it. Four rows (`MaxRows`) are three documents with one
payment, or an invoice, its credit note and two payments; the run also passes with all five
(4.83 million states). `LinkedIsIssued` is about one payment and one document, and needs a
second request to write, delete or unlink between its reads.

**Proof.** `SpecLinkedIsIssued`, for any sets and with any overlap. The invariant says what
a request remembers (`Remembers`): the invoice it will link was issued when it was read, and
since then it can only have been deleted (an issued invoice never goes back to draft); a row
of a payment about to be saved names an invoice that was issued. `Settled` says that it
stays so. Deleted documents are unlinked by the foreign key, and a link to a deleted one is
refused. `SpecTypeOK` follows, also with any overlap.

`SpecInvoicedWithinQuote` and `SpecAppliedFits`, for requests one at a time (`Crowd` FALSE) and
across restarts. The sums are computed in one step and used in a later one, so `KInv` says for each
program counter what of them still holds (`Knows`): the amount about to be written fits beside the
documents of the quote, the balance in hand is the total less what is paid and credited now. It
still holds because nobody else writes in between (`OneAtWork`). `WriteWithin` is the step of the
argument: a row that counts no more than the one it replaces, or that fits, keeps the quote within
its total, by the laws of `SumsProofs`. `AppliedFits` is an action property: whatever step applies a
payment to an invoice, it fits there.

**Observations.** With requests that overlap, two invoices of one quote pass
assertWithinQuote together and two payments pass assertCapacity together: both caps are
exceeded, and nothing in the database refuses it. addPayment creates the payment and links
it in two statements, so a restart between them leaves a payment that is in no invoice. The
edit of a payment does not look at the balance of its invoice, and saves a whole row that
may bring back a link that was removed meanwhile. An invoice issued after a removal read it
as a draft is deleted.

## 8. Quotes (`Quotes.tla`)

**State.** `quote` is the table: status, base number, revision, the revision that replaces
it (`next`), reminders sent. `answer`, `req`, `expiry` and `reminder` are what clients, staff
and the two jobs have read. `past` is a history of each quote: how often the client answered
and was reminded since the quote was last sent, and whether a stale row was written over it.

| Actor | Steps |
|---|---|
| the client | `DecideRead`, `DecideUpdate`: conditional on the quote still being open |
| staff | `Create`; `UpdateCheck`, `UpdateLoad`; `ItemsCheck`, `Recalculate`; `SendRead`; `ConvertRead`; `ReviseRead`, `ReviseInsert`; each ends in `Save`, which writes the whole row |
| staff | `Remove`: the foreign key clears the references to the quote |
| expireOverdueQuotes | `ExpireRead`, `ExpireUpdate`: by id |
| remindPendingQuotes | `RemindRead`, `RemindMail`, `RemindMark` |
| the process restarts | `Restart` |

"Stale" is computed, not assumed: `Write` compares every row it changes with what each
request holds, and `Save` of a stale row marks the quote as lost (`Lost`); so does an expiry
that overwrites an answer, a reminder counted from an older count, and a restart between the
two writes of one operation. `AnsweredOnce` and `RemindersWithinMax` are stated for quotes
that are not lost, and `SupersededByLater` for all.

**Left out.** Items, totals and numbers of a quote; its project; mails and PDF; dates, so a job
may find any open quote overdue; the query that `save` makes before it writes, so that a stale row
is written whole, and marks its quote as lost.

| Run | Instance | Shows |
|---|---|---|
| `quotes_crowd` | 2 rows of 1 family, 2 revisions, 1 reminder, 2 clients, 1 request of the staff, both jobs, restarts; 1.40 million states | types and the three properties |

**Bounds.** A double click needs two clients; a quote and its revision are the two rows;
one reminder is a maximum already, since what could go wrong is one more. One request of
the staff is stale beside clients and jobs; two of them are the business of the theorems,
which hold for any number.

**Observations.** These are the ways in which a quote is lost: an edit, the sending or the
conversion that read an open quote saves it whole after the client decided, and the decision
disappears; the expiry reads the open quotes and updates them by id, so an accepted quote
may become expired; a quote is mailed a reminder before it is counted, so a restart
between them repeats it. Also: the removal of a middle revision leaves two current
revisions of a family, and two conversions at once may create two projects.

## 9. Proofs about quotes (`QuotesProofs.tla`)

For any sets of quotes, families, clients and requests and any maxima: `Spec` implies
`[]TypeOK`, `[]SupersededByLater`, `[]AnsweredOnce` and `[]RemindersWithinMax`.

`SupersededByLater` compares the numbers of two rows, and either may be deleted and inserted
again by a late save. The invariant therefore is `\E id : J(id)`: `id` gives every quote that
was ever created one number for ever; a step that creates one extends it (`Grows`), and every
other step keeps it. `J(id)` says that each row, in the table or in the hands of a request,
has its number and names a later one (`Rows`, `Holds`); what a request that is not stale
knows is still true (`InFlight`, `RowIsCurrent`); and how the history of a quote relates to
its row (`PastKept`: an open quote has no answer, and no more reminders than its count plus
the one mailed and not counted, `Marks`). `WriteKept` shows that after a `Write` every
request either holds current rows or is marked stale; `UpdateJ` is the case of a row changed
in place, `NewRow` that of a row inserted, `SaveJ` that of a whole row saved; the rest is one
lemma per action.

## 10. Payroll (`Payroll.tla`, `PayrollProofs.tla`)

**State.** `loan`, `entry` and `expense` are the tables, for one collaborator (an expense whose
deletion failed is `kept`, one whose creation failed after it was saved `lost`); `lock` the row lock
that `create` and `remove` take; `broken` the payments whose expense was removed by hand or whose
undoing failed too; `req[r]` a request.

| Request | Steps |
|---|---|
| create | `CreateLock`, `CreateExpense` (on another connection, outside the transaction), then `CreateCommit`, or `CreateFail` and `Discard` |
| remove | `RemoveTransaction`, `Discard` |
| update | `UpdateRead`, `UpdateCheck`, `UpdateSave`, then `SyncExpense` and `LinkExpense`, or `DetachExpense` and `Discard`; after a failure `UpdateRevert` |
| loans | `LoanCreate`; `LoanRead`, `LoanSave` |
| expenses | `DeleteByHand` |

A transaction is one step where it reads and one where it commits, and holds `lock` between them;
every call may fail. `ExpensesService.create` is several statements, and the one that reads the new
expense back may fail after the one that saved it: then the payroll's transaction fails, or its
edition is undone, with the expense in the table. `Discounted` and `Refunded` are what a payment
takes from its loan and gives back.

**Left out.** Several collaborators (nothing is shared between two but the projects); the amounts
of a payment other than its instalment; numbers; restarts; a commit that was done although its
reply was lost; the query that `save` makes before it writes.


| Run | Instance | Shows |
|---|---|---|
| `payroll_alone` | 2 payments, 1 loan, 2 expenses, 2 keys, one with a project, loans up to 2, 2 requests; 3.23 million states | a loan's balance and its discounts add up to it; a paid payment of a project has its expense and no other has; no expense whose creation succeeded is left without its payment, unless its deletion failed; no expense is shared |

**Bounds.** `Overlap` is FALSE: creations and removals run two at a time, editions alone.
Two payments are two discounts of one balance, and two that could share an expense. A loan
of 2 has a whole and a partial instalment.

**Proofs.** `SpecTypeOK` and `SpecOwnExpense`, for any sets and for either value of `Overlap`.
A row read before is saved again, so that no payment has an expense now does not mean that
none will: `IInv` says that there is an owner for each expense that was ever linked, which
never changes, and that the rows of the payments, and those that requests have read, name
only expenses they own (`Own`); an expense just created in a transaction has no owner yet
and is in no other transaction (`Apart`). What keeps a reference from outliving its expense
is the foreign key: it clears the references when the expense goes, and refuses a row that
refers to one that is gone. `StepJ` is a step of any request, `QuietJ` one that links
nothing; then one lemma per action.

`SpecLoanConserved`, `SpecPaidHasExpense` and `SpecNoOrphan`, if no edition overlaps with another
request (`Overlap` FALSE); creations, removals and expenses deleted by hand overlap as they like,
and every call may fail. The three are proved together (`AInv`): an edition that finds its payment
unpaid must also find it with no expense. What is added: an edition is `Alone`, and the table still
has the row it read or wrote (`KnowsExpense`, `KnowsLoan`); a creation holds the lock from its first
statement to its end (`LockHeld`), so the balance it read is the one it discounts; an expense in the
hands of a request is in no payment and in no other hands (`Held`), so dropping it drops nobody's,
and forgetting it is what would leave an orphan. That a balance and its discounts add up to the loan
is a sum over the payments, of which a step changes one row (`SumsProofs`).

**Observations.** With `Overlap`, an edition of a loan saves the balance it read and undoes
an instalment discounted meanwhile; an update that read a payment before its removal inserts
it again, and a second removal refunds it again. Un-cancelling a payment with update skips
assertNoDuplicate when its key does not change, so two equal payments may be active. The
expense is created on a connection of its own: a crash before the commit leaves it without a
payment, and so does a failure of `expenses.service.ts:67`, which reads the expense saved at
line 65: `onExpenseCreated` is not called, `discardExpense` gets no id, and the labour of the
project is counted with no payment. `NoOrphan` names that case.

## 11. The inbox (`Messaging.tla`)

**State.** One conversation: `message`, each identified by the time it was written;
`contact`, its row; `hook` the webhooks being handled; `reply` the answers being sent;
`job`, whether escalateUnattended has read the conversation; two histories, `counted` and
`notices`.

| Actor | Steps |
|---|---|
| the client | `Write`; Meta delivers it at any time, as often as it likes |
| ingestMessage | `HookCheck`, `HookInsert` (a unique index), `HookCount` |
| sendOutbound | `ReplySave`, then `ReplyAccepted` or `ReplyFailed`, `ReplyContact` or, if the database fails, `ReplyLost` |
| escalateUnattended | `EscalateRead`, `EscalateMark`: conditional |

**Left out.** The creation of a contact, the automatic acknowledgement, delivery statuses,
attachments, stages and owners, `claimSend` (it depends on the clock). The database fails only
while an answer that Meta took is recorded (`ReplyLost`: the message stands, the contact does not
know); a POST that timed out counts as `ReplyFailed`, whether Meta took it or not, as in the code.

| Run | Instance | Shows |
|---|---|---|
| `messaging_alone` | 4 messages, 2 webhooks, 1 answer that overlaps with nothing; 5.7 thousand states | whatever the order of the webhooks, the contact shows what the last message says; every message of the client is answered or told of |

**Bounds.** Two webhooks bring the same message twice or two messages in the wrong order;
with four messages the client may write before and after an answer, twice.

**Fairness.** `Fairness` says that handlers and answers go on and that the job runs again and
again and finishes: the event loop resumes a request when its query comes back, and the
scheduler starts the job every few minutes. Nobody has to write or answer.

**Observations.** An answer that overlaps with the job leaves `escalatedAt` on a conversation
that was answered, so the next message of the client is not told of; sendOutbound clears
`awaitingReply` although the client may have written since it was called; a delivery status is
compared with the one read before; a crash between the insertion of a message and the update of
its contact leaves the message uncounted, since the next webhook finds it there. The automatic
acknowledgement is an answer that overlaps with the webhook it answers. The mark of
escalateUnattended and its notice are one step of the model and two of the code: a stop between
them (lines 356-377) loses the notice, which is never sent again.

## 12. The copilot (`Copilot.tla`, `CopilotProofs.tla`)

`Copilot` extends `Messaging`: `timer` schedules an analysis, `run` are the analyses under way,
`suggestion` the table, identified by the message that triggered each, `press` the persons at a
button; `texts` and `doubted` are histories: how often each text left, and which suggestions were
given back, after their text had left, to somebody about to claim them.

| Actor | Steps |
|---|---|
| schedule and run | `Heard` (a webhook that counts a message starts the timer), `RunRead`, `RunSave`, `RunSupersede` |
| send | `PressRead`, `PressCurrent` (assertStillCurrent), `PressClaim` (a conditional update), `PressSend` or `PressRefused`, `PressAccepted` or `PressFailed` (whose text may have left: a POST that timed out), `PressDone` or `PressLost` (the database fails after Meta accepted), after a failure `PressRestore`, which may fail too |
| discard, write by hand | `DiscardRead`, `DiscardUpdate`; `Manual` |
| the conversation | `Conversation`: any other step of Messaging |

| Run | Instance | Shows |
|---|---|---|
| `copilot_crowd` | 3 messages, 2 webhooks, 2 persons, 2 analyses, all overlapping; 1.27 million states | a message counts once; the staff is told once between two answers; a suggestion leaves once, but in the case below |

**Proofs**, for any bound on the messages and any sets: `SpecCountedOnce`,
`SpecEscalatedOnce` and, if answers overlap with nothing, `SpecWaitingIsSeen`;
`CopilotImplementsMessaging` (`CopilotSpec => Spec`) carries them over to the conversation
with a copilot; `SpecSuggestionSentOnce`. The invariants: at most one webhook is between the
insertion of a message and its count (`MInv`); while nothing is under way, the contact agrees
with the last message counted (`WInv`); whoever is past the claim of a suggestion is the only
one (`CInv`), which is kept because the claim is conditional and because only its owner
restores it. That is not enough once a suggestion may be given back after its text left: what
then stops the next person is `assertStillCurrent`, for the answer is in the conversation.
`KInv` says so (`LeftIsAnswered`: after the message of a suggestion whose text left there is an
answer), and `LeftOnce` that a text that left can only be claimed by somebody who passed
assertStillCurrent before: the suggestion is not pending (`Closed`), or was given back with
nobody about to claim it (`GivenBack`), or is in `doubted`. `Attended` is a liveness property
and stays with TLC.

**Observations.** Discarding and giving back a suggestion are by id. The client may write
between assertStillCurrent and the sending, and is answered with the older suggestion. Whatever
fails after Meta took the text (the writes of `messaging.service.ts:587-606` and of
`copilot.service.ts:193`, or the answer to the POST) gives the suggestion back as pending although
the client has it. A second person who passed assertStillCurrent before the text left, and claims
after it was given back, sends it again: the comment of `copilot.service.ts:189` says that two
persons who press at once do not send two messages, and without the exception for `doubted` TLC
violates the property.

## 13. Supplier invoices by WhatsApp (`InvoiceFlow.tla`, `InvoiceFlowProofs.tla`)

**State.** The memory of the process for one colleague: `session`, `processing`, `failed` (the
photo kept for a retry), and `conv`, the Session objects, which handlers may hold after they left
the map; `work`, the handlers under way; `shown`, the last question of the chat; `registered` and
`calls`, what went to the register.

| Message | Steps |
|---|---|
| a photo, "reintentar" | `File` or `Retry`; then `ReadNothing`, `ReadSaturated` or `ReadFound`; `Told` |
| a destination | `Browse`; `Choose`, then `Chosen` or `NotFound` |
| "cancelar", "cambiar" | `Cancel`, `Change` |
| "guardar" | `Save`, `Registered` |
| time | `Expire`, `ExpirePhoto`, `Restart` |

| Run | Instance | Shows |
|---|---|---|
| `invoice_flow` | 2 photos, 2 conversations, 2 destinations, 2 handlers; 35 thousand states | a conversation is registered at most once, is not replaced by another while it waits, is registered as the last question showed it; no reading lasts for ever |

**Bounds.** Two webhooks at once and two photos are a second photo while the first is read or
waits; two destinations are a choice and a changed choice. `SavedAsShown` is for a colleague who
waits for the answer to a destination and presses no old button (`Overlap` FALSE); the other three
were also checked with `Overlap` TRUE (145 thousand states).

**Fairness.** Handlers go on (`WF(Continue(h))`). No message has to come.

**Proofs.** `SpecTypeOK`, `SpecSavedOnce` and `SpecOneAtATime` for any sets and any overlap:
while a photo is read no conversation waits and nothing else is read (`ReadsAlone`), so what
`ReadFound` opens replaces nothing; a conversation in the map was not handed to the register
(`SessionIsNew`). `SpecSavedAsShown`, without overlap: the last question is about the conversation
of now (`ShownIsSession`). `ReadingEnds` stays with TLC.

**Observations.** The photo kept after a saturated reading is dropped when another one is read
well, and replaced when another is saturated. With overlap, a destination that is resolved late
asks about an invoice that is no longer the conversation, and the button "guardar" of an older
question saves the one of now. The set `seen` of delivered messages is not modelled: a photo
may come any number of times.

## 14. Not modelled, and why

- **Supplier invoices** (`fiscal-invoices.service.ts`), **catalogue and unit prices**: sums and
  formulas over one row at a time; pure functions of the plan.
- **Sessions** (`auth/`): two refreshes of one token at once give two pairs to the same user, and
  a logout of all ends both; a module of the plan.
- **Scheduler**: its jobs that keep state are in Quotes and Messaging; the notices of due
  invoices are sent before they are recorded, so they are sent at least once and nothing claims
  more.
- **The projects of conversions, delivery statuses**: named in sections 8 and 11.
- **Projects, tasks, clients, suppliers, collaborators, inventory, fichas, files, search,
  settings, tickets**: one row per request, with no relation between rows that outlives one.
- **Reports, PDF, Excel, notifications, push**: they read, lay out and send.
- **Web front ends, monitor, watchdog, MCP server, deployment**: no state that other parts
  rely on.

Most of the repository's lines are of these kinds, interface above all: the modules take the
services whose state several actors change at once.
