---------------------------- MODULE PriceImports ----------------------------
(***************************************************************************)
(* Supplier price lists of stp-api: a PDF is uploaded as an import, a      *)
(* queued job extracts its lines with an AI service, people review the     *)
(* lines and approve them, and an approved line becomes a material price.  *)
(*                                                                         *)
(* The worker (one job at a time) and the HTTP requests run in the same    *)
(* process and interleave at each await.  A request is a record with a     *)
(* program counter and the rows it has read; one SQL statement is atomic.  *)
(* save(row) of TypeORM is two: it reads the row again, and updates the    *)
(* columns in which the row it was given differs from what it read then.   *)
(* A check that fails ends a request and changes nothing, so only the      *)
(* successful reads are actions.                                           *)
(***************************************************************************)
EXTENDS Integers, FiniteSets

CONSTANTS
    Imports,       \* rows of price_imports, by id (an id is never reused)
    Lines,         \* rows of price_import_lines
    Prices,        \* rows of material_prices
    Materials,     \* rows of materials
    Jobs,          \* places in the queue
    Reqs,          \* requests in flight at the same time
    Attempts,      \* times the queue runs a job that fails
    NoImport, NoLine, NoPrice, NoMaterial, NoJob,
    Outages        \* may the process restart, the queue refuse a job, or the
                   \* database the status that the worker writes?

ASSUME ConstantsAssumption ==
    /\ NoImport \notin Imports
    /\ NoLine \notin Lines
    /\ NoPrice \notin Prices
    /\ NoMaterial \notin Materials
    /\ NoJob \notin Jobs
    /\ Attempts \in Nat \ {0}
    /\ Outages \in BOOLEAN

VARIABLES
    imp,      \* the status of each import
    line,     \* table price_import_lines
    price,    \* table material_prices
    mat,      \* the materials of the catalogue
    job,      \* the queue, kept by Redis
    worker,   \* the worker of the queue
    req       \* the requests in flight

vars == <<imp, line, price, mat, job, worker, req>>

(***************************************************************************)
(* Types.                                                                  *)
(***************************************************************************)
ImportStatus == {"none", "pending", "processing", "review", "done", "failed", "deleted"}
RowStatus == {"none", "live", "deleted"}
LiveLine == {"pending", "approved", "rejected"}

Line ==
    [imp: Imports \cup {NoImport}, status: LiveLine \cup {"none", "deleted"},
     material: Materials \cup {NoMaterial}, price: Prices \cup {NoPrice}]
Price ==
    [status: RowStatus, line: Lines \cup {NoLine}, material: Materials \cup {NoMaterial}]
Job == [imp: Imports \cup {NoImport}, attempts: 0..Attempts]
Worker == [pc: {"idle", "mark", "extract", "save", "review", "failed"}, job: Jobs \cup {NoJob}]
Request ==
    [pc: {"idle", "enqueue", "retry_count", "retry_update", "retry_find", "save_lines",
          "save_update", "approve_read", "approve", "approve_save", "approve_update",
          "refresh", "delete", "delete_material"},
     imp: Imports \cup {NoImport}, todo: SUBSET Lines, rows: [Lines -> Line],
     seen: [Lines -> Line], line: Lines \cup {NoLine}, price: Prices \cup {NoPrice},
     material: Materials \cup {NoMaterial}, flag: BOOLEAN]

NoRow == [imp |-> NoImport, status |-> "none", material |-> NoMaterial, price |-> NoPrice]
FreePrice == [status |-> "none", line |-> NoLine, material |-> NoMaterial]
FreeJob == [imp |-> NoImport, attempts |-> 0]
IdleWorker == [pc |-> "idle", job |-> NoJob]
Idle ==
    [pc |-> "idle", imp |-> NoImport, todo |-> {}, rows |-> [l \in Lines |-> NoRow],
     seen |-> [l \in Lines |-> NoRow], line |-> NoLine, price |-> NoPrice, material |-> NoMaterial, flag |-> FALSE]

TypeOK ==
    /\ imp \in [Imports -> ImportStatus]
    /\ line \in [Lines -> Line]
    /\ price \in [Prices -> Price]
    /\ mat \in [Materials -> RowStatus]
    /\ job \in [Jobs -> Job]
    /\ worker \in Worker
    /\ req \in [Reqs -> Request]

Init ==
    /\ imp = [i \in Imports |-> "none"]
    /\ line = [l \in Lines |-> NoRow]
    /\ price = [p \in Prices |-> FreePrice]
    /\ mat \in [Materials -> {"none", "live"}]
    /\ job = [j \in Jobs |-> FreeJob]
    /\ worker = IdleWorker
    /\ req = [r \in Reqs |-> Idle]

(***************************************************************************)
(* Helpers.                                                                *)
(***************************************************************************)
Exists(i) == imp[i] \notin {"none", "deleted"}
LinesOf(i) == {l \in Lines : line[l].imp = i}
PendingOf(i) == {l \in LinesOf(i) : line[l].status = "pending"}
Catalogue == {m \in Materials : mat[m] = "live"} \cup {NoMaterial}
Unused == {l \in Lines : line[l].status = "none"}

\* The rows of the lines in ls as a request reads them.
Read(ls) == [l \in Lines |-> IF l \in ls THEN line[l] ELSE NoRow]

\* UPDATE price_imports SET status: no effect when the row is gone.
UpdateStatus(i, status) ==
    imp' = IF Exists(i) THEN [imp EXCEPT ![i] = status] ELSE imp

\* The foreign keys of the columns written: neither the material nor the price
\* may be gone.
Accepted(row, seen) ==
    /\ row.material \notin {seen.material, NoMaterial} => mat[row.material] = "live"
    /\ row.price \notin {seen.price, NoPrice} => price[row.price].status = "live"

\* UPDATE of the columns in which row differs from what save saw of the line.
Patched(l, row, seen) ==
    [imp |-> line[l].imp,
     status |-> IF row.status = seen.status THEN line[l].status ELSE row.status,
     material |-> IF row.material = seen.material THEN line[l].material ELSE row.material,
     price |-> IF row.price = seen.price THEN line[l].price ELSE row.price]

\* The updates of save(rows), one transaction: all or none; a line that is gone
\* by now is not there to update.
PatchRows(ls, rows, seen) ==
    line' = IF \A l \in ls : Accepted(rows[l], seen[l])
            THEN [l \in Lines |-> IF l \in ls /\ line[l].status \in LiveLine
                                  THEN Patched(l, rows[l], seen[l]) ELSE line[l]]
            ELSE line

\* save(rows) reads its rows.  One that is gone would be inserted, which its
\* import, gone too, does not allow.
AllLive(ls) == \A l \in ls : line[l].status \in LiveLine

At(r, label) == req[r].pc = label
Goto(r, label) == req' = [req EXCEPT ![r].pc = label]
Finish(r) == req' = [req EXCEPT ![r] = Idle]
Begin(r, next) == At(r, "idle") /\ req' = [req EXCEPT ![r] = next]

(***************************************************************************)
(* create and the POST that calls it: the row is saved, then the job is    *)
(* added to the queue.                                                     *)
(***************************************************************************)
Create(r, i) ==
    /\ imp[i] = "none"
    /\ imp' = [imp EXCEPT ![i] = "pending"]
    /\ Begin(r, [Idle EXCEPT !.pc = "enqueue", !.imp = i])
    /\ UNCHANGED <<line, price, mat, job, worker>>

\* Faulty variant: attempts taken for the runs after the first one.
EncolarOneMore(r) ==
    /\ At(r, "enqueue")
    /\ \E j \in Jobs :
          /\ job[j] = FreeJob
          /\ job' = [job EXCEPT ![j] = [imp |-> req[r].imp, attempts |-> Attempts + 1]]
    /\ Finish(r)
    /\ UNCHANGED <<imp, line, price, mat, worker>>

Encolar(r) ==
    /\ At(r, "enqueue")
    /\ \/ \E j \in Jobs :
             /\ job[j] = FreeJob
             /\ job' = [job EXCEPT ![j] = [imp |-> req[r].imp, attempts |-> Attempts]]
       \/ Outages /\ UNCHANGED job
    /\ Finish(r)
    /\ UNCHANGED <<imp, line, price, mat, worker>>

(***************************************************************************)
(* retry: prepareRetry reads the import, counts its lines, makes it        *)
(* pending again and reads it back; then the job is added.                 *)
(***************************************************************************)
RetryRead(r, i) ==
    /\ imp[i] \in {"failed", "review"}
    /\ Begin(r, [Idle EXCEPT !.pc = "retry_count", !.imp = i, !.flag = (imp[i] = "failed")])
    /\ UNCHANGED <<imp, line, price, mat, job, worker>>

\* Faulty variant: an import in review is read again without looking at its lines.
RetryCountIgnored(r) ==
    /\ At(r, "retry_count")
    /\ Goto(r, "retry_update")
    /\ UNCHANGED <<imp, line, price, mat, job, worker>>

RetryCount(r) ==
    /\ At(r, "retry_count")
    /\ IF req[r].flag \/ LinesOf(req[r].imp) = {} THEN Goto(r, "retry_update") ELSE Finish(r)
    /\ UNCHANGED <<imp, line, price, mat, job, worker>>

RetryUpdate(r) ==
    /\ At(r, "retry_update")
    /\ UpdateStatus(req[r].imp, "pending")
    /\ Goto(r, "retry_find")
    /\ UNCHANGED <<line, price, mat, job, worker>>

\* Faulty variant: retry makes the import pending and adds no job.
RetryFindNoJob(r) ==
    /\ At(r, "retry_find")
    /\ Finish(r)
    /\ UNCHANGED <<imp, line, price, mat, job, worker>>

RetryFind(r) ==
    /\ At(r, "retry_find")
    /\ IF Exists(req[r].imp) THEN Goto(r, "enqueue") ELSE Finish(r)
    /\ UNCHANGED <<imp, line, price, mat, job, worker>>

(***************************************************************************)
(* The worker: PriceImportProcessor.process and PriceImportsService.process. *)
(***************************************************************************)
WorkerImport == job[worker.job].imp
WorkerGoto(label) == worker' = [worker EXCEPT !.pc = label]
JobDone(j) == job' = [job EXCEPT ![j] = FreeJob]

\* A job that failed is run again later, unless that was its last attempt.
JobFailed(j) ==
    LET left == job[j].attempts - 1
    IN  job' = [job EXCEPT ![j] = IF left > 0 THEN [imp |-> job[j].imp, attempts |-> left]
                                  ELSE FreeJob]

WorkerTake(j) ==
    LET i == job[j].imp
    IN  /\ worker.pc = "idle"
        /\ job[j] # FreeJob
        /\ CASE imp[i] = "pending" ->
                  worker' = [pc |-> "mark", job |-> j] /\ UNCHANGED job
             [] Exists(i) /\ imp[i] # "pending" -> JobDone(j) /\ UNCHANGED worker
             [] OTHER -> JobFailed(j) /\ UNCHANGED worker
        /\ UNCHANGED <<imp, line, price, mat, req>>

\* A write that fails outside the try is thrown to the queue.
WorkerThrows ==
    /\ Outages
    /\ JobFailed(worker.job)
    /\ worker' = IdleWorker
    /\ UNCHANGED imp

WorkerMark ==
    /\ worker.pc = "mark"
    /\ \/ /\ UpdateStatus(WorkerImport, "processing")
          /\ WorkerGoto("extract")
          /\ UNCHANGED job
       \/ WorkerThrows
    /\ UNCHANGED <<line, price, mat, req>>

\* The PDF is read and sent to the AI service, which may fail.
WorkerExtract ==
    /\ worker.pc = "extract"
    /\ \E next \in {"save", "failed"} : WorkerGoto(next)
    /\ UNCHANGED <<imp, line, price, mat, job, req>>

\* The lines found, each with a material when the match is sure; there may
\* be none.
WorkerSave ==
    /\ worker.pc = "save"
    /\ \E found \in SUBSET Unused : \E match \in [found -> Catalogue] :
          IF found = {} \/ Exists(WorkerImport)
          THEN /\ line' = [l \in Lines |->
                     IF l \in found
                     THEN [NoRow EXCEPT !.imp = WorkerImport, !.status = "pending",
                                        !.material = match[l]]
                     ELSE line[l]]
               /\ WorkerGoto("review")
          ELSE /\ WorkerGoto("failed")
               /\ UNCHANGED line
    /\ UNCHANGED <<imp, price, mat, job, req>>

\* The last write of the try, with what the reading cost and what it left out:
\* when it fails, the import fails with the lines it has already got.
WorkerReview ==
    /\ worker.pc = "review"
    /\ \/ /\ UpdateStatus(WorkerImport, "review")
          /\ JobDone(worker.job)
          /\ worker' = IdleWorker
       \/ /\ WorkerGoto("failed")
          /\ UNCHANGED <<imp, job>>
    /\ UNCHANGED <<line, price, mat, req>>

\* Faulty variant: the failure is only thrown, not written in the import.
WorkerFailOnlyThrows ==
    /\ worker.pc = "failed"
    /\ JobFailed(worker.job)
    /\ worker' = IdleWorker
    /\ UNCHANGED <<imp, line, price, mat, req>>

WorkerFail ==
    /\ worker.pc = "failed"
    /\ \/ /\ UpdateStatus(WorkerImport, "failed")
          /\ JobFailed(worker.job)
          /\ worker' = IdleWorker
       \/ WorkerThrows
    /\ UNCHANGED <<line, price, mat, req>>

Work == WorkerMark \/ WorkerExtract \/ WorkerSave \/ WorkerReview \/ WorkerFail

(***************************************************************************)
(* updateLine, createMaterialForLine and rematch read rows, change them    *)
(* and save them.  createMaterialsForLines repeats the second, line by     *)
(* line.                                                                   *)
(***************************************************************************)
SaveLater(r, ls, rows) ==
    Begin(r, [Idle EXCEPT !.pc = "save_lines", !.todo = ls, !.rows = rows])

\* Faulty variant: an approved line is edited as well.
UpdateLineReadAny(r, l) ==
    /\ line[l].status \in LiveLine
    /\ \E status \in {"pending", "rejected"}, material \in Catalogue :
          SaveLater(r, {l}, [Read({l}) EXCEPT ![l].status = status, ![l].material = material])
    /\ UNCHANGED <<imp, line, price, mat, job, worker>>

UpdateLineRead(r, l) ==
    /\ line[l].status \in LiveLine \ {"approved"}
    /\ \E status \in {"pending", "rejected"}, material \in Catalogue :
          SaveLater(r, {l}, [Read({l}) EXCEPT ![l].status = status, ![l].material = material])
    /\ UNCHANGED <<imp, line, price, mat, job, worker>>

MaterialForLineRead(r, l) ==
    /\ line[l].status = "pending"
    /\ \E m \in Materials :
          /\ mat[m] = "none"
          /\ mat' = [mat EXCEPT ![m] = "live"]
          /\ SaveLater(r, {l}, [Read({l}) EXCEPT ![l].material = m])
    /\ UNCHANGED <<imp, line, price, job, worker>>

RematchRead(r, i) ==
    LET ls == PendingOf(i)
    IN  /\ Exists(i)
        /\ ls # {}
        /\ \E match \in [ls -> Catalogue] :
              SaveLater(r, ls, [l \in Lines |-> IF l \in ls /\ line[l].material = NoMaterial
                                               THEN [line[l] EXCEPT !.material = match[l]]
                                               ELSE Read(ls)[l]])
        /\ UNCHANGED <<imp, line, price, mat, job, worker>>

SaveLinesRead(r) ==
    /\ At(r, "save_lines")
    /\ IF AllLive(req[r].todo)
       THEN req' = [req EXCEPT ![r] = [req[r] EXCEPT !.pc = "save_update", !.seen = Read(req[r].todo)]]
       ELSE Finish(r)
    /\ UNCHANGED <<imp, line, price, mat, job, worker>>

SaveLines(r) ==
    /\ At(r, "save_update")
    /\ PatchRows(req[r].todo, req[r].rows, req[r].seen)
    /\ Finish(r)
    /\ UNCHANGED <<imp, price, mat, job, worker>>

(***************************************************************************)
(* approve: the import is read, then the lines asked for, and each of them *)
(* becomes a price; a line that fails does not stop the others.            *)
(***************************************************************************)
ApproveRead(r, i) ==
    /\ imp[i] \in {"review", "done"}
    /\ \E ls \in SUBSET Lines \ {{}} :
          Begin(r, [Idle EXCEPT !.pc = "approve_read", !.imp = i, !.todo = ls])
    /\ UNCHANGED <<imp, line, price, mat, job, worker>>

\* Faulty variant: lines already approved are not skipped.
ApproveLinesAgain(r) ==
    LET ls == {l \in req[r].todo \cap LinesOf(req[r].imp) : line[l].material # NoMaterial}
    IN  /\ At(r, "approve_read")
        /\ req' = [req EXCEPT ![r] = [req[r] EXCEPT !.pc = "approve", !.todo = ls, !.rows = Read(ls)]]
        /\ UNCHANGED <<imp, line, price, mat, job, worker>>

\* Lines of another import, already approved or without material are skipped.
ApproveLines(r) ==
    LET ls == {l \in req[r].todo \cap LinesOf(req[r].imp) :
                  line[l].status # "approved" /\ line[l].material # NoMaterial}
    IN  /\ At(r, "approve_read")
        /\ req' = [req EXCEPT ![r] = [req[r] EXCEPT !.pc = "approve", !.todo = ls, !.rows = Read(ls)]]
        /\ UNCHANGED <<imp, line, price, mat, job, worker>>

\* MaterialPricesService.create, which may refuse the line's data.
ApprovePrice(r) ==
    /\ At(r, "approve")
    /\ \E l \in req[r].todo :
          \/ \E p \in Prices :
                /\ price[p] = FreePrice
                /\ mat[req[r].rows[l].material] = "live"
                /\ price' = [price EXCEPT ![p] = [status |-> "live", line |-> l,
                                                 material |-> req[r].rows[l].material]]
                /\ req' = [req EXCEPT ![r] = [req[r] EXCEPT !.pc = "approve_save",
                                              !.todo = req[r].todo \ {l}, !.line = l, !.price = p]]
          \/ /\ req' = [req EXCEPT ![r].todo = req[r].todo \ {l}]
             /\ UNCHANGED price
    /\ UNCHANGED <<imp, line, mat, job, worker>>

ApproveSaveRead(r) ==
    /\ At(r, "approve_save")
    /\ IF AllLive({req[r].line})
       THEN req' = [req EXCEPT ![r] = [req[r] EXCEPT !.pc = "approve_update", !.seen = Read({req[r].line})]]
       ELSE Goto(r, "approve")
    /\ UNCHANGED <<imp, line, price, mat, job, worker>>

\* The row approved, with the price it has just got.
ApprovedRow(q) == [q.rows[q.line] EXCEPT !.status = "approved", !.price = q.price]

\* Faulty variant: the column of the price has no foreign key.
ApproveSaveAnyPrice(r) ==
    LET l == req[r].line
        row == ApprovedRow(req[r])
    IN  /\ At(r, "approve_update")
        /\ line' = IF line[l].status \in LiveLine
                   THEN [line EXCEPT ![l] = Patched(l, row, req[r].seen[l])] ELSE line
        /\ Goto(r, "approve")
        /\ UNCHANGED <<imp, price, mat, job, worker>>

ApproveSave(r) ==
    LET l == req[r].line
    IN  /\ At(r, "approve_update")
        /\ PatchRows({l}, [req[r].rows EXCEPT ![l] = ApprovedRow(req[r])], req[r].seen)
        /\ Goto(r, "approve")
        /\ UNCHANGED <<imp, price, mat, job, worker>>

\* refreshStatus: the pending lines are counted, then the status is written.
ApproveCount(r) ==
    /\ At(r, "approve")
    /\ req[r].todo = {}
    /\ req' = [req EXCEPT ![r] = [Idle EXCEPT !.pc = "refresh", !.imp = req[r].imp,
                                  !.flag = (PendingOf(req[r].imp) = {})]]
    /\ UNCHANGED <<imp, line, price, mat, job, worker>>

ApproveRefresh(r) ==
    /\ At(r, "refresh")
    /\ UpdateStatus(req[r].imp, IF req[r].flag THEN "done" ELSE "review")
    /\ Finish(r)
    /\ UNCHANGED <<line, price, mat, job, worker>>

(***************************************************************************)
(* remove: the lines go with their import, the prices stay.                *)
(***************************************************************************)
RemoveRead(r, i) ==
    /\ Exists(i)
    /\ Begin(r, [Idle EXCEPT !.pc = "delete", !.imp = i])
    /\ UNCHANGED <<imp, line, price, mat, job, worker>>

RemoveDelete(r) ==
    /\ At(r, "delete")
    /\ UpdateStatus(req[r].imp, "deleted")
    /\ line' = [l \in Lines |-> IF l \in LinesOf(req[r].imp)
                                THEN [NoRow EXCEPT !.status = "deleted"] ELSE line[l]]
    /\ Finish(r)
    /\ UNCHANGED <<price, mat, job, worker>>

(***************************************************************************)
(* MaterialsService.remove: only a material without prices; the database   *)
(* takes the prices of a material with it, and clears every reference.     *)
(***************************************************************************)
PricesOf(m) == {p \in Prices : price[p].status = "live" /\ price[p].material = m}

\* Faulty variant: the prices of the material are not counted.
RemoveMaterialReadAny(r, m) ==
    /\ mat[m] = "live"
    /\ Begin(r, [Idle EXCEPT !.pc = "delete_material", !.material = m])
    /\ UNCHANGED <<imp, line, price, mat, job, worker>>

RemoveMaterialRead(r, m) ==
    /\ mat[m] = "live"
    /\ PricesOf(m) = {}
    /\ Begin(r, [Idle EXCEPT !.pc = "delete_material", !.material = m])
    /\ UNCHANGED <<imp, line, price, mat, job, worker>>

RemoveMaterialDelete(r) ==
    LET m == req[r].material
        kept(p) == IF p \in PricesOf(m) THEN NoPrice ELSE p
    IN  /\ At(r, "delete_material")
        /\ mat' = [mat EXCEPT ![m] = "deleted"]
        /\ price' = [p \in Prices |-> IF p \in PricesOf(m)
                                      THEN [FreePrice EXCEPT !.status = "deleted"] ELSE price[p]]
        /\ line' = [l \in Lines |->
                       [imp |-> line[l].imp, status |-> line[l].status, price |-> kept(line[l].price),
                        material |-> IF line[l].material = m THEN NoMaterial ELSE line[l].material]]
        /\ Finish(r)
        /\ UNCHANGED <<imp, job, worker>>

(***************************************************************************)
(* The process stops and starts again: requests and worker are gone, the   *)
(* job that was running goes back to the queue.                            *)
(***************************************************************************)
Restart ==
    /\ Outages
    /\ worker # IdleWorker \/ \E r \in Reqs : ~At(r, "idle")
    /\ worker' = IdleWorker
    /\ req' = [r \in Reqs |-> Idle]
    /\ UNCHANGED <<imp, line, price, mat, job>>

Start(r) ==
    \/ \E i \in Imports : \/ Create(r, i) \/ RetryRead(r, i) \/ RematchRead(r, i)
                          \/ ApproveRead(r, i) \/ RemoveRead(r, i)
    \/ \E l \in Lines : MaterialForLineRead(r, l) \/ UpdateLineRead(r, l)
    \/ \E m \in Materials : RemoveMaterialRead(r, m)

Continue(r) ==
    \/ Encolar(r)
    \/ RetryCount(r) \/ RetryUpdate(r) \/ RetryFind(r)
    \/ SaveLinesRead(r) \/ SaveLines(r)
    \/ ApproveLines(r) \/ ApprovePrice(r) \/ ApproveSaveRead(r) \/ ApproveSave(r)
    \/ ApproveCount(r) \/ ApproveRefresh(r)
    \/ RemoveDelete(r) \/ RemoveMaterialDelete(r)

Next ==
    \/ \E r \in Reqs : Start(r) \/ Continue(r)
    \/ \E j \in Jobs : WorkerTake(j)
    \/ Work
    \/ Restart

Spec == Init /\ [][Next]_vars

\* The event loop runs requests and worker to their end.  The queue hands out
\* its jobs in order, so each of them gets its turn however many come after.
FairSpec ==
    /\ Spec
    /\ \A r \in Reqs : WF_vars(Continue(r))
    /\ \A j \in Jobs : SF_vars(WorkerTake(j))
    /\ WF_vars(Work)

(***************************************************************************)
(* Safety.                                                                 *)
(***************************************************************************)
\* Whatever is saved, approved and removed at once, a line never names a price
\* that is gone or that was created from another line: createdPriceId is the
\* trace of the price the line became, also when the material goes with its new
\* price between the creation of the price and the save of the line.  That such
\* a line is approved is not so: an edition that reads the row before an
\* approval saves it, and writes its status after, leaves a rejected line with a
\* price.
PriceIsOfLine ==
    \A l \in Lines :
        line[l].price # NoPrice =>
            /\ price[line[l].price].status = "live"
            /\ price[line[l].price].line = l

\* An approved line has its price: with one request at a time, whatever is
\* removed or restarted.
ApprovedHasPrice == \A l \in Lines : line[l].status = "approved" => line[l].price # NoPrice

\* With one person reviewing at a time, a line becomes a price once, although
\* the price and the line are saved separately.
OnePricePerLine ==
    \A p, q \in Prices :
        price[p].status = "live" /\ price[q].status = "live" /\ price[p].line = price[q].line => p = q

\* With one person reviewing at a time, a review is not undone: an approved
\* line stays so, with its price, until its import is deleted.
ApprovedIsFinal ==
    [][\A l \in Lines : line[l].status = "approved" => line'[l] \in {line[l], [NoRow EXCEPT !.status = "deleted"]}]_vars

\* prepareRetry: never over a review under way.  With one person at a time, an
\* import that waits to be read, is being read, or failed has no approved line,
\* whichever jobs for it are still in the queue: no price is read a second time.
\* It may have lines, and some rejected: those saved by a reading that failed
\* after it, which are read again beside them.
NoneApprovedIsReread ==
    \A i \in Imports :
        imp[i] \in {"pending", "processing", "failed"} =>
            \A l \in LinesOf(i) : line[l].status # "approved"

(***************************************************************************)
(* Liveness.                                                               *)
(***************************************************************************)
\* process: an import is not left hanging in "processing", whichever step of the
\* reading fails, as long as the process does not stop during it and the
\* database takes the status "failed".  When it does stop the import hangs: the
\* queue delivers the job again, and process ignores an import not pending.
ProcessingEnds == \A i \in Imports : imp[i] = "processing" ~> imp[i] # "processing"

\* An import that waits for the worker is read in the end, or deleted: every
\* upload and every retry has a job in the queue that finds it pending.
PendingEnds == \A i \in Imports : imp[i] = "pending" ~> imp[i] # "pending"
=============================================================================
