------------------------- MODULE PriceImportsProofs -------------------------
(***************************************************************************)
(* Proofs about PriceImports for any number of imports, lines, prices,     *)
(* places in the queue and requests; the second half is about one request  *)
(* at a time beside the worker.                                            *)
(***************************************************************************)
EXTENDS PriceImports, TLAPS

(***************************************************************************)
(* The inductive invariant.                                                *)
(***************************************************************************)
Remembers == {"save_lines", "save_update", "approve", "approve_save", "approve_update"}

\* A row that names no price, or one that was created from its line, if it lives.
OfLine(l, row, prices) ==
    row.price # NoPrice =>
        /\ prices[row.price].status # "none"
        /\ prices[row.price].status = "live" => prices[row.price].line = l

\* The rows a request will save name prices of their lines, and the price it has
\* just created, while it lives, is of the line it is approving.
RememberedIn(q, prices) ==
    /\ q.pc \in Remembers => \A l \in q.todo : OfLine(l, q.rows[l], prices)
    /\ q.pc \in {"approve_save", "approve_update"} =>
          /\ q.line \in Lines
          /\ q.price \in Prices
          /\ prices[q.price].status # "none"
          /\ prices[q.price].status = "live" => prices[q.price].line = q.line
Remembered(q) == RememberedIn(q, price)

IInv ==
    /\ TypeOK
    /\ PriceIsOfLine
    /\ \A r \in Reqs : Remembered(req[r])
    /\ worker.pc # "idle" => worker.job \in Jobs

LEMMA IdleTyped == Idle \in Request /\ Idle.pc = "idle" /\ NoRow \in Line
BY DEF Idle, Request, NoRow, Line

LEMMA InitIInv == Init => IInv
<1> SUFFICES ASSUME Init
             PROVE  IInv
  OBVIOUS
<1>1. TypeOK
  BY IdleTyped, ConstantsAssumption DEF Init, TypeOK, ImportStatus, RowStatus, Price, FreePrice,
     Job, FreeJob, Worker, IdleWorker
<1>2. PriceIsOfLine
  BY DEF Init, PriceIsOfLine, NoRow
<1>3. \A r \in Reqs : Remembered(req[r])
  BY IdleTyped DEF Init, Remembered, RememberedIn, Remembers
<1> QED
  BY <1>1, <1>2, <1>3 DEF IInv, Init, IdleWorker

(***************************************************************************)
(* Steps that change neither lines nor prices.                             *)
(***************************************************************************)
\* A request moves on with rows it may remember.
LEMMA RequestMoves ==
    ASSUME IInv, NEW r \in Reqs, NEW next \in Request, Remembered(next),
           req' = [req EXCEPT ![r] = next],
           imp' \in [Imports -> ImportStatus],
           mat' \in [Materials -> RowStatus],
           job' \in [Jobs -> Job],
           UNCHANGED <<line, price, worker>>
    PROVE  IInv'
<1>1. TypeOK'
  BY DEF IInv, TypeOK
<1>2. PriceIsOfLine'
  BY DEF IInv, PriceIsOfLine
<1>3. \A q \in Reqs : Remembered(req[q])'
  BY DEF IInv, Remembered
<1> QED
  BY <1>1, <1>2, <1>3 DEF IInv

\* The worker moves on.
LEMMA WorkerMoves ==
    ASSUME IInv, worker' \in Worker, worker'.pc # "idle" => worker'.job \in Jobs,
           imp' \in [Imports -> ImportStatus],
           job' \in [Jobs -> Job],
           UNCHANGED <<line, price, mat, req>>
    PROVE  IInv'
BY DEF IInv, TypeOK, PriceIsOfLine, Remembered

LEMMA StatusTyped ==
    ASSUME TypeOK, NEW i, NEW status \in ImportStatus, UpdateStatus(i, status)
    PROVE  imp' \in [Imports -> ImportStatus]
BY DEF TypeOK, UpdateStatus

LEMMA QueueTyped ==
    ASSUME TypeOK, NEW j, JobDone(j) \/ JobFailed(j)
    PROVE  job' \in [Jobs -> Job]
<1>1. FreeJob \in Job
  BY ConstantsAssumption DEF Job, FreeJob
<1>2. CASE JobDone(j)
  BY <1>1, <1>2 DEF JobDone, TypeOK
<1>3. CASE JobFailed(j)
  <2> DEFINE left == job[j].attempts - 1
             next == IF left > 0 THEN [imp |-> job[j].imp, attempts |-> left] ELSE FreeJob
  <2>1. job' = [job EXCEPT ![j] = next]
    BY <1>3 DEF JobFailed
  <2>2. j \in Jobs => next \in Job
    BY <1>1, ConstantsAssumption DEF TypeOK, Job
  <2> HIDE DEF next
  <2> QED
    BY <2>1, <2>2 DEF TypeOK
<1> QED
  BY <1>2, <1>3

(***************************************************************************)
(* The worker.                                                             *)
(***************************************************************************)
LEMMA WorkerIInv ==
    ASSUME IInv, Work \/ \E j \in Jobs : WorkerTake(j)
    PROVE  IInv'
<1>1. TypeOK /\ worker \in Worker
  BY DEF IInv, TypeOK
<1>2. IdleWorker \in Worker
  BY DEF IdleWorker, Worker
<1>3. ASSUME NEW j \in Jobs, WorkerTake(j)
      PROVE  IInv'
  <2>1. /\ worker' = [pc |-> "mark", job |-> j] \/ UNCHANGED worker
        /\ UNCHANGED job \/ JobDone(j) \/ JobFailed(j)
        /\ UNCHANGED <<imp, line, price, mat, req>>
    BY <1>3 DEF WorkerTake
  <2>2. worker' \in Worker /\ job' \in [Jobs -> Job] /\ imp' \in [Imports -> ImportStatus]
    BY <1>1, <2>1, QueueTyped DEF TypeOK, Worker
  <2>3. worker'.pc # "idle" => worker'.job \in Jobs
    BY <2>1 DEF IInv
  <2> QED
    BY <2>1, <2>2, <2>3, WorkerMoves
<1>4. ASSUME NEW label \in {"mark", "extract", "save", "review", "failed"}, WorkerGoto(label),
             worker.pc # "idle"
      PROVE  worker' \in Worker /\ worker'.job \in Jobs
  BY <1>1, <1>4 DEF IInv, WorkerGoto, Worker
<1>10. ASSUME WorkerThrows, UNCHANGED <<line, price, mat, req>>
       PROVE  IInv'
  <2>1. imp' \in [Imports -> ImportStatus] /\ job' \in [Jobs -> Job]
    BY <1>1, <1>10, QueueTyped DEF WorkerThrows, TypeOK
  <2> QED
    BY <1>2, <1>10, <2>1, WorkerMoves DEF WorkerThrows, IdleWorker
<1>5. CASE WorkerMark
  <2>1. CASE UpdateStatus(WorkerImport, "processing") /\ WorkerGoto("extract") /\ UNCHANGED job
    <3>1. imp' \in [Imports -> ImportStatus] /\ job' \in [Jobs -> Job]
      BY <1>1, <2>1, StatusTyped DEF TypeOK, ImportStatus
    <3> QED
      BY <1>4, <1>5, <2>1, <3>1, WorkerMoves DEF WorkerMark
  <2> QED
    BY <1>5, <1>10, <2>1 DEF WorkerMark
<1>6. CASE WorkerExtract
  <2>1. PICK next \in {"save", "failed"} : WorkerGoto(next)
    BY <1>6 DEF WorkerExtract
  <2>2. imp' \in [Imports -> ImportStatus] /\ job' \in [Jobs -> Job] /\ worker.pc # "idle"
    BY <1>1, <1>6 DEF WorkerExtract, TypeOK
  <2> QED
    BY <1>4, <1>6, <2>2, WorkerMoves DEF WorkerExtract
<1>7. CASE WorkerSave
  <2>1. imp' \in [Imports -> ImportStatus] /\ job' \in [Jobs -> Job] /\ worker.pc # "idle"
    BY <1>1, <1>7 DEF WorkerSave, TypeOK
  <2>2. CASE WorkerGoto("failed") /\ UNCHANGED line
    BY <1>4, <1>7, <2>1, <2>2, WorkerMoves DEF WorkerSave
  <2>3. ASSUME NEW found \in SUBSET Unused, NEW match \in [found -> Catalogue],
               line' = [l \in Lines |->
                          IF l \in found
                          THEN [NoRow EXCEPT !.imp = WorkerImport, !.status = "pending",
                                             !.material = match[l]]
                          ELSE line[l]],
               WorkerGoto("review")
        PROVE  IInv'
    <3>1. WorkerImport \in Imports \cup {NoImport}
      BY <2>1 DEF IInv, WorkerImport, TypeOK, Job
    <3>2. ASSUME NEW i \in Imports \cup {NoImport}, NEW m \in Materials \cup {NoMaterial}, NEW row,
                 row = [NoRow EXCEPT !.imp = i, !.status = "pending", !.material = m]
          PROVE  row \in Line /\ row.status = "pending" /\ row.price = NoPrice
      BY <3>2 DEF NoRow, Line, LiveLine
    <3>3. \A l \in Lines : /\ line'[l] \in Line
                           /\ \/ line'[l] = line[l]
                              \/ line'[l].status = "pending" /\ line'[l].price = NoPrice
      <4>1. ASSUME NEW l \in Lines, l \in found
            PROVE  /\ line'[l] \in Line
                   /\ line'[l].status = "pending" /\ line'[l].price = NoPrice
        <5>1. match[l] \in Materials \cup {NoMaterial}
          BY <4>1 DEF Catalogue
        <5>2. line'[l] = [NoRow EXCEPT !.imp = WorkerImport, !.status = "pending", !.material = match[l]]
          BY <2>3, <4>1
        <5> DEFINE m == match[l]
                   i == WorkerImport
                   row == line'[l]
        <5>3. m \in Materials \cup {NoMaterial} /\ i \in Imports \cup {NoImport}
          BY <3>1, <5>1
        <5>4. row = [NoRow EXCEPT !.imp = i, !.status = "pending", !.material = m]
          BY <5>2
        <5> HIDE DEF m, i, row
        <5>5. row \in Line /\ row.status = "pending" /\ row.price = NoPrice
          BY <3>2, <5>3, <5>4
        <5> QED
          BY <5>5 DEF row
      <4> QED
        BY <1>1, <2>3, <4>1 DEF TypeOK
    <3>4. line' \in [Lines -> Line]
      BY <2>3, <3>3
    <3>5. UNCHANGED <<price, mat, req>>
      BY <1>7 DEF WorkerSave
    <3>6. TypeOK'
      BY <1>1, <1>4, <2>1, <2>3, <3>4, <3>5 DEF TypeOK
    <3>7. PriceIsOfLine'
      BY <3>3, <3>5 DEF IInv, PriceIsOfLine
    <3>8. \A r \in Reqs : Remembered(req[r])'
      BY <3>5 DEF IInv, Remembered
    <3> QED
      BY <1>4, <2>1, <2>3, <3>6, <3>7, <3>8 DEF IInv
  <2> QED
    BY <1>7, <2>2, <2>3 DEF WorkerSave
<1>8. ASSUME NEW status \in {"review", "failed"}, UpdateStatus(WorkerImport, status),
             JobDone(worker.job) \/ JobFailed(worker.job), worker' = IdleWorker,
             UNCHANGED <<line, price, mat, req>>
      PROVE  IInv'
  <2>1. imp' \in [Imports -> ImportStatus] /\ job' \in [Jobs -> Job]
    BY <1>1, <1>8, StatusTyped, QueueTyped DEF ImportStatus
  <2>2. worker'.pc = "idle"
    BY <1>8 DEF IdleWorker
  <2> QED
    BY <1>2, <1>8, <2>1, <2>2, WorkerMoves
<1>9. CASE WorkerReview
  <2>1. CASE WorkerGoto("failed") /\ UNCHANGED <<imp, job>>
    <3>1. imp' \in [Imports -> ImportStatus] /\ job' \in [Jobs -> Job] /\ worker.pc # "idle"
      BY <1>1, <1>9, <2>1 DEF TypeOK, WorkerReview
    <3> QED
      BY <1>4, <1>9, <2>1, <3>1, WorkerMoves DEF WorkerReview
  <2> QED
    BY <1>8, <1>9, <2>1 DEF WorkerReview
<1>11. CASE WorkerFail
  BY <1>8, <1>10, <1>11 DEF WorkerFail
<1> QED
  BY <1>3, <1>5, <1>6, <1>7, <1>9, <1>11 DEF Work

(***************************************************************************)
(* Requests that start.                                                    *)
(***************************************************************************)
\* A request that starts without rows to write back later.
LEMMA BeginIInv ==
    ASSUME IInv, NEW r \in Reqs, NEW next \in Request, next.pc \notin Remembers,
           Begin(r, next),
           imp' \in [Imports -> ImportStatus],
           UNCHANGED <<line, price, mat, job, worker>>
    PROVE  IInv'
<1>1. Remembered(next)
  BY DEF Remembered, RememberedIn, Remembers
<1>2. mat' \in [Materials -> RowStatus] /\ job' \in [Jobs -> Job]
  BY DEF IInv, TypeOK
<1> QED
  BY <1>1, <1>2, RequestMoves DEF Begin

\* A request that starts with rows to save later.
LEMMA SaveLaterIInv ==
    ASSUME IInv, NEW r \in Reqs, NEW ls \in SUBSET Lines, NEW rows \in [Lines -> Line],
           \A l \in ls : OfLine(l, rows[l], price),
           SaveLater(r, ls, rows),
           mat' \in [Materials -> RowStatus],
           UNCHANGED <<imp, line, price, job, worker>>
    PROVE  IInv'
<1> DEFINE next == [Idle EXCEPT !.pc = "save_lines", !.todo = ls, !.rows = rows]
<1>1. /\ next \in Request
      /\ next.pc = "save_lines"
      /\ next.todo = ls
      /\ next.rows = rows
  BY IdleTyped DEF Request
<1>2. req' = [req EXCEPT ![r] = next]
  BY DEF SaveLater, Begin
<1> HIDE DEF next
<1>3. Remembered(next)
  BY <1>1 DEF Remembered, RememberedIn
<1>4. imp' \in [Imports -> ImportStatus] /\ job' \in [Jobs -> Job]
  BY DEF IInv, TypeOK
<1> QED
  BY <1>1, <1>2, <1>3, <1>4, RequestMoves

\* The row of a line names a price of it.
LEMMA RowIsOfLine ==
    ASSUME IInv, NEW l \in Lines
    PROVE  OfLine(l, line[l], price)
BY DEF IInv, PriceIsOfLine, OfLine

\* The rows a request has read are rows.
LEMMA ReadTyped ==
    ASSUME TypeOK, NEW ls \in SUBSET Lines
    PROVE  Read(ls) \in [Lines -> Line] /\ \A l \in ls : Read(ls)[l] = line[l]
BY IdleTyped DEF Read, TypeOK

\* A row keeps its price when it is rejected, taken back or given a material.
LEMMA RowEdited ==
    ASSUME NEW row \in Line, NEW status \in {"pending", "rejected"},
           NEW m \in Materials \cup {NoMaterial}, NEW new \in {[row EXCEPT !.material = m],
                                                        [row EXCEPT !.status = status, !.material = m]}
    PROVE  new \in Line /\ new.price = row.price
BY DEF Line, LiveLine

\* One line read by itself and edited.
LEMMA OneEdited ==
    ASSUME IInv, NEW l \in Lines, NEW new \in Line, new.price = line[l].price,
           NEW rows, rows = [Read({l}) EXCEPT ![l] = new]
    PROVE  rows \in [Lines -> Line] /\ \A k \in {l} : OfLine(k, rows[k], price)
BY ReadTyped, RowIsOfLine DEF IInv, OfLine

\* A request that starts reads rows and remembers them, edited.
LEMMA StartIInv ==
    ASSUME IInv, NEW r \in Reqs, Start(r)
    PROVE  IInv'
<1>1. TypeOK /\ (\A l \in Lines : line[l] \in Line)
  BY DEF IInv, TypeOK
<1>2. /\ UNCHANGED imp => imp' \in [Imports -> ImportStatus]
      /\ UNCHANGED mat => mat' \in [Materials -> RowStatus]
  BY <1>1 DEF TypeOK
<1>3. ASSUME NEW i \in Imports, Create(r, i)
      PROVE  IInv'
  <2>1. imp' \in [Imports -> ImportStatus]
    BY <1>1, <1>3 DEF Create, TypeOK, ImportStatus
  <2> DEFINE next == [Idle EXCEPT !.pc = "enqueue", !.imp = i]
  <2>2. next \in Request /\ next.pc \notin Remembers
    BY IdleTyped DEF Request, Remembers
  <2>3. Begin(r, next) /\ UNCHANGED <<line, price, mat, job, worker>>
    BY <1>3 DEF Create
  <2> HIDE DEF next
  <2> QED
    BY <2>1, <2>2, <2>3, BeginIInv
<1>4. ASSUME NEW i \in Imports, RetryRead(r, i)
      PROVE  IInv'
  <2> DEFINE failed == imp[i] = "failed"
             next == [Idle EXCEPT !.pc = "retry_count", !.imp = i, !.flag = failed]
  <2>1. next \in Request /\ next.pc \notin Remembers
    <3>1. failed \in BOOLEAN
      OBVIOUS
    <3> HIDE DEF failed
    <3> QED
      BY <3>1, IdleTyped DEF Request, Remembers
  <2>2. Begin(r, next) /\ UNCHANGED <<imp, line, price, mat, job, worker>>
    BY <1>4 DEF RetryRead
  <2> HIDE DEF next
  <2> QED
    BY <1>2, <2>1, <2>2, BeginIInv
<1>5. ASSUME NEW i \in Imports, ApproveRead(r, i)
      PROVE  IInv'
  <2>1. PICK ls \in SUBSET Lines : Begin(r, [Idle EXCEPT !.pc = "approve_read", !.imp = i, !.todo = ls])
    BY <1>5 DEF ApproveRead
  <2> DEFINE next == [Idle EXCEPT !.pc = "approve_read", !.imp = i, !.todo = ls]
  <2>2. next \in Request /\ next.pc \notin Remembers
    BY IdleTyped DEF Request, Remembers
  <2>3. Begin(r, next) /\ UNCHANGED <<imp, line, price, mat, job, worker>>
    BY <1>5, <2>1 DEF ApproveRead
  <2> HIDE DEF next
  <2> QED
    BY <1>2, <2>2, <2>3, BeginIInv
<1>6. ASSUME NEW i \in Imports, RemoveRead(r, i)
      PROVE  IInv'
  <2> DEFINE next == [Idle EXCEPT !.pc = "delete", !.imp = i]
  <2>1. next \in Request /\ next.pc \notin Remembers
    BY IdleTyped DEF Request, Remembers
  <2>2. Begin(r, next) /\ UNCHANGED <<imp, line, price, mat, job, worker>>
    BY <1>6 DEF RemoveRead
  <2> HIDE DEF next
  <2> QED
    BY <1>2, <2>1, <2>2, BeginIInv
<1>7. ASSUME NEW m \in Materials, RemoveMaterialRead(r, m)
      PROVE  IInv'
  <2> DEFINE next == [Idle EXCEPT !.pc = "delete_material", !.material = m]
  <2>1. next \in Request /\ next.pc \notin Remembers
    BY IdleTyped DEF Request, Remembers
  <2>2. Begin(r, next) /\ UNCHANGED <<imp, line, price, mat, job, worker>>
    BY <1>7 DEF RemoveMaterialRead
  <2> HIDE DEF next
  <2> QED
    BY <1>2, <2>1, <2>2, BeginIInv
<1>8. ASSUME NEW l \in Lines, UpdateLineRead(r, l)
      PROVE  IInv'
  <2>2. PICK status \in {"pending", "rejected"}, m \in Catalogue :
           SaveLater(r, {l}, [Read({l}) EXCEPT ![l].status = status, ![l].material = m])
    BY <1>8 DEF UpdateLineRead
  <2> DEFINE new == [line[l] EXCEPT !.status = status, !.material = m]
             rows == [Read({l}) EXCEPT ![l].status = status, ![l].material = m]
  <2>3. new \in Line /\ new.price = line[l].price
    BY <1>1, RowEdited DEF Catalogue
  <2>4. rows = [Read({l}) EXCEPT ![l] = new]
    BY <1>1, ReadTyped
  <2>5. SaveLater(r, {l}, rows) /\ UNCHANGED <<imp, line, price, mat, job, worker>>
    BY <1>8, <2>2 DEF UpdateLineRead
  <2> HIDE DEF new, rows
  <2>6. rows \in [Lines -> Line] /\ \A k \in {l} : OfLine(k, rows[k], price)
    BY <2>3, <2>4, OneEdited
  <2> DEFINE ls == {l}
  <2> QED
    BY <1>2, <2>5, <2>6, SaveLaterIInv
<1>9. ASSUME NEW l \in Lines, MaterialForLineRead(r, l)
      PROVE  IInv'
  <2>2. PICK m \in Materials :
           /\ mat' = [mat EXCEPT ![m] = "live"]
           /\ SaveLater(r, {l}, [Read({l}) EXCEPT ![l].material = m])
    BY <1>9 DEF MaterialForLineRead
  <2> DEFINE new == [line[l] EXCEPT !.material = m]
             rows == [Read({l}) EXCEPT ![l].material = m]
  <2>3. new \in Line /\ new.price = line[l].price
    BY <1>1, RowEdited
  <2>4. rows = [Read({l}) EXCEPT ![l] = new]
    BY <1>1, ReadTyped
  <2>5. /\ SaveLater(r, {l}, rows)
        /\ UNCHANGED <<imp, line, price, job, worker>>
        /\ mat' \in [Materials -> RowStatus]
    BY <1>1, <1>9, <2>2 DEF MaterialForLineRead, TypeOK, RowStatus
  <2> HIDE DEF new, rows
  <2>6. rows \in [Lines -> Line] /\ \A k \in {l} : OfLine(k, rows[k], price)
    BY <2>3, <2>4, OneEdited
  <2> DEFINE ls == {l}
  <2> QED
    BY <2>5, <2>6, SaveLaterIInv
<1>10. ASSUME NEW i \in Imports, RematchRead(r, i)
       PROVE  IInv'
  <2> DEFINE ls == PendingOf(i)
  <2>1. PICK match \in [ls -> Catalogue] :
           SaveLater(r, ls, [l \in Lines |-> IF l \in ls /\ line[l].material = NoMaterial
                                            THEN [line[l] EXCEPT !.material = match[l]]
                                            ELSE Read(ls)[l]])
    BY <1>10 DEF RematchRead
  <2> DEFINE rows == [l \in Lines |-> IF l \in ls /\ line[l].material = NoMaterial
                                     THEN [line[l] EXCEPT !.material = match[l]]
                                     ELSE Read(ls)[l]]
  <2>2. ls \in SUBSET Lines
    BY DEF PendingOf, LinesOf
  <2>4. ASSUME NEW l \in Lines
        PROVE  rows[l] \in Line /\ (l \in ls => OfLine(l, rows[l], price))
    <3>1. CASE l \in ls /\ line[l].material = NoMaterial
      <4> DEFINE m == match[l]
                 new == [line[l] EXCEPT !.material = m]
      <4>1. m \in Materials \cup {NoMaterial}
        BY <3>1 DEF Catalogue
      <4> HIDE DEF m
      <4>2. new \in Line /\ new.price = line[l].price
        BY <1>1, <3>1, <4>1, RowEdited
      <4>3. rows[l] = new
        BY <3>1 DEF m
      <4> HIDE DEF new, rows
      <4> QED
        BY <4>2, <4>3, RowIsOfLine DEF OfLine
    <3>2. CASE ~(l \in ls /\ line[l].material = NoMaterial)
      <4>1. rows[l] = Read(ls)[l]
        BY <3>2
      <4> HIDE DEF rows
      <4> QED
        BY <1>1, <2>2, <4>1, ReadTyped, RowIsOfLine
    <3> QED
      BY <3>1, <3>2
  <2>5. rows \in [Lines -> Line]
    BY <2>4
  <2>6. SaveLater(r, ls, rows) /\ UNCHANGED <<imp, line, price, mat, job, worker>>
    BY <1>10, <2>1 DEF RematchRead
  <2> HIDE DEF ls, rows
  <2> QED
    BY <2>2, <2>4, <2>5, <2>6, <1>2, SaveLaterIInv
<1> QED
  BY <1>3, <1>4, <1>5, <1>6, <1>7, <1>8, <1>9, <1>10 DEF Start

(***************************************************************************)
(* Requests that go on.                                                    *)
(***************************************************************************)
\* Rows of prices of their lines, saved in part, keep lines and prices together.
LEMMA RowsWrittenBack ==
    ASSUME IInv, NEW ls \in SUBSET Lines, NEW rows \in [Lines -> Line], NEW seen,
           \A l \in ls : OfLine(l, rows[l], price),
           PatchRows(ls, rows, seen),
           UNCHANGED price
    PROVE  line' \in [Lines -> Line] /\ PriceIsOfLine'
<1>1. line \in [Lines -> Line] /\ PriceIsOfLine
  BY DEF IInv, TypeOK
<1>2. CASE UNCHANGED line
  BY <1>1, <1>2 DEF PriceIsOfLine
<1>3. CASE /\ \A l \in ls : Accepted(rows[l], seen[l])
           /\ line' = [l \in Lines |-> IF l \in ls /\ line[l].status \in LiveLine
                                        THEN Patched(l, rows[l], seen[l]) ELSE line[l]]
  <2>1. ASSUME NEW l \in ls
        PROVE  /\ Patched(l, rows[l], seen[l]) \in Line
               /\ \/ Patched(l, rows[l], seen[l]).price = line[l].price
                  \/ /\ Patched(l, rows[l], seen[l]).price = rows[l].price
                     /\ rows[l].price # seen[l].price
    <3>1. l \in Lines /\ line[l] \in Line /\ rows[l] \in Line
      BY <1>1
    <3> QED
      BY <3>1 DEF Patched, Line
  <2>2. line' \in [Lines -> Line]
    BY <1>1, <1>3, <2>1
  <2>3. ASSUME NEW l \in Lines, line'[l].price # NoPrice
        PROVE  /\ price'[line'[l].price].status = "live"
               /\ price'[line'[l].price].line = l
    <3>1. CASE line'[l].price = line[l].price
      BY <1>1, <2>3, <3>1 DEF PriceIsOfLine
    <3>2. CASE line'[l].price # line[l].price
      <4>1. l \in ls /\ line'[l].price = rows[l].price /\ rows[l].price # seen[l].price
        BY <1>3, <2>1, <3>2
      <4>2. price[rows[l].price].status = "live"
        BY <1>3, <2>3, <4>1 DEF Accepted
      <4> QED
        BY <2>3, <4>1, <4>2 DEF OfLine
    <3> QED
      BY <3>1, <3>2
  <2> QED
    BY <2>2, <2>3 DEF PriceIsOfLine
<1> QED
  BY <1>2, <1>3 DEF PatchRows

\* A price never comes back, and is never rewritten while it lives.
PricesGoOn ==
    \A p \in Prices : price[p].status # "none" =>
        /\ price'[p].status # "none"
        /\ price'[p].status = "live" => price'[p] = price[p]

\* What a request remembers stays good while prices only come and go.
LEMMA StillRemembered ==
    ASSUME NEW q \in Request, Remembered(q), PricesGoOn
    PROVE  RememberedIn(q, price')
<1>1. ASSUME NEW l \in Lines, NEW row \in Line, OfLine(l, row, price)
      PROVE  OfLine(l, row, price')
  BY <1>1 DEF OfLine, Line, PricesGoOn
<1> QED
  BY <1>1 DEF Remembered, RememberedIn, PricesGoOn, Request

\* A request that moves on after it wrote lines, prices or materials.
LEMMA WriteIInv ==
    ASSUME IInv, NEW r \in Reqs, NEW next \in Request,
           req' = [req EXCEPT ![r] = next],
           RememberedIn(next, price'),
           PricesGoOn,
           line' \in [Lines -> Line] /\ PriceIsOfLine',
           price' \in [Prices -> Price],
           mat' \in [Materials -> RowStatus],
           imp' \in [Imports -> ImportStatus],
           UNCHANGED <<job, worker>>
    PROVE  IInv'
<1>1. TypeOK'
  BY DEF IInv, TypeOK
<1>2. \A q \in Reqs : Remembered(req[q])'
  <2>1. ASSUME NEW q \in Reqs, q # r
        PROVE  Remembered(req[q])'
    <3>1. req[q] \in Request /\ Remembered(req[q]) /\ req'[q] = req[q]
      BY <2>1 DEF IInv, TypeOK
    <3> QED
      BY <3>1, StillRemembered DEF Remembered
  <2>2. Remembered(req[r])'
    BY DEF IInv, TypeOK, Remembered
  <2> QED
    BY <2>1, <2>2
<1> QED
  BY <1>1, <1>2 DEF IInv

\* A request that ends, or goes on without rows, and wrote no line or price.
LEMMA MovesIInv ==
    ASSUME IInv, NEW r \in Reqs,
           Finish(r) \/ \E label \in {"enqueue", "retry_update", "retry_find"} : Goto(r, label),
           imp' \in [Imports -> ImportStatus],
           job' \in [Jobs -> Job],
           UNCHANGED <<line, price, mat, worker>>
    PROVE  IInv'
<1>1. mat' \in [Materials -> RowStatus] /\ req[r] \in Request
  BY DEF IInv, TypeOK
<1>2. CASE Finish(r)
  <2>1. Remembered(Idle)
    BY IdleTyped DEF Remembered, RememberedIn, Remembers
  <2> QED
    BY <1>1, <1>2, <2>1, IdleTyped, RequestMoves DEF Finish
<1>3. ASSUME NEW label \in {"enqueue", "retry_update", "retry_find"}, Goto(r, label)
      PROVE  IInv'
  <2> DEFINE next == [req[r] EXCEPT !.pc = label]
  <2>1. next \in Request /\ next.pc = label
    BY <1>1 DEF Request
  <2>2. req' = [req EXCEPT ![r] = next]
    BY <1>3 DEF Goto
  <2> HIDE DEF next
  <2>3. Remembered(next)
    BY <2>1 DEF Remembered, RememberedIn, Remembers
  <2> QED
    BY <1>1, <2>1, <2>2, <2>3, RequestMoves
<1> QED
  BY <1>2, <1>3

\* A request that ends after it wrote.
LEMMA FinishIInv ==
    ASSUME IInv, NEW r \in Reqs, Finish(r),
           PricesGoOn,
           line' \in [Lines -> Line] /\ PriceIsOfLine',
           price' \in [Prices -> Price],
           mat' \in [Materials -> RowStatus],
           imp' \in [Imports -> ImportStatus],
           UNCHANGED <<job, worker>>
    PROVE  IInv'
<1>1. RememberedIn(Idle, price')
  BY IdleTyped DEF RememberedIn, Remembers
<1> QED
  BY <1>1, IdleTyped, WriteIInv DEF Finish

\* save reads its rows: those to be saved stay as they are.
LEMMA SaveReadIInv ==
    ASSUME IInv, NEW r \in Reqs, SaveLinesRead(r) \/ ApproveSaveRead(r)
    PROVE  IInv'
<1>1. /\ req[r] \in Request /\ Remembered(req[r])
      /\ TypeOK
      /\ imp' \in [Imports -> ImportStatus]
      /\ mat' \in [Materials -> RowStatus]
      /\ job' \in [Jobs -> Job]
      /\ UNCHANGED <<imp, line, price, mat, job, worker>>
  BY DEF IInv, TypeOK, SaveLinesRead, ApproveSaveRead
<1>2. CASE Finish(r)
  BY <1>1, <1>2, MovesIInv
<1>3. ASSUME NEW ls \in SUBSET Lines, NEW label \in {"save_update", "approve_update"},
             req' = [req EXCEPT ![r] = [req[r] EXCEPT !.pc = label, !.seen = Read(ls)]],
             req[r].pc \in {"save_lines", "approve_save"},
             label = "approve_update" => req[r].pc = "approve_save"
      PROVE  IInv'
  <2> DEFINE seen == Read(ls)
             next == [req[r] EXCEPT !.pc = label, !.seen = seen]
  <2>1. seen \in [Lines -> Line]
    BY <1>1, ReadTyped
  <2>2. req' = [req EXCEPT ![r] = next]
    BY <1>3
  <2> HIDE DEF seen
  <2>3. /\ next \in Request /\ next.pc = label /\ next.todo = req[r].todo /\ next.rows = req[r].rows
        /\ next.line = req[r].line /\ next.price = req[r].price
    BY <1>1, <2>1 DEF Request
  <2> HIDE DEF next
  <2>4. Remembered(next)
    BY <1>1, <1>3, <2>3 DEF Remembered, RememberedIn, Remembers
  <2> QED
    BY <1>1, <2>2, <2>3, <2>4, RequestMoves
<1>4. CASE req[r].pc = "approve_save" /\ Goto(r, "approve")
  <2> DEFINE next == [req[r] EXCEPT !.pc = "approve"]
  <2>1. next \in Request /\ next.pc = "approve" /\ next.todo = req[r].todo /\ next.rows = req[r].rows
    BY <1>1 DEF Request
  <2>2. req' = [req EXCEPT ![r] = next]
    BY <1>4 DEF Goto
  <2> HIDE DEF next
  <2>3. Remembered(next)
    BY <1>1, <1>4, <2>1 DEF Remembered, RememberedIn, Remembers
  <2> QED
    BY <1>1, <2>1, <2>2, <2>3, RequestMoves
<1>5. CASE SaveLinesRead(r)
  <2>1. req[r].pc = "save_lines" /\ req[r].todo \in SUBSET Lines
    BY <1>1, <1>5 DEF SaveLinesRead, At, Request
  <2> QED
    BY <1>2, <1>3, <1>5, <2>1 DEF SaveLinesRead
<1>6. CASE ApproveSaveRead(r)
  <2>1. req[r].pc = "approve_save" /\ {req[r].line} \in SUBSET Lines
    BY <1>1, <1>6 DEF ApproveSaveRead, At, Remembered, RememberedIn
  <2> QED
    BY <1>3, <1>4, <1>6, <2>1 DEF ApproveSaveRead
<1> QED
  BY <1>5, <1>6

\* updateLine, createMaterialForLine and rematch save what they edited.
LEMMA SaveLinesIInv ==
    ASSUME IInv, NEW r \in Reqs, SaveLines(r)
    PROVE  IInv'
<1>1. req[r] \in Request /\ Remembered(req[r])
  BY DEF IInv, TypeOK
<1>2. /\ req[r].todo \in SUBSET Lines
      /\ req[r].rows \in [Lines -> Line]
      /\ \A l \in req[r].todo : OfLine(l, req[r].rows[l], price)
  BY <1>1 DEF SaveLines, At, Remembered, RememberedIn, Remembers, Request
<1>3. line' \in [Lines -> Line] /\ PriceIsOfLine'
  BY <1>2, RowsWrittenBack DEF SaveLines
<1>4. /\ PricesGoOn
      /\ price' \in [Prices -> Price]
      /\ mat' \in [Materials -> RowStatus]
      /\ imp' \in [Imports -> ImportStatus]
  BY DEF SaveLines, IInv, TypeOK, PricesGoOn
<1> QED
  BY <1>3, <1>4, FinishIInv DEF SaveLines

\* approve takes its lines.
LEMMA ApproveLinesIInv ==
    ASSUME IInv, NEW r \in Reqs, ApproveLines(r)
    PROVE  IInv'
<1> DEFINE ls == {l \in req[r].todo \cap LinesOf(req[r].imp) :
                    line[l].status # "approved" /\ line[l].material # NoMaterial}
           rows == Read(ls)
           next == [req[r] EXCEPT !.pc = "approve", !.todo = ls, !.rows = rows]
<1>1. TypeOK /\ req[r] \in Request
  BY DEF IInv, TypeOK
<1>2. ls \in SUBSET Lines
  BY DEF LinesOf
<1>3. rows \in [Lines -> Line] /\ \A l \in ls : rows[l] = line[l]
  BY <1>1, <1>2, ReadTyped
<1>4. req' = [req EXCEPT ![r] = next] /\ UNCHANGED <<imp, line, price, mat, job, worker>>
  BY DEF ApproveLines
<1>5. ASSUME NEW l \in ls
      PROVE  OfLine(l, line[l], price)
  BY RowIsOfLine DEF LinesOf
<1> HIDE DEF ls, rows
<1>6. next \in Request /\ next.pc = "approve" /\ next.todo = ls /\ next.rows = rows
  BY <1>1, <1>2, <1>3 DEF Request
<1> HIDE DEF next
<1>7. Remembered(next)
  BY <1>3, <1>5, <1>6 DEF Remembered, RememberedIn
<1> QED
  BY <1>1, <1>4, <1>6, <1>7, RequestMoves DEF TypeOK

\* approve creates a price for a line: nothing names the price yet.
LEMMA ApprovePriceIInv ==
    ASSUME IInv, NEW r \in Reqs, ApprovePrice(r)
    PROVE  IInv'
<1>1. /\ req[r] \in Request
      /\ Remembered(req[r])
      /\ req[r].pc = "approve"
      /\ line \in [Lines -> Line]
      /\ price \in [Prices -> Price]
      /\ mat' \in [Materials -> RowStatus]
      /\ imp' \in [Imports -> ImportStatus]
      /\ job' \in [Jobs -> Job]
  BY DEF ApprovePrice, At, IInv, TypeOK
<1>2. PICK l \in req[r].todo :
        \/ \E p \in Prices :
              /\ price[p] = FreePrice
              /\ price' = [price EXCEPT ![p] = [status |-> "live", line |-> l,
                                               material |-> req[r].rows[l].material]]
              /\ req' = [req EXCEPT ![r] = [req[r] EXCEPT !.pc = "approve_save",
                                            !.todo = req[r].todo \ {l}, !.line = l, !.price = p]]
        \/ /\ req' = [req EXCEPT ![r].todo = req[r].todo \ {l}]
           /\ UNCHANGED price
  BY DEF ApprovePrice
<1> DEFINE left == req[r].todo \ {l}
<1>3. /\ left \in SUBSET Lines
      /\ l \in Lines
      /\ \A k \in left : OfLine(k, req[r].rows[k], price)
  BY <1>1 DEF Request, Remembered, RememberedIn, Remembers
<1> HIDE DEF left
<1>4. ASSUME NEW p \in Prices,
             price[p] = FreePrice,
             price' = [price EXCEPT ![p] = [status |-> "live", line |-> l,
                                            material |-> req[r].rows[l].material]],
             req' = [req EXCEPT ![r] = [req[r] EXCEPT !.pc = "approve_save",
                                        !.todo = left, !.line = l, !.price = p]]
      PROVE  IInv'
  <2> DEFINE row == [status |-> "live", line |-> l, material |-> req[r].rows[l].material]
             next == [req[r] EXCEPT !.pc = "approve_save", !.todo = left, !.line = l, !.price = p]
  <2>1. row \in Price /\ row.status = "live" /\ row.line = l
    BY <1>1 DEF Request, Price, Line, RowStatus
  <2>2. /\ next \in Request
        /\ next.pc = "approve_save"
        /\ next.todo = left
        /\ next.rows = req[r].rows
        /\ next.line = l
        /\ next.price = p
    BY <1>1, <1>3 DEF Request
  <2>3. price' = [price EXCEPT ![p] = row] /\ req' = [req EXCEPT ![r] = next]
    BY <1>4
  <2> HIDE DEF row, next
  <2>4. price' \in [Prices -> Price] /\ price'[p] = row /\ \A k \in Prices \ {p} : price'[k] = price[k]
    BY <1>1, <2>1, <2>3
  <2>5. price[p].status = "none"
    BY <1>4 DEF FreePrice
  <2>6. PricesGoOn
    BY <2>4, <2>5 DEF PricesGoOn
  <2>7. RememberedIn(next, price')
    <3>1. ASSUME NEW k \in Lines, NEW old \in Line, OfLine(k, old, price)
          PROVE  OfLine(k, old, price')
      BY <2>6, <3>1 DEF OfLine, Line, PricesGoOn
    <3>2. \A k \in left : OfLine(k, req[r].rows[k], price')
      BY <1>1, <1>3, <3>1 DEF Request
    <3> QED
      BY <1>3, <2>1, <2>2, <2>4, <3>2 DEF RememberedIn
  <2>8. PriceIsOfLine'
    <3>1. ASSUME NEW k \in Lines, line[k].price # NoPrice
          PROVE  /\ price'[line[k].price].status = "live"
                 /\ price'[line[k].price].line = k
      BY <1>1, <2>4, <2>5, <3>1 DEF IInv, PriceIsOfLine, Line
    <3> QED
      BY <3>1 DEF PriceIsOfLine, ApprovePrice
  <2>9. line' \in [Lines -> Line] /\ UNCHANGED <<job, worker>>
    BY <1>1 DEF ApprovePrice
  <2> QED
    BY <1>1, <2>2, <2>3, <2>4, <2>6, <2>7, <2>8, <2>9, WriteIInv
<1>5. CASE req' = [req EXCEPT ![r].todo = left] /\ UNCHANGED price
  <2> DEFINE next == [req[r] EXCEPT !.todo = left]
  <2>1. next \in Request /\ next.pc = "approve" /\ next.todo = left /\ next.rows = req[r].rows
    BY <1>1, <1>3 DEF Request
  <2>2. req' = [req EXCEPT ![r] = next]
    BY <1>5
  <2> HIDE DEF next
  <2>3. Remembered(next)
    BY <1>3, <2>1 DEF Remembered, RememberedIn
  <2> QED
    BY <1>1, <1>5, <2>1, <2>2, <2>3, RequestMoves DEF ApprovePrice
<1> QED
  BY <1>2, <1>4, <1>5 DEF left

\* approve saves its line with the price it created.
LEMMA ApproveSaveIInv ==
    ASSUME IInv, NEW r \in Reqs, ApproveSave(r)
    PROVE  IInv'
<1> DEFINE l == req[r].line
           row == ApprovedRow(req[r])
           rows == [req[r].rows EXCEPT ![l] = row]
           next == [req[r] EXCEPT !.pc = "approve"]
<1>1. /\ req[r] \in Request
      /\ Remembered(req[r])
      /\ req[r].pc = "approve_update"
      /\ price' \in [Prices -> Price]
      /\ mat' \in [Materials -> RowStatus]
      /\ imp' \in [Imports -> ImportStatus]
  BY DEF ApproveSave, At, IInv, TypeOK
<1>2. /\ l \in Lines
      /\ req[r].price \in Prices
      /\ price[req[r].price].status # "none"
      /\ price[req[r].price].status = "live" => price[req[r].price].line = l
      /\ \A k \in req[r].todo : OfLine(k, req[r].rows[k], price)
      /\ req[r].rows \in [Lines -> Line]
  BY <1>1 DEF Remembered, RememberedIn, Remembers, Request
<1>3. /\ PatchRows({l}, rows, req[r].seen)
      /\ req' = [req EXCEPT ![r].pc = "approve"]
      /\ UNCHANGED <<imp, price, mat, job, worker>>
  BY DEF ApproveSave, Goto
<1>4. row \in Line /\ row.status = "approved" /\ row.price = req[r].price
  <2> DEFINE old == req[r].rows[l]
             p == req[r].price
  <2>1. old \in Line /\ p \in Prices /\ row = [old EXCEPT !.status = "approved", !.price = p]
    BY <1>2 DEF ApprovedRow
  <2> HIDE DEF old, p, row
  <2>2. row \in Line /\ row.status = "approved" /\ row.price = p
    BY <2>1 DEF Line, LiveLine
  <2> QED
    BY <2>2 DEF p
<1>5. /\ next \in Request
      /\ next.pc = "approve"
      /\ next.todo = req[r].todo
      /\ next.rows = req[r].rows
  BY <1>1 DEF Request
<1>6. req' = [req EXCEPT ![r] = next]
  BY <1>3
<1> HIDE DEF l, row, next
<1>7. rows \in [Lines -> Line] /\ rows[l] = row
  BY <1>2, <1>4
<1> DEFINE ls == {l}
<1>8. ls \in SUBSET Lines /\ \A k \in ls : OfLine(k, rows[k], price)
  BY <1>2, <1>4, <1>7 DEF OfLine
<1> HIDE DEF rows
<1>9. line' \in [Lines -> Line] /\ PriceIsOfLine'
  BY <1>3, <1>7, <1>8, RowsWrittenBack
<1>10. RememberedIn(next, price') /\ PricesGoOn
  BY <1>2, <1>3, <1>5 DEF RememberedIn, PricesGoOn
<1> QED
  BY <1>1, <1>3, <1>5, <1>6, <1>9, <1>10, WriteIInv

\* remove takes the lines with it and leaves the prices.
LEMMA RemoveDeleteIInv ==
    ASSUME IInv, NEW r \in Reqs, RemoveDelete(r)
    PROVE  IInv'
<1>1. TypeOK /\ PriceIsOfLine
  BY DEF IInv
<1> DEFINE gone == [NoRow EXCEPT !.status = "deleted"]
<1>2. gone \in Line /\ gone.price = NoPrice
  BY DEF Line, NoRow
<1> HIDE DEF gone
<1>3. \A l \in Lines : line'[l] \in {line[l], gone}
  BY DEF RemoveDelete, gone
<1>4. line' \in [Lines -> Line]
  <2>1. \A l \in Lines : line'[l] \in Line
    BY <1>1, <1>2, <1>3 DEF TypeOK
  <2> QED
    BY <2>1 DEF RemoveDelete
<1>5. PriceIsOfLine'
  <2>1. UNCHANGED price
    BY DEF RemoveDelete
  <2>2. \A l \in Lines : line'[l] = line[l] \/ line'[l].price = NoPrice
    BY <1>2, <1>3
  <2> QED
    BY <1>1, <2>1, <2>2 DEF PriceIsOfLine
<1>6. imp' \in [Imports -> ImportStatus]
  BY <1>1, StatusTyped DEF RemoveDelete, ImportStatus
<1>7. PricesGoOn /\ price' \in [Prices -> Price] /\ mat' \in [Materials -> RowStatus]
  BY <1>1 DEF RemoveDelete, PricesGoOn, TypeOK
<1> QED
  BY <1>4, <1>5, <1>6, <1>7, FinishIInv DEF RemoveDelete

\* A material takes its prices with it, and every reference to them.
LEMMA RemoveMaterialDeleteIInv ==
    ASSUME IInv, NEW r \in Reqs, RemoveMaterialDelete(r)
    PROVE  IInv'
<1>1. TypeOK /\ PriceIsOfLine
  BY DEF IInv
<1> DEFINE m == req[r].material
           gone == PricesOf(m)
           kept(p) == IF p \in gone THEN NoPrice ELSE p
           none == [FreePrice EXCEPT !.status = "deleted"]
<1>2. /\ mat' = [mat EXCEPT ![m] = "deleted"]
      /\ price' = [p \in Prices |-> IF p \in gone THEN none ELSE price[p]]
      /\ line' = [l \in Lines |->
                    [imp |-> line[l].imp, status |-> line[l].status, price |-> kept(line[l].price),
                     material |-> IF line[l].material = m THEN NoMaterial ELSE line[l].material]]
      /\ Finish(r)
      /\ UNCHANGED <<imp, job, worker>>
  BY DEF RemoveMaterialDelete
<1>3. none \in Price /\ none.status = "deleted"
  BY DEF FreePrice, Price, RowStatus
<1>4. mat' \in [Materials -> RowStatus] /\ imp' \in [Imports -> ImportStatus]
  BY <1>1, <1>2 DEF TypeOK, RowStatus
<1> HIDE DEF m, gone, none
<1>6. \A p \in Prices : price'[p] = IF p \in gone THEN none ELSE price[p]
  BY <1>2
<1>7. price' \in [Prices -> Price]
  BY <1>1, <1>2, <1>3 DEF TypeOK
<1>8. PricesGoOn
  BY <1>3, <1>6 DEF PricesGoOn
<1>9. ASSUME NEW l \in Lines
      PROVE  /\ line'[l] \in Line
             /\ line'[l].status = line[l].status
             /\ line'[l].price = kept(line[l].price)
  BY <1>1, <1>2 DEF TypeOK, Line
<1>10. line' \in [Lines -> Line]
  BY <1>2, <1>9
<1>11. ASSUME NEW l \in Lines, line'[l].price # NoPrice
       PROVE  /\ price'[line'[l].price].status = "live"
              /\ price'[line'[l].price].line = l
  <2>1. line'[l].price = line[l].price /\ line[l].price \notin gone /\ line[l].price \in Prices
    BY <1>9, <1>11 DEF Line
  <2> QED
    BY <1>1, <1>6, <1>9, <1>11, <2>1 DEF PriceIsOfLine
<1>12. PriceIsOfLine'
  BY <1>11 DEF PriceIsOfLine
<1> QED
  BY <1>2, <1>4, <1>7, <1>8, <1>10, <1>12, FinishIInv

\* approve counts the lines left and moves on to the import's status.
LEMMA ApproveCountIInv ==
    ASSUME IInv, NEW r \in Reqs, ApproveCount(r)
    PROVE  IInv'
<1> DEFINE i == req[r].imp
           flag == PendingOf(i) = {}
           next == [Idle EXCEPT !.pc = "refresh", !.imp = i, !.flag = flag]
<1>1. /\ i \in Imports \cup {NoImport}
      /\ mat' \in [Materials -> RowStatus]
      /\ imp' \in [Imports -> ImportStatus]
      /\ job' \in [Jobs -> Job]
  BY DEF ApproveCount, IInv, TypeOK, Request
<1>2. flag \in BOOLEAN /\ req' = [req EXCEPT ![r] = next]
  BY DEF ApproveCount
<1> HIDE DEF i, flag
<1>3. next \in Request /\ next.pc = "refresh"
  BY <1>1, <1>2, IdleTyped DEF Request
<1> HIDE DEF next
<1>4. Remembered(next)
  BY <1>3 DEF Remembered, RememberedIn, Remembers
<1> QED
  BY <1>1, <1>2, <1>3, <1>4, RequestMoves DEF ApproveCount

\* Every later step of a request keeps the invariant.
LEMMA ContinueIInv ==
    ASSUME IInv, NEW r \in Reqs, Continue(r)
    PROVE  IInv'
<1>1. TypeOK
  BY DEF IInv
<1>2. CASE Encolar(r)
  <2>1. job' \in [Jobs -> Job]
    <3>1. CASE UNCHANGED job
      BY <1>1, <3>1 DEF TypeOK
    <3>2. CASE \E j \in Jobs : job' = [job EXCEPT ![j] = [imp |-> req[r].imp, attempts |-> Attempts]]
      BY <1>1, <3>2, ConstantsAssumption DEF TypeOK, Job, Request
    <3> QED
      BY <1>2, <3>1, <3>2 DEF Encolar
  <2>2. imp' \in [Imports -> ImportStatus]
    BY <1>1, <1>2 DEF Encolar, TypeOK
  <2> QED
    BY <1>2, <2>1, <2>2, MovesIInv DEF Encolar
<1>3. CASE RetryCount(r)
  <2>1. imp' \in [Imports -> ImportStatus] /\ job' \in [Jobs -> Job]
    BY <1>1, <1>3 DEF RetryCount, TypeOK
  <2> QED
    BY <1>3, <2>1, MovesIInv DEF RetryCount
<1>4. CASE RetryUpdate(r)
  <2>1. imp' \in [Imports -> ImportStatus] /\ job' \in [Jobs -> Job]
    BY <1>1, <1>4, StatusTyped DEF RetryUpdate, TypeOK, ImportStatus
  <2> QED
    BY <1>4, <2>1, MovesIInv DEF RetryUpdate
<1>5. CASE RetryFind(r)
  <2>1. imp' \in [Imports -> ImportStatus] /\ job' \in [Jobs -> Job]
    BY <1>1, <1>5 DEF RetryFind, TypeOK
  <2> QED
    BY <1>5, <2>1, MovesIInv DEF RetryFind
<1>6. CASE ApproveRefresh(r)
  <2>1. imp' \in [Imports -> ImportStatus]
    BY <1>1, <1>6, StatusTyped DEF ApproveRefresh, ImportStatus
  <2>2. job' \in [Jobs -> Job]
    BY <1>1, <1>6 DEF ApproveRefresh, TypeOK
  <2> QED
    BY <1>6, <2>1, <2>2, MovesIInv DEF ApproveRefresh
<1> QED
  BY <1>2, <1>3, <1>4, <1>5, <1>6, SaveReadIInv, SaveLinesIInv, ApproveLinesIInv, ApprovePriceIInv,
     ApproveSaveIInv, ApproveCountIInv, RemoveDeleteIInv, RemoveMaterialDeleteIInv DEF Continue

\* A restart forgets requests and worker.
LEMMA RestartIInv == IInv /\ Restart => IInv'
<1> SUFFICES ASSUME IInv, Restart
             PROVE  IInv'
  OBVIOUS
<1>1. TypeOK'
  BY IdleTyped DEF IInv, Restart, TypeOK, IdleWorker, Worker
<1>2. \A r \in Reqs : Remembered(req[r])'
  BY IdleTyped DEF Restart, Remembered, RememberedIn, Remembers
<1>3. PriceIsOfLine'
  BY DEF IInv, Restart, PriceIsOfLine
<1> QED
  BY <1>1, <1>2, <1>3 DEF IInv, Restart, IdleWorker

\* The invariant is inductive.
LEMMA NextIInv == IInv /\ [Next]_vars => IInv'
<1> SUFFICES ASSUME IInv, [Next]_vars
             PROVE  IInv'
  OBVIOUS
<1>1. CASE UNCHANGED vars
  BY <1>1 DEF vars, IInv, TypeOK, PriceIsOfLine, Remembered
<1> QED
  BY <1>1, StartIInv, ContinueIInv, WorkerIInv, RestartIInv DEF Next

\* The invariant holds throughout, for any imports, lines, prices, materials,
\* jobs and requests.
THEOREM SpecIInv == Spec => []IInv
BY InitIInv, NextIInv, PTL DEF Spec

(***************************************************************************)
(* What follows, with or without outages.                                  *)
(***************************************************************************)
\* The tables, the queue, the worker and the requests keep their types.
THEOREM SpecTypeOK == Spec => []TypeOK
BY SpecIInv, PTL DEF IInv

\* However many people review, approve and remove at once, and whatever columns
\* they save, a line that names a price is the one it was created from, and the
\* price exists.
THEOREM SpecPriceIsOfLine == Spec => []PriceIsOfLine
BY SpecIInv, PTL DEF IInv

(***************************************************************************)
(* With one request at a time, beside the worker and across restarts: what *)
(* the request that works alone knows.                                     *)
(***************************************************************************)
OneAtATime == \A q, r \in Reqs : q = r

\* A material about to be removed has no price.
RemovalIsFree ==
    \A r \in Reqs : req[r].pc = "delete_material" => PricesOf(req[r].material) = {}

\* The lines with a price are the approved ones.
Settled == \A l \in Lines : line[l].status = "approved" <=> line[l].price # NoPrice

Waiting == {"none", "pending", "processing", "failed"}
InReview == {"review", "done"}
Editing == {"pending", "rejected"}
Saving == {"save_lines", "save_update"}
Approving == {"approve_save", "approve_update"}
OfAnImport == {"enqueue", "retry_count", "retry_update", "retry_find", "approve_read", "approve",
               "approve_save", "approve_update", "refresh", "delete"}

\* A row that may be saved over a line: the line is still under review, of the
\* same import.
Rewrites(l, row) ==
    /\ line[l].status \in Editing
    /\ row.status \in Editing
    /\ row.imp = line[l].imp
    /\ row.price = line[l].price

\* No line of the import is approved.
Unapproved(i) == \A l \in LinesOf(i) : line[l].status # "approved"

\* What a request knows of the imports and lines it has read.
Knows(q) ==
    /\ q.pc \in OfAnImport => q.imp \in Imports
    /\ q.pc = "retry_count" =>
          imp[q.imp] \in {"failed", "review"} /\ (q.flag => imp[q.imp] = "failed")
    /\ q.pc = "retry_update" => imp[q.imp] \in {"failed", "review"} /\ Unapproved(q.imp)
    /\ q.pc \in {"approve_read", "approve", "approve_save", "approve_update", "refresh"} =>
          imp[q.imp] \in InReview
    /\ q.pc \in Saving \cup Approving \cup {"approve"} => \A l \in q.todo : Rewrites(l, q.rows[l])
    /\ q.pc = "save_update" => \A l \in q.todo : q.seen[l] = line[l]
    /\ q.pc \in Approving =>
          /\ q.line \notin q.todo
          /\ line[q.line].imp = q.imp
          /\ Rewrites(q.line, q.rows[q.line])
          /\ price[q.price].status = "live"
          /\ price[q.price].material = q.rows[q.line].material
          /\ q.rows[q.line].material # NoMaterial => mat[q.rows[q.line].material] = "live"
    /\ q.pc = "approve_update" => q.seen[q.line] = line[q.line]
    /\ q.pc \in Approving \cup {"approve"} => \A l \in q.todo : line[l].imp = q.imp

\* What the worker knows of the import it reads.
WorkerKnows ==
    /\ worker.pc # "idle" => WorkerImport \in Imports
    /\ worker.pc = "mark" => imp[WorkerImport] \in {"pending", "deleted"}
    /\ worker.pc \in {"extract", "save", "failed", "review"} =>
          imp[WorkerImport] \in {"processing", "deleted"}

\* The queue holds jobs of imports.
QueueKnows == \A j \in Jobs : job[j] = FreeJob \/ job[j].imp \in Imports

\* An import not read yet, being read, or to be read again, has no approved line.
WaitingIsUnapproved == \A i \in Imports : imp[i] \in Waiting => Unapproved(i)

\* The line of an import is one under review or reviewed.
OwnedIsLive == \A l \in Lines : line[l].imp # NoImport => line[l].status \in LiveLine

\* A line is approved with the material its price is of.
ApprovedMaterial ==
    \A l \in Lines : line[l].status = "approved" => price[line[l].price].material = line[l].material

\* A price that lives is named by its line, or its line is gone, or it has just
\* been created by the request that will save the line.
Accounted ==
    \A p \in Prices : price[p].status = "live" =>
        /\ price[p].line \in Lines
        /\ \/ line[price[p].line].price = p
           \/ line[price[p].line].status = "deleted"
           \/ \E r \in Reqs : req[r].pc \in Approving /\ req[r].price = p

AloneInv ==
    /\ IInv
    /\ Settled
    /\ RemovalIsFree
    /\ \A r \in Reqs : Knows(req[r])
    /\ WorkerKnows
    /\ QueueKnows
    /\ WaitingIsUnapproved
    /\ OwnedIsLive
    /\ ApprovedMaterial
    /\ ~Outages => OnePricePerLine /\ Accounted

\* The request that goes on alone does not begin to remove a material.
LEMMA ContinueRemoval ==
    ASSUME OneAtATime, IInv, RemovalIsFree, NEW r \in Reqs, Continue(r)
    PROVE  RemovalIsFree'
<1>1. /\ TypeOK
      /\ req[r] \in Request
      /\ \A q \in Reqs : q = r
  BY DEF IInv, TypeOK, OneAtATime
<1>2. req'[r].pc # "delete_material"
  <2>1. CASE Finish(r)
    BY <1>1, <2>1, IdleTyped DEF Finish, TypeOK
  <2>2. CASE \E label \in {"enqueue", "retry_update", "retry_find", "approve"} : Goto(r, label)
    BY <1>1, <2>2 DEF Goto, TypeOK
  <2>3. CASE ApproveLines(r)
    BY <1>1, <2>3 DEF ApproveLines, TypeOK
  <2>4. CASE ApprovePrice(r)
    <3>1. PICK l \in req[r].todo :
            \/ \E p \in Prices :
                  req' = [req EXCEPT ![r] = [req[r] EXCEPT !.pc = "approve_save",
                                                !.todo = req[r].todo \ {l}, !.line = l, !.price = p]]
            \/ req' = [req EXCEPT ![r].todo = req[r].todo \ {l}]
      BY <2>4 DEF ApprovePrice
    <3>2. req[r].pc = "approve"
      BY <2>4 DEF ApprovePrice, At
    <3>3. ASSUME NEW next, req' = [req EXCEPT ![r] = next]
          PROVE  req'[r] = next
      BY <1>1, <3>3 DEF TypeOK
    <3> DEFINE left == req[r].todo \ {l}
    <3>4. CASE req' = [req EXCEPT ![r].todo = left]
      BY <3>2, <3>4
    <3>5. ASSUME NEW p \in Prices,
                 req' = [req EXCEPT ![r] = [req[r] EXCEPT !.pc = "approve_save",
                                            !.todo = left, !.line = l, !.price = p]]
          PROVE  req'[r].pc = "approve_save"
      <4> DEFINE next == [req[r] EXCEPT !.pc = "approve_save", !.todo = left, !.line = l, !.price = p]
      <4>1. next.pc = "approve_save"
        OBVIOUS
      <4>2. req' = [req EXCEPT ![r] = next]
        BY <3>5
      <4> HIDE DEF next
      <4> QED
        BY <3>3, <4>1, <4>2
    <3> QED
      BY <3>1, <3>4, <3>5
  <2>5. CASE ApproveCount(r)
    BY <1>1, <2>5 DEF ApproveCount, TypeOK
  <2>6. ASSUME NEW ls, NEW label \in {"save_update", "approve_update"},
               req' = [req EXCEPT ![r] = [req[r] EXCEPT !.pc = label, !.seen = Read(ls)]]
        PROVE  req'[r].pc = label
    <3> DEFINE seen == Read(ls)
               next == [req[r] EXCEPT !.pc = label, !.seen = seen]
    <3>1. next.pc = label
      <4> HIDE DEF seen
      <4> QED
        BY <1>1 DEF Request
    <3>2. req'[r] = next
      <4> HIDE DEF next
      <4>1. req' = [req EXCEPT ![r] = next]
        BY <2>6 DEF next
      <4> QED
        BY <1>1, <4>1 DEF TypeOK
    <3> HIDE DEF next
    <3> QED
      BY <3>1, <3>2
  <2>7. CASE SaveLinesRead(r)
    <3>1. CASE req' = [req EXCEPT ![r] = [req[r] EXCEPT !.pc = "save_update", !.seen = Read(req[r].todo)]]
      <4>1. req'[r].pc = "save_update"
        BY <2>6, <3>1
      <4> QED
        BY <4>1
    <3> QED
      BY <2>1, <2>7, <3>1 DEF SaveLinesRead
  <2>8. CASE ApproveSaveRead(r)
    <3>1. CASE req' = [req EXCEPT ![r] = [req[r] EXCEPT !.pc = "approve_update", !.seen = Read({req[r].line})]]
      <4>1. req'[r].pc = "approve_update"
        BY <2>6, <3>1
      <4> QED
        BY <4>1
    <3> QED
      BY <2>2, <2>8, <3>1 DEF ApproveSaveRead
  <2> QED
    BY <2>1, <2>2, <2>3, <2>4, <2>5, <2>7, <2>8 DEF Continue, Encolar, RetryCount, RetryUpdate, RetryFind,
       SaveLines, ApproveSave, ApproveRefresh, RemoveDelete, RemoveMaterialDelete
<1>3. RemovalIsFree'
  BY <1>1, <1>2 DEF RemovalIsFree
<1> QED
  BY <1>3

\* One that starts alone does so when it found no prices.
LEMMA StartRemoval ==
    ASSUME OneAtATime, IInv, RemovalIsFree, NEW r \in Reqs, Start(r)
    PROVE  RemovalIsFree'
<1>1. TypeOK /\ \A q \in Reqs : q = r
  BY DEF IInv, OneAtATime
<1>2. UNCHANGED <<line, price>>
  BY DEF Start, Create, RetryRead, RematchRead, ApproveRead, RemoveRead, UpdateLineRead,
     MaterialForLineRead, RemoveMaterialRead
<1>3. ASSUME NEW m \in Materials, RemoveMaterialRead(r, m)
      PROVE  RemovalIsFree'
  <2>1. PricesOf(m)' = {}
    BY <1>2, <1>3 DEF RemoveMaterialRead, PricesOf
  <2> DEFINE next == [Idle EXCEPT !.pc = "delete_material", !.material = m]
  <2>2. next.material = m
    BY DEF Idle
  <2>3. req' = [req EXCEPT ![r] = next]
    BY <1>3 DEF RemoveMaterialRead, Begin
  <2> HIDE DEF next
  <2>4. PICK a : a = req'[r]
    OBVIOUS
  <2>5. a.material = m
    BY <1>1, <2>2, <2>3, <2>4 DEF TypeOK
  <2>6. PricesOf(a.material)' = {}
    BY <2>1, <2>5 DEF PricesOf
  <2> QED
    BY <1>1, <2>4, <2>6 DEF RemovalIsFree, PricesOf
<1>4. ASSUME \A m \in Materials : ~RemoveMaterialRead(r, m)
      PROVE  RemovalIsFree'
  <2>1. req'[r].pc \in {"enqueue", "retry_count", "save_lines", "approve_read", "delete"}
    <3>1. ASSUME NEW next, Begin(r, next)
          PROVE  req'[r] = next
      BY <1>1, <3>1 DEF Begin, TypeOK
    <3>2. ASSUME NEW ls, NEW rows, SaveLater(r, ls, rows)
          PROVE  req'[r].pc = "save_lines"
      BY <1>1, <3>2 DEF SaveLater, Begin, TypeOK
    <3>3. ASSUME NEW i \in Imports, Create(r, i) \/ RemoveRead(r, i)
          PROVE  req'[r].pc \in {"enqueue", "delete"}
      <4>1. [Idle EXCEPT !.pc = "enqueue", !.imp = i].pc = "enqueue"
        OBVIOUS
      <4> QED
        BY <3>1, <3>3, <4>1 DEF Create, RemoveRead
    <3>4. ASSUME NEW i \in Imports, ApproveRead(r, i)
          PROVE  req'[r].pc = "approve_read"
      <4>1. PICK ls \in SUBSET Lines : Begin(r, [Idle EXCEPT !.pc = "approve_read", !.imp = i, !.todo = ls])
        BY <3>4 DEF ApproveRead
      <4>2. [Idle EXCEPT !.pc = "approve_read", !.imp = i, !.todo = ls].pc = "approve_read"
        OBVIOUS
      <4> QED
        BY <3>1, <4>1, <4>2
    <3>5. ASSUME NEW i \in Imports, RetryRead(r, i)
          PROVE  req'[r].pc = "retry_count"
      <4> DEFINE failed == imp[i] = "failed"
                 next == [Idle EXCEPT !.pc = "retry_count", !.imp = i, !.flag = failed]
      <4>1. Begin(r, next)
        BY <3>5 DEF RetryRead
      <4> HIDE DEF failed
      <4>3. next.pc = "retry_count"
        OBVIOUS
      <4> HIDE DEF next
      <4> QED
        BY <3>1, <4>1, <4>3
    <3>6. ASSUME NEW i \in Imports, RematchRead(r, i)
          PROVE  req'[r].pc = "save_lines"
      BY <3>2, <3>6 DEF RematchRead
    <3>7. ASSUME NEW l \in Lines, UpdateLineRead(r, l) \/ MaterialForLineRead(r, l)
          PROVE  req'[r].pc = "save_lines"
      BY <3>2, <3>7 DEF UpdateLineRead, MaterialForLineRead
    <3> QED
      BY <1>4, <3>3, <3>4, <3>5, <3>6, <3>7 DEF Start
  <2> QED
    BY <1>1, <2>1 DEF RemovalIsFree
<1> QED
  BY <1>3, <1>4

LEMMA InitAloneInv == Init => AloneInv
<1> SUFFICES ASSUME Init
             PROVE  AloneInv
  OBVIOUS
<1>1. IInv
  BY InitIInv
<1>2. Settled /\ RemovalIsFree
  BY IdleTyped DEF Init, NoRow, Settled, RemovalIsFree
<1>3. \A r \in Reqs : Knows(req[r])
  BY IdleTyped DEF Init, Knows, OfAnImport, Saving, Approving
<1>4. WorkerKnows /\ QueueKnows
  BY DEF Init, WorkerKnows, QueueKnows, IdleWorker
<1>5. WaitingIsUnapproved /\ OwnedIsLive /\ ApprovedMaterial
  BY ConstantsAssumption DEF Init, WaitingIsUnapproved, Unapproved, OwnedIsLive, ApprovedMaterial,
     LinesOf, NoRow
<1>6. OnePricePerLine /\ Accounted
  BY DEF Init, OnePricePerLine, Accounted, FreePrice
<1> QED
  BY <1>1, <1>2, <1>3, <1>4, <1>5, <1>6 DEF AloneInv

\* What a request does to the imports: it makes none wait that has an approved
\* line, and leaves those the worker may have in hand, or deletes them.
StatusesGoOn ==
    \A i \in Imports :
        /\ imp'[i] \in Waiting => Unapproved(i)
        /\ imp[i] \in {"pending", "processing", "deleted"} => imp'[i] \in {imp[i], "deleted"}

\* What it does to the lines: none is added to an import, and none is approved
\* but of an import in review.
LinesGoOn ==
    \A l \in Lines :
        /\ line'[l].imp \in {line[l].imp, NoImport}
        /\ line'[l].status = "approved" =>
              line[l].status = "approved" \/ imp'[line[l].imp] \notin Waiting

\* What it does to the queue: a place that was free may get a job.
QueueGrows == \A j \in Jobs : job'[j] = job[j] \/ (job[j] = FreeJob /\ job'[j].imp \in Imports)

PricesKept == ~Outages => OnePricePerLine /\ Accounted

\* A request works beside the worker.
LEMMA AloneMoves ==
    ASSUME OneAtATime, AloneInv, IInv', Settled', RemovalIsFree',
           NEW r \in Reqs, Knows(req[r])',
           UNCHANGED worker, QueueGrows, StatusesGoOn, LinesGoOn,
           OwnedIsLive', ApprovedMaterial', PricesKept'
    PROVE  AloneInv'
<1>1. WorkerKnows /\ QueueKnows /\ IInv
  BY DEF AloneInv
<1>2. \A q \in Reqs : Knows(req[q])'
  BY DEF OneAtATime
<1>4. QueueKnows'
  BY <1>1 DEF QueueKnows, QueueGrows
<1>5. WaitingIsUnapproved'
  <2> SUFFICES ASSUME NEW i \in Imports, imp'[i] \in Waiting, NEW l \in Lines, line'[l].imp = i
               PROVE  line'[l].status # "approved"
    BY DEF WaitingIsUnapproved, Unapproved, LinesOf
  <2>1. line[l].imp = i
    BY ConstantsAssumption DEF LinesGoOn
  <2> QED
    BY <2>1 DEF StatusesGoOn, LinesGoOn, Unapproved, LinesOf
<1>6. WorkerKnows'
  <2>1. CASE worker.pc = "idle"
    BY <2>1 DEF WorkerKnows
  <2>2. CASE worker.pc # "idle"
    <3>1. WorkerImport \in Imports /\ worker.job \in Jobs
      BY <1>1, <2>2 DEF WorkerKnows, IInv
    <3>2. WorkerImport' = WorkerImport
      BY <3>1, ConstantsAssumption DEF WorkerImport, QueueGrows, FreeJob
    <3> QED
      BY <1>1, <3>1, <3>2 DEF WorkerKnows, StatusesGoOn
  <2> QED
    BY <2>1, <2>2
<1> QED
  BY <1>2, <1>4, <1>5, <1>6 DEF AloneInv, PricesKept

\* A request that writes neither lines nor prices.
LEMMA AloneQuiet ==
    ASSUME OneAtATime, AloneInv, IInv', RemovalIsFree',
           NEW r \in Reqs, Knows(req[r])',
           req[r].pc \notin Approving \/ (req'[r].pc \in Approving /\ req'[r].price = req[r].price),
           UNCHANGED <<line, price, worker>>, QueueGrows, StatusesGoOn
    PROVE  AloneInv'
<1>1. LinesGoOn /\ OwnedIsLive' /\ ApprovedMaterial' /\ Settled'
  BY DEF AloneInv, LinesGoOn, OwnedIsLive, ApprovedMaterial, Settled
<1>2. PricesKept'
  <2>1. OnePricePerLine => OnePricePerLine'
    BY DEF OnePricePerLine
  <2>2. Accounted => Accounted'
    BY DEF Accounted, OneAtATime
  <2> QED
    BY <2>1, <2>2 DEF AloneInv, PricesKept
<1> QED
  BY <1>1, <1>2, AloneMoves

LEMMA NothingNew ==
    ASSUME AloneInv
    PROVE  /\ UNCHANGED imp => StatusesGoOn
           /\ UNCHANGED job => QueueGrows
BY DEF AloneInv, WaitingIsUnapproved, StatusesGoOn, QueueGrows

\* The import a request has read gets another status.
LEMMA StatusGoesOn ==
    ASSUME AloneInv, NEW i \in Imports, NEW status \in ImportStatus,
           imp[i] \notin {"pending", "processing"} \/ status = "deleted",
           status \in Waiting => Unapproved(i),
           UpdateStatus(i, status)
    PROVE  StatusesGoOn
<1>1. imp \in [Imports -> ImportStatus] /\ WaitingIsUnapproved
  BY DEF AloneInv, IInv, TypeOK
<1>2. CASE UNCHANGED imp
  BY <1>1, <1>2 DEF WaitingIsUnapproved, StatusesGoOn
<1>3. CASE Exists(i) /\ imp' = [imp EXCEPT ![i] = status]
  BY <1>1, <1>3 DEF WaitingIsUnapproved, StatusesGoOn, Exists
<1> QED
  BY <1>2, <1>3 DEF UpdateStatus

\* What Begin puts in place of the idle request.
LEMMA BeginReads ==
    ASSUME IInv, NEW r \in Reqs, NEW next, Begin(r, next)
    PROVE  req'[r] = next /\ req[r].pc = "idle"
BY DEF IInv, TypeOK, Begin, At

\* A request that starts with rows of its lines to write back.
LEMMA SaveLaterKnows ==
    ASSUME AloneInv, NEW r \in Reqs, NEW ls \in SUBSET Lines, NEW rows \in [Lines -> Line],
           \A l \in ls : Rewrites(l, rows[l]),
           SaveLater(r, ls, rows),
           UNCHANGED <<imp, line, price>>
    PROVE  Knows(req[r])' /\ req[r].pc = "idle"
<1>1. PICK a : a = [Idle EXCEPT !.pc = "save_lines", !.todo = ls, !.rows = rows]
  OBVIOUS
<1>2. a.pc = "save_lines" /\ a.todo = ls /\ a.rows = rows
  BY <1>1, IdleTyped DEF Request
<1>3. req'[r] = a /\ req[r].pc = "idle"
  BY <1>1, BeginReads DEF SaveLater, AloneInv
<1>4. Knows(a)'
  BY <1>2 DEF Knows, OfAnImport, Saving, Approving, Rewrites
<1> QED
  BY <1>3, <1>4

\* One line under review, read by itself and edited.
LEMMA OneRewritten ==
    ASSUME TypeOK, NEW l \in Lines, line[l].status \in Editing,
           NEW new \in Line, new.status \in Editing, new.imp = line[l].imp, new.price = line[l].price,
           NEW rows, rows = [Read({l}) EXCEPT ![l] = new]
    PROVE  rows \in [Lines -> Line] /\ \A k \in {l} : Rewrites(k, rows[k])
BY ReadTyped DEF Rewrites

\* The steps that start a request alone.
LEMMA StartAlone ==
    ASSUME OneAtATime, AloneInv, NEW r \in Reqs, Start(r)
    PROVE  AloneInv'
<1>1. /\ IInv' /\ RemovalIsFree'
      /\ IInv /\ TypeOK
      /\ \A l \in Lines : line[l] \in Line
  BY StartIInv, StartRemoval DEF AloneInv, IInv, TypeOK
<1>2. UNCHANGED <<line, price, worker, job>>
  BY DEF Start, Create, RetryRead, RematchRead, ApproveRead, RemoveRead, UpdateLineRead,
     MaterialForLineRead, RemoveMaterialRead
<1>3. QueueGrows /\ (UNCHANGED imp => StatusesGoOn)
  BY <1>2, NothingNew
<1>4. ASSUME Knows(req[r])', req[r].pc = "idle", StatusesGoOn
      PROVE  AloneInv'
  BY <1>1, <1>2, <1>3, <1>4, AloneQuiet DEF Approving
<1>5. ASSUME NEW i \in Imports, Create(r, i)
      PROVE  AloneInv'
  <2>1. PICK a : a = [Idle EXCEPT !.pc = "enqueue", !.imp = i]
    OBVIOUS
  <2>2. a.pc = "enqueue" /\ a.imp = i
    BY <2>1 DEF Idle
  <2>3. req'[r] = a /\ req[r].pc = "idle"
    BY <1>1, <1>5, <2>1, BeginReads DEF Create
  <2>4. Knows(a)'
    BY <2>2 DEF Knows, OfAnImport, Saving, Approving, InReview
  <2>5. StatusesGoOn
    BY <1>1, <1>5 DEF Create, StatusesGoOn, AloneInv, WaitingIsUnapproved, Waiting, TypeOK
  <2> QED
    BY <1>4, <2>3, <2>4, <2>5
<1>6. ASSUME NEW i \in Imports, RetryRead(r, i)
      PROVE  AloneInv'
  <2> DEFINE failed == imp[i] = "failed"
  <2>1. PICK a : a = [Idle EXCEPT !.pc = "retry_count", !.imp = i, !.flag = failed]
    OBVIOUS
  <2>2. a.pc = "retry_count" /\ a.imp = i /\ a.flag = failed
    <3> HIDE DEF failed
    <3> QED
      BY <2>1 DEF Idle
  <2>3. req'[r] = a /\ req[r].pc = "idle" /\ UNCHANGED imp
    BY <1>1, <1>6, <2>1, BeginReads DEF RetryRead
  <2>4. Knows(a)'
    BY <1>6, <2>2, <2>3 DEF RetryRead, Knows, OfAnImport, Saving, Approving
  <2> QED
    BY <1>3, <1>4, <2>3, <2>4
<1>7. ASSUME NEW i \in Imports, ApproveRead(r, i)
      PROVE  AloneInv'
  <2>1. PICK ls \in SUBSET Lines : Begin(r, [Idle EXCEPT !.pc = "approve_read", !.imp = i, !.todo = ls])
    BY <1>7 DEF ApproveRead
  <2>2. PICK a : a = [Idle EXCEPT !.pc = "approve_read", !.imp = i, !.todo = ls]
    OBVIOUS
  <2>3. a.pc = "approve_read" /\ a.imp = i
    BY <2>2 DEF Idle
  <2>4. req'[r] = a /\ req[r].pc = "idle" /\ UNCHANGED imp
    BY <1>1, <1>7, <2>1, <2>2, BeginReads DEF ApproveRead
  <2>5. Knows(a)'
    BY <1>7, <2>3, <2>4 DEF ApproveRead, Knows, OfAnImport, Saving, Approving, InReview
  <2> QED
    BY <1>3, <1>4, <2>4, <2>5
<1>8. ASSUME NEW i \in Imports, RemoveRead(r, i)
      PROVE  AloneInv'
  <2>1. PICK a : a = [Idle EXCEPT !.pc = "delete", !.imp = i]
    OBVIOUS
  <2>2. a.pc = "delete" /\ a.imp = i
    BY <2>1 DEF Idle
  <2>3. req'[r] = a /\ req[r].pc = "idle" /\ UNCHANGED imp
    BY <1>1, <1>8, <2>1, BeginReads DEF RemoveRead
  <2>4. Knows(a)'
    BY <2>2 DEF Knows, OfAnImport, Saving, Approving, InReview
  <2> QED
    BY <1>3, <1>4, <2>3, <2>4
<1>9. ASSUME NEW m \in Materials, RemoveMaterialRead(r, m)
      PROVE  AloneInv'
  <2>1. PICK a : a = [Idle EXCEPT !.pc = "delete_material", !.material = m]
    OBVIOUS
  <2>2. a.pc = "delete_material"
    BY <2>1 DEF Idle
  <2>3. req'[r] = a /\ req[r].pc = "idle" /\ UNCHANGED imp
    BY <1>1, <1>9, <2>1, BeginReads DEF RemoveMaterialRead
  <2>4. Knows(a)'
    BY <2>2 DEF Knows, OfAnImport, Saving, Approving, InReview
  <2> QED
    BY <1>3, <1>4, <2>3, <2>4
<1>10. ASSUME UNCHANGED imp, NEW ls \in SUBSET Lines, NEW rows \in [Lines -> Line],
              \A l \in ls : Rewrites(l, rows[l]), SaveLater(r, ls, rows)
       PROVE  AloneInv'
  BY <1>2, <1>3, <1>4, <1>10, SaveLaterKnows
<1>11. ASSUME NEW l \in Lines, UpdateLineRead(r, l)
       PROVE  AloneInv'
  <2>1. PICK status \in {"pending", "rejected"}, m \in Catalogue :
           SaveLater(r, {l}, [Read({l}) EXCEPT ![l].status = status, ![l].material = m])
    BY <1>11 DEF UpdateLineRead
  <2> DEFINE new == [line[l] EXCEPT !.status = status, !.material = m]
             rows == [Read({l}) EXCEPT ![l].status = status, ![l].material = m]
  <2>2. new \in Line /\ new.status \in Editing /\ new.imp = line[l].imp /\ new.price = line[l].price
    <3>1. m \in Materials \cup {NoMaterial}
      BY DEF Catalogue
    <3> QED
      BY <1>1, <3>1 DEF Line, LiveLine, Editing
  <2>3. rows = [Read({l}) EXCEPT ![l] = new]
    BY <1>1, ReadTyped
  <2>4. SaveLater(r, {l}, rows) /\ UNCHANGED imp /\ line[l].status \in Editing
    BY <1>11, <2>1 DEF UpdateLineRead, LiveLine, Editing
  <2> HIDE DEF new, rows
  <2>5. rows \in [Lines -> Line] /\ \A k \in {l} : Rewrites(k, rows[k])
    BY <1>1, <2>2, <2>3, <2>4, OneRewritten
  <2> DEFINE ls == {l}
  <2> QED
    BY <1>10, <2>4, <2>5
<1>12. ASSUME NEW l \in Lines, MaterialForLineRead(r, l)
       PROVE  AloneInv'
  <2>1. PICK m \in Materials : SaveLater(r, {l}, [Read({l}) EXCEPT ![l].material = m])
    BY <1>12 DEF MaterialForLineRead
  <2> DEFINE new == [line[l] EXCEPT !.material = m]
             rows == [Read({l}) EXCEPT ![l].material = m]
  <2>2. line[l].status = "pending" /\ UNCHANGED imp
    BY <1>12 DEF MaterialForLineRead
  <2>3. new \in Line /\ new.status \in Editing /\ new.imp = line[l].imp /\ new.price = line[l].price
    BY <1>1, <2>2 DEF Line, LiveLine, Editing
  <2>4. rows = [Read({l}) EXCEPT ![l] = new]
    BY <1>1, ReadTyped
  <2>5. SaveLater(r, {l}, rows)
    BY <2>1
  <2> HIDE DEF new, rows
  <2>6. rows \in [Lines -> Line] /\ \A k \in {l} : Rewrites(k, rows[k])
    BY <1>1, <2>2, <2>3, <2>4, OneRewritten DEF Editing
  <2> DEFINE ls == {l}
  <2> QED
    BY <1>10, <2>2, <2>5, <2>6
<1>13. ASSUME NEW i \in Imports, RematchRead(r, i)
       PROVE  AloneInv'
  <2> DEFINE ls == PendingOf(i)
  <2>1. PICK match \in [ls -> Catalogue] :
           SaveLater(r, ls, [l \in Lines |-> IF l \in ls /\ line[l].material = NoMaterial
                                            THEN [line[l] EXCEPT !.material = match[l]]
                                            ELSE Read(ls)[l]])
    BY <1>13 DEF RematchRead
  <2> DEFINE rows == [l \in Lines |-> IF l \in ls /\ line[l].material = NoMaterial
                                     THEN [line[l] EXCEPT !.material = match[l]]
                                     ELSE Read(ls)[l]]
  <2>2. ls \in SUBSET Lines /\ \A l \in ls : line[l].status = "pending"
    BY DEF PendingOf, LinesOf
  <2>3. ASSUME NEW l \in Lines
        PROVE  rows[l] \in Line /\ (l \in ls => Rewrites(l, rows[l]))
    <3>1. CASE l \in ls /\ line[l].material = NoMaterial
      <4> DEFINE m == match[l]
                 new == [line[l] EXCEPT !.material = m]
      <4>1. m \in Materials \cup {NoMaterial}
        BY <3>1 DEF Catalogue
      <4> HIDE DEF m
      <4>2. /\ new \in Line /\ new.status = line[l].status /\ new.imp = line[l].imp
            /\ new.price = line[l].price
        BY <1>1, <4>1 DEF Line
      <4>3. rows[l] = new
        BY <3>1 DEF m
      <4> QED
        BY <2>2, <3>1, <4>2, <4>3 DEF Rewrites, Editing
    <3>2. CASE ~(l \in ls /\ line[l].material = NoMaterial)
      <4>1. rows[l] = Read(ls)[l]
        BY <3>2
      <4> QED
        BY <1>1, <2>2, <4>1, ReadTyped DEF Rewrites, Editing
    <3> QED
      BY <3>1, <3>2
  <2>4. rows \in [Lines -> Line]
    BY <2>3
  <2>5. SaveLater(r, ls, rows) /\ UNCHANGED imp
    BY <1>13, <2>1 DEF RematchRead
  <2> HIDE DEF ls, rows
  <2> QED
    BY <1>10, <2>2, <2>3, <2>4, <2>5
<1> QED
  BY <1>5, <1>6, <1>7, <1>8, <1>9, <1>11, <1>12, <1>13 DEF Start

\* What Goto and Finish leave of the request.
LEMMA GotoReads ==
    ASSUME IInv, NEW r \in Reqs, NEW label, Goto(r, label)
    PROVE  /\ req'[r].pc = label
           /\ req'[r].imp = req[r].imp
           /\ req'[r].todo = req[r].todo
           /\ req'[r].rows = req[r].rows
BY DEF IInv, TypeOK, Goto, Request

LEMMA FinishKnows ==
    ASSUME IInv, NEW r \in Reqs, Finish(r)
    PROVE  Knows(req[r])'
<1>1. PICK a : a = Idle
  OBVIOUS
<1>2. req'[r] = a
  BY <1>1 DEF IInv, TypeOK, Finish
<1>3. Knows(a)'
  BY <1>1, IdleTyped DEF Knows, OfAnImport, Saving, Approving, InReview
<1> QED
  BY <1>2, <1>3

\* approve takes the lines of its import that are under review.
LEMMA ApproveLinesKnows ==
    ASSUME AloneInv, NEW r \in Reqs, ApproveLines(r)
    PROVE  Knows(req[r])'
<1> DEFINE ls == {l \in req[r].todo \cap LinesOf(req[r].imp) :
                    line[l].status # "approved" /\ line[l].material # NoMaterial}
           rows == Read(ls)
<1>1. /\ TypeOK
      /\ req[r] \in Request
      /\ Knows(req[r])
      /\ req[r].pc = "approve_read"
      /\ OwnedIsLive
      /\ UNCHANGED <<imp, line, price>>
  BY DEF AloneInv, IInv, TypeOK, ApproveLines, At
<1>2. req[r].imp \in Imports /\ imp[req[r].imp] \in InReview
  BY <1>1 DEF Knows, OfAnImport
<1>3. ls \in SUBSET Lines /\ \A l \in ls : line[l].status \in Editing
  BY <1>1, <1>2, ConstantsAssumption DEF LinesOf, OwnedIsLive, LiveLine, Editing
<1>4. \A l \in ls : Rewrites(l, rows[l]) /\ line[l].imp = req[r].imp
  BY <1>1, <1>3, ReadTyped DEF Rewrites, LinesOf
<1>5. PICK a : a = [req[r] EXCEPT !.pc = "approve", !.todo = ls, !.rows = rows]
  OBVIOUS
<1>6. req'[r] = a
  BY <1>1, <1>5 DEF TypeOK, ApproveLines
<1> HIDE DEF ls, rows
<1>7. a.pc = "approve" /\ a.imp = req[r].imp /\ a.todo = ls /\ a.rows = rows
  BY <1>1, <1>5 DEF Request
<1>8. Knows(a)
  BY <1>2, <1>4, <1>7 DEF Knows, OfAnImport, Saving, Approving, InReview
<1>9. Knows(a)'
  BY <1>1, <1>7, <1>8 DEF Knows, OfAnImport, Saving, Approving, InReview, Rewrites
<1> QED
  BY <1>6, <1>9

\* The later steps that write neither lines nor prices.
LEMMA ContinueQuietAlone ==
    ASSUME OneAtATime, AloneInv, NEW r \in Reqs, IInv', RemovalIsFree',
           \/ Encolar(r) \/ RetryCount(r) \/ RetryUpdate(r) \/ RetryFind(r)
           \/ ApproveLines(r) \/ ApproveCount(r) \/ ApproveRefresh(r)
    PROVE  AloneInv'
<1>1. /\ IInv
      /\ req[r] \in Request
      /\ Knows(req[r])
      /\ UNCHANGED <<line, price, worker>>
      /\ UNCHANGED job => QueueGrows
      /\ UNCHANGED imp => StatusesGoOn
  BY NothingNew DEF AloneInv, IInv, TypeOK, Encolar, RetryCount, RetryUpdate, RetryFind, ApproveLines, ApproveCount,
     ApproveRefresh
<1>2. ASSUME Knows(req[r])', req[r].pc \notin Approving, StatusesGoOn, QueueGrows
      PROVE  AloneInv'
  BY <1>1, <1>2, AloneQuiet
<1>3. CASE Encolar(r)
  <2>1. req[r].pc = "enqueue" /\ req[r].imp \in Imports
    BY <1>1, <1>3 DEF Encolar, At, Knows, OfAnImport
  <2>2. QueueGrows
    <3>1. CASE UNCHANGED job
      BY <1>1, <3>1
    <3>2. CASE \E j \in Jobs : /\ job[j] = FreeJob
                               /\ job' = [job EXCEPT ![j] = [imp |-> req[r].imp, attempts |-> Attempts]]
      BY <1>1, <2>1, <3>2 DEF QueueGrows, IInv, TypeOK
    <3> QED
      BY <1>3, <3>1, <3>2 DEF Encolar
  <2>3. Knows(req[r])'
    BY <1>1, <1>3, FinishKnows DEF Encolar
  <2> QED
    BY <1>1, <1>2, <1>3, <2>1, <2>2, <2>3 DEF Encolar, Approving
<1>4. CASE RetryCount(r)
  <2>1. /\ req[r].pc = "retry_count"
        /\ req[r].imp \in Imports
        /\ imp[req[r].imp] \in {"failed", "review"}
        /\ req[r].flag => imp[req[r].imp] = "failed"
        /\ UNCHANGED <<imp, job>>
    BY <1>1, <1>4 DEF RetryCount, At, Knows, OfAnImport
  <2>2. Knows(req[r])'
    <3>1. CASE Finish(r)
      BY <1>1, <3>1, FinishKnows
    <3>2. CASE (req[r].flag \/ LinesOf(req[r].imp) = {}) /\ Goto(r, "retry_update")
      <4>1. Unapproved(req[r].imp)
        BY <2>1, <3>2 DEF AloneInv, WaitingIsUnapproved, Unapproved, Waiting
      <4>2. PICK a : a = req'[r]
        OBVIOUS
      <4>3. a.pc = "retry_update" /\ a.imp = req[r].imp
        BY <1>1, <3>2, <4>2, GotoReads
      <4>4. Knows(a)'
        BY <1>1, <2>1, <4>1, <4>3 DEF Knows, OfAnImport, Saving, Approving, Unapproved, LinesOf
      <4> QED
        BY <4>2, <4>4
    <3> QED
      BY <1>4, <3>1, <3>2 DEF RetryCount
  <2> QED
    BY <1>1, <1>2, <2>1, <2>2 DEF Approving
<1>5. CASE RetryUpdate(r)
  <2>1. /\ req[r].pc = "retry_update"
        /\ req[r].imp \in Imports
        /\ imp[req[r].imp] \in {"failed", "review"}
        /\ Unapproved(req[r].imp)
        /\ UNCHANGED job
    BY <1>1, <1>5 DEF RetryUpdate, At, Knows, OfAnImport
  <2>2. StatusesGoOn
    <3>1. UpdateStatus(req[r].imp, "pending") /\ "pending" \in ImportStatus
      BY <1>5 DEF RetryUpdate, ImportStatus
    <3> QED
      BY <2>1, <3>1, StatusGoesOn
  <2>3. PICK a : a = req'[r]
    OBVIOUS
  <2>4. a.pc = "retry_find" /\ a.imp = req[r].imp
    BY <1>1, <1>5, <2>3, GotoReads DEF RetryUpdate
  <2>5. Knows(a)'
    BY <2>1, <2>4 DEF Knows, OfAnImport, Saving, Approving, InReview
  <2> QED
    BY <1>1, <1>2, <2>1, <2>2, <2>3, <2>5 DEF Approving
<1>6. CASE RetryFind(r)
  <2>1. req[r].pc = "retry_find" /\ req[r].imp \in Imports /\ UNCHANGED <<imp, job>>
    BY <1>1, <1>6 DEF RetryFind, At, Knows, OfAnImport
  <2>2. Knows(req[r])'
    <3>1. CASE Finish(r)
      BY <1>1, <3>1, FinishKnows
    <3>2. CASE Goto(r, "enqueue")
      <4>1. PICK a : a = req'[r]
        OBVIOUS
      <4>2. a.pc = "enqueue" /\ a.imp = req[r].imp
        BY <1>1, <3>2, <4>1, GotoReads
      <4>3. Knows(a)'
        BY <2>1, <4>2 DEF Knows, OfAnImport, Saving, Approving, InReview
      <4> QED
        BY <4>1, <4>3
    <3> QED
      BY <1>6, <3>1, <3>2 DEF RetryFind
  <2> QED
    BY <1>1, <1>2, <2>1, <2>2 DEF Approving
<1>7. CASE ApproveLines(r)
  <2>1. req[r].pc = "approve_read" /\ UNCHANGED <<imp, job>>
    BY <1>7 DEF ApproveLines, At
  <2> QED
    BY <1>1, <1>2, <1>7, <2>1, ApproveLinesKnows DEF Approving
<1>8. CASE ApproveCount(r)
  <2>1. /\ req[r].pc = "approve"
        /\ req[r].imp \in Imports
        /\ imp[req[r].imp] \in {"review", "done"}
        /\ UNCHANGED <<imp, job>>
    BY <1>1, <1>8 DEF ApproveCount, At, Knows, OfAnImport, InReview
  <2> DEFINE i == req[r].imp
             flag == PendingOf(i) = {}
  <2>2. PICK a : a = [Idle EXCEPT !.pc = "refresh", !.imp = i, !.flag = flag]
    OBVIOUS
  <2>3. req'[r] = a
    BY <1>1, <1>8, <2>2 DEF ApproveCount, IInv, TypeOK
  <2>4. a.pc = "refresh" /\ a.imp = req[r].imp
    <3> HIDE DEF flag
    <3> QED
      BY <2>2 DEF Idle
  <2>5. Knows(a)'
    BY <2>1, <2>4 DEF Knows, OfAnImport, Saving, Approving, InReview
  <2> QED
    BY <1>1, <1>2, <2>1, <2>3, <2>5 DEF Approving
<1>9. CASE ApproveRefresh(r)
  <2> DEFINE status == IF req[r].flag THEN "done" ELSE "review"
  <2>1. /\ req[r].pc = "refresh"
        /\ req[r].imp \in Imports
        /\ imp[req[r].imp] \in {"review", "done"}
        /\ UNCHANGED job
    BY <1>1, <1>9 DEF ApproveRefresh, At, Knows, OfAnImport, InReview
  <2>2. UpdateStatus(req[r].imp, status)
    BY <1>9 DEF ApproveRefresh
  <2>3. status \in ImportStatus /\ status \notin Waiting
    BY DEF ImportStatus, Waiting
  <2> HIDE DEF status
  <2>4. StatusesGoOn
    BY <2>1, <2>2, <2>3, StatusGoesOn
  <2>5. Knows(req[r])'
    BY <1>1, <1>9, FinishKnows DEF ApproveRefresh
  <2> QED
    BY <1>1, <1>2, <2>1, <2>4, <2>5 DEF Approving
<1> QED
  BY <1>3, <1>4, <1>5, <1>6, <1>7, <1>8, <1>9

\* Rows of lines under review are saved: what was said of the other lines, and
\* of every price, stays.
LinesReviewed ==
    \A l \in Lines : \/ line'[l] = line[l]
                     \/ /\ line[l].status \in Editing /\ line'[l].status \in Editing
                        /\ line'[l].imp = line[l].imp /\ line'[l].price = line[l].price

LEMMA ReviewedLines ==
    ASSUME OneAtATime, AloneInv, NEW r \in Reqs, req[r].pc \notin Approving, UNCHANGED price,
           LinesReviewed
    PROVE  LinesGoOn /\ Settled' /\ OwnedIsLive' /\ ApprovedMaterial' /\ PricesKept'
<1>1. LinesGoOn /\ Settled'
  BY DEF LinesGoOn, AloneInv, Settled, LinesReviewed, Editing
<1>2. OwnedIsLive'
  BY DEF AloneInv, OwnedIsLive, LinesReviewed, Editing, LiveLine
<1>3. ApprovedMaterial'
  BY DEF AloneInv, ApprovedMaterial, LinesReviewed, Editing
<1>4. OnePricePerLine => OnePricePerLine'
  BY DEF OnePricePerLine
<1>5. Accounted => Accounted'
  <2> SUFFICES ASSUME Accounted, NEW p \in Prices, price[p].status = "live"
               PROVE  /\ price[p].line \in Lines
                      /\ line'[price[p].line].price = p \/ line'[price[p].line].status = "deleted"
    BY DEF Accounted
  <2>1. /\ price[p].line \in Lines
        /\ line[price[p].line].price = p \/ line[price[p].line].status = "deleted"
    BY DEF Accounted, OneAtATime
  <2> QED
    BY <2>1 DEF LinesReviewed, Editing
<1> QED
  BY <1>1, <1>2, <1>3, <1>4, <1>5 DEF AloneInv, PricesKept

\* save reads the rows again: nobody has written them.
LEMMA SaveReadAlone ==
    ASSUME OneAtATime, AloneInv, NEW r \in Reqs, SaveLinesRead(r) \/ ApproveSaveRead(r),
           IInv', RemovalIsFree'
    PROVE  AloneInv'
<1>1. /\ IInv /\ TypeOK
      /\ req[r] \in Request /\ Remembered(req[r])
      /\ Knows(req[r])
      /\ UNCHANGED <<imp, line, price, mat, job, worker>>
      /\ StatusesGoOn /\ QueueGrows
  BY NothingNew DEF AloneInv, IInv, TypeOK, SaveLinesRead, ApproveSaveRead
<1>3. CASE SaveLinesRead(r)
  <2>1. /\ req[r].pc = "save_lines"
        /\ req[r].todo \in SUBSET Lines
        /\ \A l \in req[r].todo : Rewrites(l, req[r].rows[l])
    BY <1>1, <1>3 DEF SaveLinesRead, At, Knows, Saving, Request
  <2>2. CASE Finish(r)
    <3>1. Knows(req[r])'
      BY <1>1, <2>2, FinishKnows
    <3> QED
      BY <1>1, <2>1, <3>1, AloneQuiet DEF Approving
  <2>3. CASE req' = [req EXCEPT ![r] = [req[r] EXCEPT !.pc = "save_update", !.seen = Read(req[r].todo)]]
    <3> DEFINE seen == Read(req[r].todo)
    <3>1. PICK a : a = [req[r] EXCEPT !.pc = "save_update", !.seen = seen]
      OBVIOUS
    <3>2. req'[r] = a
      BY <1>1, <2>3, <3>1 DEF TypeOK
    <3>3. /\ a.pc = "save_update" /\ a.todo = req[r].todo /\ a.rows = req[r].rows
          /\ a.seen = seen /\ a.imp = req[r].imp
      <4> HIDE DEF seen
      <4> QED
        BY <1>1, <3>1 DEF Request
    <3>4. \A l \in a.todo : a.seen[l] = line[l]
      BY <1>1, <2>1, <3>3, ReadTyped
    <3>5. Knows(a)'
      BY <1>1, <2>1, <3>3, <3>4 DEF Knows, OfAnImport, Saving, Approving, Rewrites
    <3>6. Knows(req[r])'
      BY <3>2, <3>5
    <3> QED
      BY <1>1, <2>1, <3>6, AloneQuiet DEF Approving
  <2> QED
    BY <1>3, <2>2, <2>3 DEF SaveLinesRead
<1>4. CASE ApproveSaveRead(r)
  <2>1. /\ req[r].pc = "approve_save"
        /\ req[r].line \in Lines
        /\ Rewrites(req[r].line, req[r].rows[req[r].line])
    BY <1>1, <1>4 DEF ApproveSaveRead, At, Knows, Approving, Remembered, RememberedIn
  <2> DEFINE ls == {req[r].line}
  <2>2. ls \in SUBSET Lines /\ AllLive(ls)
    BY <2>1 DEF AllLive, Rewrites, Editing, LiveLine
  <2>3. req' = [req EXCEPT ![r] = [req[r] EXCEPT !.pc = "approve_update", !.seen = Read(ls)]]
    BY <1>4, <2>2 DEF ApproveSaveRead
  <2> HIDE DEF ls
  <2> DEFINE seen == Read(ls)
  <2>4. PICK a : a = [req[r] EXCEPT !.pc = "approve_update", !.seen = seen]
    OBVIOUS
  <2>5. req'[r] = a
    BY <1>1, <2>3, <2>4 DEF TypeOK
  <2>6. /\ a.pc = "approve_update" /\ a.imp = req[r].imp /\ a.todo = req[r].todo
        /\ a.rows = req[r].rows /\ a.seen = seen /\ a.line = req[r].line
        /\ a.price = req[r].price
    <3> HIDE DEF seen
    <3> QED
      BY <1>1, <2>4 DEF Request
  <2>7. a.seen[a.line] = line[a.line]
    BY <1>1, <2>2, <2>6, ReadTyped DEF ls
  <2>8. Knows(a)
    BY <1>1, <2>1, <2>6, <2>7 DEF Knows, OfAnImport, Saving, Approving
  <2>9. Knows(a)'
    BY <1>1, <2>6, <2>8 DEF Knows, OfAnImport, Saving, Approving, Rewrites
  <2>10. Knows(req[r])'
    BY <2>5, <2>9
  <2> QED
    BY <1>1, <2>5, <2>6, <2>10, AloneQuiet DEF Approving
<1> QED
  BY <1>3, <1>4

\* What is saved over a line alone is the row given.
LEMMA PatchedAlone ==
    ASSUME NEW l \in Lines, line[l] \in Line, NEW row \in Line, row.imp = line[l].imp,
           NEW seen, seen = line[l]
    PROVE  Patched(l, row, seen) = row
BY DEF Patched, Line

LEMMA SaveLinesReviews ==
    ASSUME AloneInv, NEW r \in Reqs, SaveLines(r)
    PROVE  LinesReviewed
<1>1. /\ req[r].pc = "save_update"
      /\ req[r] \in Request /\ line \in [Lines -> Line]
      /\ PatchRows(req[r].todo, req[r].rows, req[r].seen)
      /\ \A l \in req[r].todo : Rewrites(l, req[r].rows[l]) /\ req[r].seen[l] = line[l]
  BY DEF SaveLines, At, AloneInv, IInv, TypeOK, Knows, Saving
<1>2. ASSUME NEW l \in Lines, l \in req[r].todo
      PROVE  Patched(l, req[r].rows[l], req[r].seen[l]) = req[r].rows[l]
  <2>1. req[r].rows[l] \in Line /\ line[l] \in Line /\ req[r].rows[l].imp = line[l].imp
    BY <1>1, <1>2 DEF Request, Rewrites
  <2> QED
    BY <1>1, <1>2, <2>1, PatchedAlone
<1>3. \A l \in Lines : line'[l] = line[l] \/ (l \in req[r].todo /\ line'[l] = req[r].rows[l])
  BY <1>1, <1>2 DEF PatchRows
<1> QED
  BY <1>1, <1>3 DEF LinesReviewed, Rewrites

LEMMA SaveLinesAlone ==
    ASSUME OneAtATime, AloneInv, NEW r \in Reqs, SaveLines(r), IInv', RemovalIsFree'
    PROVE  AloneInv'
<1>1. /\ IInv
      /\ req[r].pc = "save_update"
      /\ Finish(r)
      /\ PatchRows(req[r].todo, req[r].rows, req[r].seen)
      /\ UNCHANGED <<imp, price, mat, job, worker>>
      /\ \A l \in req[r].todo : Rewrites(l, req[r].rows[l]) /\ req[r].seen[l] = line[l]
  BY DEF SaveLines, At, AloneInv, Knows, Saving
<1>2. LinesReviewed
  BY <1>1, SaveLinesReviews
<1>3. LinesGoOn /\ Settled' /\ OwnedIsLive' /\ ApprovedMaterial' /\ PricesKept'
  BY <1>1, <1>2, ReviewedLines DEF Approving
<1>4. StatusesGoOn /\ QueueGrows
  BY <1>1, NothingNew
<1>5. Knows(req[r])'
  BY <1>1, FinishKnows
<1> QED
  BY <1>1, <1>3, <1>4, <1>5, AloneMoves

LEMMA RemoveDeleteAlone ==
    ASSUME OneAtATime, AloneInv, NEW r \in Reqs, RemoveDelete(r), IInv', RemovalIsFree'
    PROVE  AloneInv'
<1>1. /\ IInv
      /\ req[r].pc = "delete"
      /\ req[r].imp \in Imports
      /\ Finish(r)
      /\ UpdateStatus(req[r].imp, "deleted")
      /\ UNCHANGED <<price, mat, job, worker>>
  BY DEF RemoveDelete, At, AloneInv, Knows, OfAnImport
<1>2. \A l \in Lines : \/ line'[l] = line[l]
                       \/ /\ line'[l].status = "deleted" /\ line'[l].imp = NoImport
                          /\ line'[l].price = NoPrice
  BY DEF RemoveDelete, NoRow
<1>3. LinesGoOn /\ Settled' /\ OwnedIsLive' /\ ApprovedMaterial'
  BY <1>1, <1>2 DEF LinesGoOn, AloneInv, Settled, OwnedIsLive, ApprovedMaterial
<1>4. PricesKept'
  <2>1. OnePricePerLine => OnePricePerLine'
    BY <1>1 DEF OnePricePerLine
  <2>2. Accounted => Accounted'
    BY <1>1, <1>2 DEF Accounted, OneAtATime, Approving
  <2> QED
    BY <2>1, <2>2 DEF AloneInv, PricesKept
<1>5. StatusesGoOn /\ QueueGrows
  <2>1. "deleted" \in ImportStatus /\ "deleted" \notin Waiting
    BY DEF ImportStatus, Waiting
  <2> QED
    BY <1>1, <2>1, StatusGoesOn, NothingNew
<1>6. Knows(req[r])'
  BY <1>1, FinishKnows
<1> QED
  BY <1>1, <1>3, <1>4, <1>5, <1>6, AloneMoves

\* A material without prices goes: no line approved with it is left.
LEMMA RemoveMaterialAlone ==
    ASSUME AloneInv, NEW r \in Reqs, RemoveMaterialDelete(r)
    PROVE  /\ UNCHANGED price
           /\ \A l \in Lines : /\ line'[l].imp = line[l].imp
                               /\ line'[l].status = line[l].status
                               /\ line'[l].price = line[l].price
                               /\ line[l].status = "approved" => line'[l] = line[l]
<1> DEFINE m == req[r].material
<1>1. /\ PricesOf(m) = {}
      /\ line \in [Lines -> Line] /\ price \in [Prices -> Price]
  BY DEF RemoveMaterialDelete, At, AloneInv, RemovalIsFree, IInv, TypeOK
<1>2. UNCHANGED price
  BY <1>1 DEF RemoveMaterialDelete
<1>3. ASSUME NEW l \in Lines
      PROVE  /\ line'[l].imp = line[l].imp
             /\ line'[l].status = line[l].status
             /\ line'[l].price = line[l].price
             /\ line[l].material # m => line'[l] = line[l]
  <2>1. line'[l] = [imp |-> line[l].imp, status |-> line[l].status, price |-> line[l].price,
                    material |-> IF line[l].material = m THEN NoMaterial ELSE line[l].material]
    BY <1>1 DEF RemoveMaterialDelete
  <2> QED
    BY <1>1, <2>1 DEF Line
<1>4. ASSUME NEW l \in Lines, line[l].status = "approved"
      PROVE  line[l].material # m
  <2> DEFINE p == line[l].price
  <2>1. p \in Prices /\ price[p].status = "live" /\ price[p].material = line[l].material
    BY <1>1, <1>4 DEF AloneInv, Settled, IInv, PriceIsOfLine, ApprovedMaterial, Line
  <2> QED
    BY <1>1, <2>1 DEF PricesOf
<1> QED
  BY <1>2, <1>3, <1>4

LEMMA RemoveMaterialDeleteAlone ==
    ASSUME OneAtATime, AloneInv, NEW r \in Reqs, RemoveMaterialDelete(r), IInv',
           RemovalIsFree'
    PROVE  AloneInv'
<1>1. /\ IInv
      /\ req[r].pc = "delete_material"
      /\ Finish(r)
      /\ UNCHANGED <<imp, price, job, worker>>
  BY RemoveMaterialAlone DEF RemoveMaterialDelete, At, AloneInv
<1>2. \A l \in Lines : /\ line'[l].imp = line[l].imp
                       /\ line'[l].status = line[l].status
                       /\ line'[l].price = line[l].price
                       /\ line[l].status = "approved" => line'[l] = line[l]
  BY RemoveMaterialAlone
<1>3. LinesGoOn /\ Settled' /\ OwnedIsLive' /\ ApprovedMaterial'
  BY <1>1, <1>2 DEF LinesGoOn, AloneInv, Settled, OwnedIsLive, ApprovedMaterial
<1>4. PricesKept'
  <2>1. OnePricePerLine => OnePricePerLine'
    BY <1>1 DEF OnePricePerLine
  <2>2. Accounted => Accounted'
    BY <1>1, <1>2 DEF Accounted, OneAtATime, Approving
  <2> QED
    BY <2>1, <2>2 DEF AloneInv, PricesKept
<1>5. StatusesGoOn /\ QueueGrows
  BY <1>1, NothingNew
<1>6. Knows(req[r])'
  BY <1>1, FinishKnows
<1> QED
  BY <1>1, <1>3, <1>4, <1>5, <1>6, AloneMoves

\* approve creates a price: the line it is for has none yet.
LEMMA ApprovePriceAlone ==
    ASSUME OneAtATime, AloneInv, NEW r \in Reqs, ApprovePrice(r), IInv', RemovalIsFree'
    PROVE  AloneInv'
<1>1. /\ IInv
      /\ req[r] \in Request
      /\ req[r].pc = "approve"
      /\ req[r].imp \in Imports
      /\ imp[req[r].imp] \in InReview
      /\ \A l \in req[r].todo : l \in Lines /\ Rewrites(l, req[r].rows[l]) /\ line[l].imp = req[r].imp
      /\ req \in [Reqs -> Request]
      /\ price \in [Prices -> Price]
      /\ UNCHANGED <<imp, line, mat, job, worker>>
  BY DEF ApprovePrice, At, AloneInv, IInv, TypeOK, Knows, OfAnImport, Saving, Approving, Request
<1>2. StatusesGoOn /\ QueueGrows
  BY <1>1, NothingNew
<1>3. PICK l \in req[r].todo :
        \/ \E p \in Prices :
              /\ price[p] = FreePrice
              /\ mat[req[r].rows[l].material] = "live"
              /\ price' = [price EXCEPT ![p] = [status |-> "live", line |-> l,
                                               material |-> req[r].rows[l].material]]
              /\ req' = [req EXCEPT ![r] = [req[r] EXCEPT !.pc = "approve_save",
                                            !.todo = req[r].todo \ {l}, !.line = l, !.price = p]]
        \/ /\ req' = [req EXCEPT ![r].todo = req[r].todo \ {l}]
           /\ UNCHANGED price
  BY DEF ApprovePrice
<1> DEFINE left == req[r].todo \ {l}
<1>4. /\ l \in Lines /\ Rewrites(l, req[r].rows[l]) /\ line[l].imp = req[r].imp
      /\ l \notin left /\ left \subseteq req[r].todo
  BY <1>1
<1> HIDE DEF left
<1>5. CASE req' = [req EXCEPT ![r].todo = left] /\ UNCHANGED price
  <2>1. PICK a : a = req'[r]
    OBVIOUS
  <2>2. a.pc = "approve" /\ a.imp = req[r].imp /\ a.todo = left /\ a.rows = req[r].rows
    BY <1>1, <1>5, <2>1 DEF Request
  <2>3. Knows(a)
    BY <1>1, <1>4, <2>2 DEF Knows, OfAnImport, Saving, Approving, InReview
  <2>4. Knows(a)'
    BY <1>1, <1>5, <2>2, <2>3 DEF Knows, OfAnImport, Saving, Approving, Rewrites
  <2>5. Knows(req[r])'
    BY <2>1, <2>4
  <2> QED
    BY <1>1, <1>2, <1>5, <2>5, AloneQuiet DEF Approving
<1>6. ASSUME NEW p \in Prices,
             price[p] = FreePrice,
             mat[req[r].rows[l].material] = "live",
             price' = [price EXCEPT ![p] = [status |-> "live", line |-> l,
                                            material |-> req[r].rows[l].material]],
             req' = [req EXCEPT ![r] = [req[r] EXCEPT !.pc = "approve_save",
                                        !.todo = left, !.line = l, !.price = p]]
      PROVE  AloneInv'
  <2>1. /\ price'[p].status = "live" /\ price'[p].line = l
        /\ price'[p].material = req[r].rows[l].material
        /\ \A k \in Prices \ {p} : price'[k] = price[k]
    BY <1>1, <1>6
  <2>2. PICK a : a = [req[r] EXCEPT !.pc = "approve_save", !.todo = left, !.line = l, !.price = p]
    OBVIOUS
  <2>3. req'[r] = a
    BY <1>1, <1>6, <2>2
  <2>4. /\ a.pc = "approve_save" /\ a.imp = req[r].imp /\ a.todo = left /\ a.rows = req[r].rows
        /\ a.line = l /\ a.price = p
    BY <1>1, <2>2 DEF Request
  <2>5. Knows(a)'
    BY <1>1, <1>4, <1>6, <2>1, <2>4 DEF Knows, OfAnImport, Saving, Approving, Rewrites
  <2>6. Knows(req[r])'
    BY <2>3, <2>5
  <2>7. price[p].status = "none" /\ p # NoPrice
    BY <1>6, ConstantsAssumption DEF FreePrice
  <2>8. LinesGoOn /\ Settled' /\ OwnedIsLive'
    BY <1>1 DEF LinesGoOn, AloneInv, Settled, OwnedIsLive
  <2>9. ApprovedMaterial'
    <3>1. ASSUME NEW k \in Lines, line[k].status = "approved"
          PROVE  line[k].price \in Prices \ {p}
      BY <1>1, <2>7, <3>1 DEF AloneInv, Settled, IInv, TypeOK, Line, PriceIsOfLine
    <3> QED
      BY <1>1, <2>1, <3>1 DEF AloneInv, ApprovedMaterial
  <2>10. PricesKept'
    <3> SUFFICES ASSUME OnePricePerLine, Accounted
                 PROVE  OnePricePerLine' /\ Accounted'
      BY DEF AloneInv, PricesKept
    <3>1. ASSUME NEW k \in Prices, price[k].status = "live"
          PROVE  /\ price[k].line \in Lines
                 /\ line[price[k].line].price = k \/ line[price[k].line].status = "deleted"
      BY <1>1, <3>1 DEF Accounted, OneAtATime, Approving
    <3>2. ASSUME NEW k \in Prices, price[k].status = "live"
          PROVE  price[k].line # l
      <4>1. line[l].status \in Editing
        BY <1>4 DEF Rewrites
      <4>2. k # NoPrice
        BY ConstantsAssumption
      <4> QED
        BY <1>1, <1>4, <3>1, <3>2, <4>1, <4>2 DEF Editing, AloneInv, Settled
    <3>3. OnePricePerLine'
      BY <2>1, <3>2 DEF OnePricePerLine
    <3>4. Accounted'
      BY <1>1, <1>4, <2>1, <2>3, <2>4, <3>1 DEF Accounted, Approving
    <3> QED
      BY <3>3, <3>4
  <2> QED
    BY <1>1, <1>2, <2>6, <2>8, <2>9, <2>10, AloneMoves
<1> QED
  BY <1>3, <1>5, <1>6 DEF left

\* approve saves its line: alone, nothing it names has gone, so it is saved.
LEMMA ApproveSaveWrites ==
    ASSUME AloneInv, NEW r \in Reqs, ApproveSave(r)
    PROVE  /\ req[r].line \in Lines /\ req[r].price \in Prices
           /\ line[req[r].line].status \in Editing
           /\ line'[req[r].line].imp = line[req[r].line].imp
           /\ line'[req[r].line].status = "approved"
           /\ line'[req[r].line].price = req[r].price
           /\ line'[req[r].line].material = price[req[r].price].material
           /\ \A k \in Lines \ {req[r].line} : line'[k] = line[k]
<1> DEFINE l == req[r].line
           row == ApprovedRow(req[r])
           rows == [req[r].rows EXCEPT ![l] = row]
<1>1. /\ req[r] \in Request
      /\ line \in [Lines -> Line]
      /\ req[r].pc = "approve_update"
      /\ PatchRows({l}, rows, req[r].seen)
      /\ Remembered(req[r])
      /\ Knows(req[r])
  BY DEF ApproveSave, At, AloneInv, IInv, TypeOK
<1>2. /\ l \in Lines /\ req[r].price \in Prices
      /\ req[r].rows[l] \in Line
      /\ Rewrites(l, req[r].rows[l])
      /\ price[req[r].price].status = "live"
      /\ price[req[r].price].material = req[r].rows[l].material
      /\ req[r].rows[l].material # NoMaterial => mat[req[r].rows[l].material] = "live"
      /\ req[r].seen[l] = line[l]
  BY <1>1 DEF Remembered, RememberedIn, Knows, Approving, Request
<1>3. /\ row \in Line
      /\ row.imp = line[l].imp /\ row.status = "approved" /\ row.price = req[r].price
      /\ row.material = req[r].rows[l].material
  <2> DEFINE old == req[r].rows[l]
             p == req[r].price
  <2>1. old \in Line /\ p \in Prices /\ row = [old EXCEPT !.status = "approved", !.price = p]
    BY <1>2 DEF ApprovedRow
  <2>2. old.imp = line[l].imp
    BY <1>2 DEF Rewrites
  <2> HIDE DEF old, p, row
  <2>3. row \in Line /\ row.imp = old.imp /\ row.status = "approved" /\ row.price = p
        /\ row.material = old.material
    BY <2>1 DEF Line, LiveLine
  <2> QED
    BY <2>2, <2>3 DEF old, p
<1>4. rows[l] = row
  BY <1>1, <1>2 DEF Request
<1>5. Accepted(row, req[r].seen[l])
  BY <1>2, <1>3 DEF Accepted
<1>6. line[l].status \in LiveLine
  BY <1>2 DEF Rewrites, Editing, LiveLine
<1>7. Patched(l, row, req[r].seen[l]) = row
  <2>1. line[l] \in Line
    BY <1>1, <1>2
  <2> HIDE DEF row
  <2> QED
    BY <1>2, <1>3, <2>1, PatchedAlone
<1> HIDE DEF row, rows
<1>8. line' = [k \in Lines |-> IF k \in {l} /\ line[k].status \in LiveLine
                               THEN Patched(k, rows[k], req[r].seen[k]) ELSE line[k]]
  BY <1>1, <1>4, <1>5 DEF PatchRows
<1>9. line'[l] = row /\ \A k \in Lines \ {l} : line'[k] = line[k]
  BY <1>2, <1>4, <1>6, <1>7, <1>8
<1> QED
  BY <1>2, <1>3, <1>9 DEF Rewrites

LEMMA ApproveSaveAlone ==
    ASSUME OneAtATime, AloneInv, NEW r \in Reqs, ApproveSave(r), IInv', RemovalIsFree'
    PROVE  AloneInv'
<1>1. /\ IInv
      /\ req[r] \in Request
      /\ req[r].pc = "approve_update"
      /\ req[r].imp \in Imports
      /\ imp[req[r].imp] \in InReview
      /\ req[r].line \notin req[r].todo
      /\ line[req[r].line].imp = req[r].imp
      /\ \A k \in req[r].todo : k \in Lines /\ Rewrites(k, req[r].rows[k]) /\ line[k].imp = req[r].imp
      /\ UNCHANGED <<imp, price, mat, job, worker>>
      /\ Goto(r, "approve")
  BY DEF ApproveSave, At, AloneInv, IInv, TypeOK, Knows, OfAnImport, Saving, Approving, Request
<1> DEFINE l == req[r].line
<1>2. /\ l \in Lines /\ req[r].price \in Prices
      /\ line[l].status \in Editing
      /\ line'[l].imp = line[l].imp
      /\ line'[l].status = "approved"
      /\ line'[l].price = req[r].price
      /\ line'[l].material = price[req[r].price].material
      /\ \A k \in Lines \ {l} : line'[k] = line[k]
  BY ApproveSaveWrites
<1>3. StatusesGoOn /\ QueueGrows
  BY <1>1, NothingNew
<1>4. LinesGoOn /\ Settled' /\ OwnedIsLive' /\ ApprovedMaterial'
  <2>1. req[r].price # NoPrice
    BY <1>2, ConstantsAssumption
  <2>2. LinesGoOn
    BY <1>1, <1>2 DEF LinesGoOn, InReview, Waiting
  <2> QED
    BY <1>1, <1>2, <2>1, <2>2 DEF AloneInv, Settled, OwnedIsLive, ApprovedMaterial, LiveLine
<1>5. PricesKept'
  <2> SUFFICES ASSUME OnePricePerLine, Accounted
               PROVE  OnePricePerLine' /\ Accounted'
    BY DEF AloneInv, PricesKept
  <2>1. OnePricePerLine'
    BY <1>1 DEF OnePricePerLine
  <2>2. ASSUME NEW p \in Prices, price[p].status = "live", p # req[r].price
        PROVE  /\ price[p].line \in Lines
               /\ line'[price[p].line].price = p \/ line'[price[p].line].status = "deleted"
    <3>1. /\ price[p].line \in Lines
          /\ line[price[p].line].price = p \/ line[price[p].line].status = "deleted"
      BY <2>2 DEF Accounted, OneAtATime
    <3>2. p # NoPrice
      BY ConstantsAssumption
    <3>3. price[p].line # l
      BY <1>1, <1>2, <3>1, <3>2 DEF Editing, AloneInv, Settled
    <3> QED
      BY <1>2, <3>1, <3>3
  <2>3. price[req[r].price].line = l
    BY <1>1 DEF AloneInv, IInv, Remembered, RememberedIn, Knows, Approving
  <2>4. Accounted'
    BY <1>1, <1>2, <2>2, <2>3 DEF Accounted
  <2> QED
    BY <2>1, <2>4
<1>6. Knows(req[r])'
  <2>1. PICK a : a = req'[r]
    OBVIOUS
  <2>2. a.pc = "approve" /\ a.imp = req[r].imp /\ a.todo = req[r].todo /\ a.rows = req[r].rows
    BY <1>1, <2>1, GotoReads
  <2>3. Knows(a)'
    BY <1>1, <1>2, <2>2 DEF Knows, OfAnImport, Saving, Approving, Rewrites
  <2> QED
    BY <2>1, <2>3
<1> QED
  BY <1>1, <1>3, <1>4, <1>5, <1>6, AloneMoves

LEMMA ContinueAlone ==
    ASSUME OneAtATime, AloneInv, NEW r \in Reqs, Continue(r)
    PROVE  AloneInv'
<1>1. IInv' /\ RemovalIsFree'
  BY ContinueIInv, ContinueRemoval DEF AloneInv
<1> QED
  BY <1>1, ContinueQuietAlone, SaveReadAlone, SaveLinesAlone, ApprovePriceAlone, ApproveSaveAlone, RemoveDeleteAlone,
     RemoveMaterialDeleteAlone DEF Continue

\* The worker leaves alone the lines there are, and every import read already.
WorkerKeeps ==
    /\ \A l \in Lines : \/ line'[l] = line[l]
                        \/ /\ line[l].status = "none" /\ line'[l].status = "pending"
                           /\ line'[l].price = NoPrice
    /\ \A i \in Imports : imp[i] \in InReview \cup {"failed"} => imp'[i] = imp[i]

LEMMA WorkerAloneMoves ==
    ASSUME AloneInv, IInv', RemovalIsFree',
           UNCHANGED <<price, mat, req>>, WorkerKeeps, WorkerKnows', QueueKnows', WaitingIsUnapproved'
    PROVE  AloneInv'
<1>1. ASSUME NEW r \in Reqs
      PROVE  Knows(req[r])'
  <2>1. PICK a : a = req[r]
    OBVIOUS
  <2>2. Knows(a) /\ req'[r] = a
    BY <2>1 DEF AloneInv
  <2>3. \A l \in Lines : \A row : Rewrites(l, row) => Rewrites(l, row)' /\ line'[l] = line[l]
    BY DEF Rewrites, WorkerKeeps, Editing
  <2>4. /\ a.todo \in SUBSET Lines
        /\ a.pc \in Approving => a.line \in Lines
    BY <2>1 DEF AloneInv, IInv, TypeOK, Request, Remembered, RememberedIn, Approving
  <2>5. \A i \in Imports : Unapproved(i) => Unapproved(i)'
    <3> SUFFICES ASSUME NEW i \in Imports, Unapproved(i), NEW l \in Lines, line'[l].imp = i
                 PROVE  line'[l].status # "approved"
      BY DEF Unapproved, LinesOf
    <3> QED
      BY DEF WorkerKeeps, Unapproved, LinesOf
  <2>6. /\ a.pc \in OfAnImport => a.imp \in Imports
        /\ a.pc = "retry_count" =>
              imp'[a.imp] \in {"failed", "review"} /\ (a.flag => imp'[a.imp] = "failed")
        /\ a.pc = "retry_update" => imp'[a.imp] \in {"failed", "review"} /\ Unapproved(a.imp)'
        /\ a.pc \in {"approve_read", "approve", "approve_save", "approve_update", "refresh"} =>
              imp'[a.imp] \in InReview
    BY <2>2, <2>5 DEF Knows, WorkerKeeps, OfAnImport, InReview
  <2>7. /\ a.pc \in Saving \cup Approving \cup {"approve"} => \A l \in a.todo : Rewrites(l, a.rows[l])'
        /\ a.pc = "save_update" => \A l \in a.todo : a.seen[l] = line'[l]
        /\ a.pc \in Approving \cup {"approve"} => \A l \in a.todo : line'[l].imp = a.imp
    BY <2>2, <2>3, <2>4 DEF Knows, Saving
  <2>8. /\ a.pc \in Approving =>
              /\ a.line \notin a.todo
              /\ line'[a.line].imp = a.imp
              /\ Rewrites(a.line, a.rows[a.line])'
              /\ price'[a.price].status = "live"
              /\ price'[a.price].material = a.rows[a.line].material
              /\ a.rows[a.line].material # NoMaterial => mat'[a.rows[a.line].material] = "live"
        /\ a.pc = "approve_update" => a.seen[a.line] = line'[a.line]
    BY <2>2, <2>3, <2>4 DEF Knows, Approving
  <2>9. Knows(a)'
    BY <2>6, <2>7, <2>8 DEF Knows
  <2> QED
    BY <2>2, <2>9
<1>2. OwnedIsLive' /\ ApprovedMaterial' /\ Settled'
  BY DEF AloneInv, WorkerKeeps, OwnedIsLive, ApprovedMaterial, Settled, LiveLine
<1>3. PricesKept'
  <2>1. OnePricePerLine => OnePricePerLine'
    BY DEF OnePricePerLine
  <2>2. Accounted => Accounted'
    <3> SUFFICES ASSUME Accounted, NEW p \in Prices, price[p].status = "live"
                 PROVE  /\ price[p].line \in Lines
                        /\ \/ line'[price[p].line].price = p
                           \/ line'[price[p].line].status = "deleted"
                           \/ \E r \in Reqs : req[r].pc \in Approving /\ req[r].price = p
      BY DEF Accounted
    <3>1. /\ price[p].line \in Lines
          /\ \/ line[price[p].line].price = p
             \/ line[price[p].line].status = "deleted"
             \/ \E r \in Reqs : req[r].pc \in Approving /\ req[r].price = p
      BY DEF Accounted
    <3>2. p # NoPrice
      BY ConstantsAssumption
    <3> QED
      BY <3>1, <3>2 DEF WorkerKeeps, AloneInv, Settled
  <2> QED
    BY <2>1, <2>2 DEF AloneInv, PricesKept
<1> QED
  BY <1>1, <1>2, <1>3 DEF AloneInv, PricesKept

\* A job that is done or has failed leaves the queue one of jobs of imports.
LEMMA QueueGoesOn ==
    ASSUME TypeOK, QueueKnows, NEW j \in Jobs, job[j].imp \in Imports, JobDone(j) \/ JobFailed(j)
    PROVE  QueueKnows'
<1>1. CASE JobDone(j)
  BY <1>1 DEF JobDone, TypeOK, QueueKnows
<1>2. CASE JobFailed(j)
  <2> DEFINE left == job[j].attempts - 1
             next == IF left > 0 THEN [imp |-> job[j].imp, attempts |-> left] ELSE FreeJob
  <2>1. job' = [job EXCEPT ![j] = next]
    BY <1>2 DEF JobFailed
  <2>2. next = FreeJob \/ next.imp \in Imports
    OBVIOUS
  <2> HIDE DEF next
  <2> QED
    BY <2>1, <2>2 DEF TypeOK, QueueKnows
<1> QED
  BY <1>1, <1>2

LEMMA WorkerAlone ==
    ASSUME OneAtATime, AloneInv, Work \/ \E j \in Jobs : WorkerTake(j)
    PROVE  AloneInv'
<1>1. UNCHANGED <<price, mat, req>>
  BY DEF Work, WorkerTake, WorkerMark, WorkerExtract, WorkerSave, WorkerReview, WorkerFail
<1>2. IInv' /\ RemovalIsFree'
  BY <1>1, WorkerIInv DEF AloneInv, RemovalIsFree, PricesOf
<1>3. /\ TypeOK
      /\ WorkerKnows /\ QueueKnows /\ WaitingIsUnapproved
      /\ imp \in [Imports -> ImportStatus]
      /\ worker.pc # "idle" => worker.job \in Jobs /\ job[worker.job].imp \in Imports
  BY DEF AloneInv, IInv, TypeOK, WorkerKnows, WorkerImport
<1>4. ASSUME WorkerKeeps, WorkerKnows', QueueKnows', WaitingIsUnapproved'
      PROVE  AloneInv'
  BY <1>1, <1>2, <1>4, WorkerAloneMoves
<1>5. UNCHANGED <<imp, line>> => WorkerKeeps /\ WaitingIsUnapproved'
  BY <1>3 DEF WorkerKeeps, WaitingIsUnapproved, Unapproved, LinesOf
<1>6. UNCHANGED job => QueueKnows'
  BY <1>3 DEF QueueKnows
<1>7. ASSUME NEW j \in Jobs, WorkerTake(j)
      PROVE  AloneInv'
  <2>1. worker.pc = "idle" /\ job[j].imp \in Imports /\ UNCHANGED <<imp, line>>
    BY <1>3, <1>7 DEF WorkerTake, QueueKnows
  <2>2. CASE imp[job[j].imp] = "pending" /\ worker' = [pc |-> "mark", job |-> j] /\ UNCHANGED job
    <3>1. WorkerKnows'
      BY <2>1, <2>2 DEF WorkerKnows, WorkerImport
    <3> QED
      BY <1>4, <1>5, <1>6, <2>1, <2>2, <3>1
  <2>3. CASE (JobDone(j) \/ JobFailed(j)) /\ UNCHANGED worker
    <3>1. QueueKnows'
      BY <1>3, <2>1, <2>3, QueueGoesOn
    <3>2. WorkerKnows'
      BY <2>1, <2>3 DEF WorkerKnows
    <3> QED
      BY <1>4, <1>5, <2>1, <3>1, <3>2
  <2> QED
    BY <1>7, <2>2, <2>3 DEF WorkerTake
<1>8. ASSUME NEW status \in {"processing", "review", "failed"}, worker.pc # "idle",
             UpdateStatus(WorkerImport, status),
             imp[WorkerImport] \in {"pending", "processing", "deleted"},
             UNCHANGED line
      PROVE  /\ WorkerKeeps
             /\ WaitingIsUnapproved'
             /\ imp'[WorkerImport] = IF imp[WorkerImport] = "deleted" THEN "deleted" ELSE status
  <2>1. WorkerImport \in Imports
    BY <1>3, <1>8 DEF WorkerImport
  <2>2. imp' = IF imp[WorkerImport] = "deleted" THEN imp ELSE [imp EXCEPT ![WorkerImport] = status]
    BY <1>3, <1>8, <2>1 DEF UpdateStatus, Exists
  <2>3. /\ imp'[WorkerImport] = IF imp[WorkerImport] = "deleted" THEN "deleted" ELSE status
        /\ \A i \in Imports : i # WorkerImport => imp'[i] = imp[i]
    BY <1>3, <2>1, <2>2
  <2>4. WorkerKeeps
    BY <1>8, <2>3 DEF WorkerKeeps, InReview
  <2>5. WaitingIsUnapproved'
    BY <1>3, <1>8, <2>3 DEF WaitingIsUnapproved, Unapproved, LinesOf, Waiting
  <2> QED
    BY <2>3, <2>4, <2>5
<1>9. ASSUME NEW label \in {"extract", "save", "failed", "review"}, WorkerGoto(label), UNCHANGED job
      PROVE  worker'.pc = label /\ WorkerImport' = WorkerImport
  BY <1>3, <1>9 DEF WorkerGoto, WorkerImport, TypeOK, Worker
<1>10. ASSUME worker.pc # "idle", worker' = IdleWorker, JobDone(worker.job) \/ JobFailed(worker.job)
       PROVE  QueueKnows' /\ WorkerKnows'
  <2>1. QueueKnows'
    BY <1>3, <1>10, QueueGoesOn
  <2> QED
    BY <1>10, <2>1 DEF WorkerKnows, IdleWorker
<1>11. ASSUME worker.pc # "idle", WorkerThrows, UNCHANGED line
       PROVE  AloneInv'
  BY <1>4, <1>5, <1>10, <1>11 DEF WorkerThrows
<1>12. CASE WorkerMark
  <2>1. /\ worker.pc = "mark" /\ imp[WorkerImport] \in {"pending", "deleted"}
        /\ WorkerImport \in Imports
        /\ UNCHANGED line
    BY <1>3, <1>12 DEF WorkerMark, WorkerKnows
  <2>2. CASE UpdateStatus(WorkerImport, "processing") /\ WorkerGoto("extract") /\ UNCHANGED job
    <3>1. /\ WorkerKeeps /\ WaitingIsUnapproved'
          /\ imp'[WorkerImport] = IF imp[WorkerImport] = "deleted" THEN "deleted" ELSE "processing"
      BY <1>8, <2>1, <2>2
    <3>2. worker'.pc = "extract" /\ WorkerImport' = WorkerImport
      BY <1>9, <2>2
    <3>3. WorkerKnows'
      BY <2>1, <3>1, <3>2 DEF WorkerKnows
    <3> QED
      BY <1>4, <1>6, <2>2, <3>1, <3>3
  <2> QED
    BY <1>11, <1>12, <2>1, <2>2 DEF WorkerMark
<1>13. ASSUME NEW label \in {"save", "failed", "review"}, WorkerGoto(label), UNCHANGED <<imp, job>>,
              worker.pc \in {"extract", "save", "review"}
       PROVE  WorkerKnows'
  <2>1. WorkerImport \in Imports /\ imp[WorkerImport] \in {"processing", "deleted"}
    BY <1>3, <1>13 DEF WorkerKnows
  <2>2. worker'.pc = label /\ WorkerImport' = WorkerImport
    BY <1>9, <1>13
  <2> QED
    BY <1>13, <2>1, <2>2 DEF WorkerKnows
<1>14. CASE WorkerExtract
  BY <1>4, <1>5, <1>6, <1>13, <1>14 DEF WorkerExtract
<1>15. CASE WorkerSave
  <2>1. /\ worker.pc = "save" /\ UNCHANGED <<imp, job>>
        /\ imp[WorkerImport] \in {"processing", "deleted"}
    BY <1>3, <1>15 DEF WorkerSave, WorkerKnows
  <2>2. CASE WorkerGoto("failed") /\ UNCHANGED line
    <3>1. WorkerKnows'
      BY <1>13, <2>1, <2>2
    <3> QED
      BY <1>4, <1>5, <1>6, <2>1, <2>2, <3>1
  <2>3. ASSUME NEW found \in SUBSET Unused, NEW match \in [found -> Catalogue],
               line' = [l \in Lines |->
                          IF l \in found
                          THEN [NoRow EXCEPT !.imp = WorkerImport, !.status = "pending",
                                             !.material = match[l]]
                          ELSE line[l]],
               WorkerGoto("review")
        PROVE  AloneInv'
    <3>1. WorkerKnows'
      BY <1>13, <2>1, <2>3
    <3>2. \A l \in Lines : \/ line'[l] = line[l]
                           \/ /\ line[l].status = "none" /\ line'[l].status = "pending"
                              /\ line'[l].price = NoPrice
      <4>1. \A l \in Lines : l \notin found => line'[l] = line[l]
        BY <2>3
      <4>2. ASSUME NEW l \in Lines, l \in found
            PROVE  line[l].status = "none" /\ line'[l].status = "pending" /\ line'[l].price = NoPrice
        <5>1. PICK row : row = [NoRow EXCEPT !.imp = WorkerImport, !.status = "pending", !.material = match[l]]
          OBVIOUS
        <5>2. line'[l] = row
          BY <2>3, <4>2, <5>1
        <5> DEFINE i == WorkerImport
                   m == match[l]
        <5>3. row = [NoRow EXCEPT !.imp = i, !.status = "pending", !.material = m]
          BY <5>1
        <5> HIDE DEF i, m
        <5>4. row.status = "pending" /\ row.price = NoPrice
          BY <5>3 DEF NoRow
        <5> QED
          BY <4>2, <5>2, <5>4 DEF Unused
      <4> QED
        BY <4>1, <4>2
    <3>3. WorkerKeeps
      BY <2>1, <3>2 DEF WorkerKeeps
    <3>4. WaitingIsUnapproved'
      BY <1>3, <2>1, <3>2 DEF WaitingIsUnapproved, Unapproved, LinesOf
    <3> QED
      BY <1>4, <1>6, <2>1, <3>1, <3>3, <3>4
  <2> QED
    BY <1>15, <2>2, <2>3 DEF WorkerSave
<1>16. ASSUME NEW status \in {"review", "failed"}, worker.pc = status,
              UpdateStatus(WorkerImport, status), worker' = IdleWorker,
              JobDone(worker.job) \/ JobFailed(worker.job), UNCHANGED line
       PROVE  AloneInv'
  <2>1. imp[WorkerImport] \in {"processing", "deleted"} /\ worker.pc # "idle"
    BY <1>3, <1>16 DEF WorkerKnows
  <2>2. WorkerKeeps /\ WaitingIsUnapproved'
    BY <1>8, <1>16, <2>1
  <2> QED
    BY <1>4, <1>10, <1>16, <2>1, <2>2
<1>17. CASE WorkerReview
  <2>1. worker.pc = "review" /\ UNCHANGED line
    BY <1>17 DEF WorkerReview
  <2>2. CASE WorkerGoto("failed") /\ UNCHANGED <<imp, job>>
    BY <1>4, <1>5, <1>6, <1>13, <2>1, <2>2
  <2> QED
    BY <1>16, <1>17, <2>1, <2>2 DEF WorkerReview
<1>18. CASE WorkerFail
  BY <1>11, <1>16, <1>18 DEF WorkerFail
<1> QED
  BY <1>7, <1>12, <1>14, <1>15, <1>17, <1>18 DEF Work

\* A restart leaves the tables and the queue as they are; a price whose line
\* was not saved is one of the reasons why OnePricePerLine asks for no outages.
LEMMA RestartAlone ==
    ASSUME OneAtATime, AloneInv, Restart
    PROVE  AloneInv'
<1>1. IInv' /\ RemovalIsFree'
  BY IdleTyped, RestartIInv DEF AloneInv, Restart, RemovalIsFree
<1>2. Outages /\ worker'.pc = "idle" /\ UNCHANGED <<imp, line, price, mat, job>>
  BY DEF Restart, IdleWorker
<1>3. ASSUME NEW r \in Reqs
      PROVE  Knows(req[r])'
  <2>1. PICK a : a = Idle
    OBVIOUS
  <2>2. req'[r] = a
    BY <2>1 DEF Restart
  <2>3. Knows(a)'
    BY <2>1, IdleTyped DEF Knows, OfAnImport, Saving, Approving, InReview
  <2> QED
    BY <2>2, <2>3
<1>4. /\ WorkerKnows' /\ QueueKnows' /\ WaitingIsUnapproved' /\ OwnedIsLive' /\ ApprovedMaterial'
      /\ Settled'
  BY <1>2 DEF AloneInv, WorkerKnows, QueueKnows, WaitingIsUnapproved, Unapproved, LinesOf, OwnedIsLive,
     ApprovedMaterial, Settled
<1> QED
  BY <1>1, <1>2, <1>3, <1>4 DEF AloneInv

LEMMA NextAloneInv ==
    ASSUME OneAtATime, AloneInv, [Next]_vars
    PROVE  AloneInv'
<1>1. CASE UNCHANGED vars
  <2>1. IInv'
    BY NextIInv DEF AloneInv
  <2>2. /\ UNCHANGED <<price, mat, req>>
        /\ UNCHANGED <<imp, line, job, worker>>
    BY <1>1 DEF vars
  <2>3. RemovalIsFree'
    BY <2>2 DEF AloneInv, RemovalIsFree, PricesOf
  <2>4. WorkerKeeps /\ WorkerKnows' /\ QueueKnows' /\ WaitingIsUnapproved'
    BY <2>2 DEF AloneInv, WorkerKeeps, Unapproved, LinesOf, WorkerKnows, WorkerImport, QueueKnows,
       WaitingIsUnapproved
  <2> QED
    BY <2>1, <2>2, <2>3, <2>4, WorkerAloneMoves
<1> QED
  BY <1>1, StartAlone, ContinueAlone, WorkerAlone, RestartAlone DEF Next

\* What holds throughout with one request at a time, beside the worker.
THEOREM SpecAloneInv ==
    ASSUME OneAtATime
    PROVE  Spec => []AloneInv
<1>1. AloneInv /\ [Next]_vars => AloneInv'
  BY NextAloneInv
<1> QED
  BY <1>1, InitAloneInv, PTL DEF Spec

\* One request at a time and no restart, a line becomes a price at most once,
\* whatever the worker reads meanwhile: the price and its line are saved
\* separately, and between the two nobody takes the line away.
THEOREM SpecOnePricePerLine ==
    ASSUME OneAtATime, ~Outages
    PROVE  Spec => []OnePricePerLine
<1>1. AloneInv => OnePricePerLine
  BY DEF AloneInv
<1> QED
  BY <1>1, SpecAloneInv, PTL

\* One request at a time, an approved line always has its price, whatever is
\* removed and however often the process restarts.
THEOREM SpecApprovedHasPrice ==
    ASSUME OneAtATime
    PROVE  Spec => []ApprovedHasPrice
<1>1. AloneInv => ApprovedHasPrice
  BY DEF AloneInv, Settled, ApprovedHasPrice
<1> QED
  BY <1>1, SpecAloneInv, PTL

\* One request at a time, an import that waits to be read, is being read or
\* failed has no approved line: across restarts, with readings that fail after
\* they saved their lines, and however many jobs for it the queue still holds.
THEOREM SpecNoneApprovedIsReread ==
    ASSUME OneAtATime
    PROVE  Spec => []NoneApprovedIsReread
<1>1. AloneInv => NoneApprovedIsReread
  BY DEF AloneInv, WaitingIsUnapproved, Unapproved, NoneApprovedIsReread, Waiting
<1> QED
  BY <1>1, SpecAloneInv, PTL

\* No step takes an approval back, and only the removal of its import takes the
\* line away.
LEMMA NextFinal ==
    ASSUME OneAtATime, AloneInv, [Next]_vars, NEW l \in Lines, line[l].status = "approved"
    PROVE  line'[l] \in {line[l], [NoRow EXCEPT !.status = "deleted"]}
<1>1. CASE UNCHANGED line
  BY <1>1
<1>2. CASE WorkerSave
  BY <1>2 DEF WorkerSave, Unused
<1>3. ASSUME NEW r \in Reqs, SaveLines(r)
      PROVE  line'[l] = line[l]
  <2>1. LinesReviewed
    BY <1>3, SaveLinesReviews
  <2> QED
    BY <2>1 DEF LinesReviewed, Editing
<1>4. ASSUME NEW r \in Reqs, ApproveSave(r)
      PROVE  line'[l] = line[l]
  BY <1>4, ApproveSaveWrites DEF Editing
<1>5. ASSUME NEW r \in Reqs, RemoveDelete(r)
      PROVE  line'[l] \in {line[l], [NoRow EXCEPT !.status = "deleted"]}
  BY <1>5 DEF RemoveDelete
<1>6. ASSUME NEW r \in Reqs, RemoveMaterialDelete(r)
      PROVE  line'[l] = line[l]
  BY <1>6, RemoveMaterialAlone
<1> QED
  BY <1>1, <1>2, <1>3, <1>4, <1>5, <1>6 DEF Next, vars, Start, Create, RetryRead, RematchRead,
     ApproveRead, RemoveRead, UpdateLineRead, MaterialForLineRead, RemoveMaterialRead, Continue, Encolar,
     RetryCount, RetryUpdate, RetryFind, SaveLinesRead, ApproveLines, ApprovePrice, ApproveSaveRead,
     ApproveCount, ApproveRefresh, Work, WorkerTake, WorkerMark, WorkerExtract, WorkerReview, WorkerFail, Restart

\* One request at a time, an approved line stays as it is, with its price, until
\* its import is deleted: across restarts, and whatever materials are removed.
THEOREM SpecApprovedIsFinal ==
    ASSUME OneAtATime
    PROVE  Spec => ApprovedIsFinal
<1>1. AloneInv /\ [Next]_vars =>
        [\A l \in Lines : line[l].status = "approved" =>
             line'[l] \in {line[l], [NoRow EXCEPT !.status = "deleted"]}]_vars
  BY NextFinal
<1> QED
  BY <1>1, SpecAloneInv, PTL DEF Spec, ApprovedIsFinal
=============================================================================
