---------------------------- MODULE QuotesProofs ----------------------------
(***************************************************************************)
(* Quotes of any number, families, revisions, clients and requests: a      *)
(* quote that was replaced names a later revision that exists; it is       *)
(* answered once and reminded as often as allowed, unless something was    *)
(* written over it.                                                        *)
(***************************************************************************)
EXTENDS Quotes, TLAPS

(***************************************************************************)
(* The inductive invariant.  A quote has one number for ever, also while   *)
(* it is deleted and a late save may insert it again: id is the number of  *)
(* each quote that was ever created.                                       *)
(***************************************************************************)
Ids == [Quotes -> [base: Families \cup {NoFamily}, rev: 0..MaxRevision]]

Created(q) == quote[q].status # "none"

\* A row of q, in the table or in the hands of a request.
RowOf(id, q, row) ==
    /\ row.base = id[q].base
    /\ row.rev = id[q].rev
    /\ row.next # NoQuote =>
          Created(row.next) /\ id[row.next].base = id[q].base /\ id[row.next].rev > id[q].rev

Rows(id) ==
    \A q \in Quotes :
        /\ Exists(q) => RowOf(id, q, quote[q])
        /\ quote[q].next # NoQuote => Exists(q) /\ Exists(quote[q].next)

Holds(id, q, row) == q \in Quotes /\ Created(q) /\ row.status \in QuoteStatus /\ RowOf(id, q, row)

\* Saving row would lose nothing of q.
StatusIsCurrent(q, row, sends) ==
    Exists(q) /\ (~sends /\ row.status = "sent" => quote[q].status = "sent")
RowIsCurrent(q, row, sends) ==
    StatusIsCurrent(q, row, sends) /\ (~sends => row.reminders = quote[q].reminders)

\* What a request knows.
InFlight(id, a) ==
    /\ a.pc # "idle" => a.quote \in Quotes /\ Created(a.quote)
    /\ a.pc = "load" => a.row.status \in QuoteStatus /\ (~a.stale => StatusIsCurrent(a.quote, a.row, a.sends))
    /\ a.pc \in {"save", "revise"} =>
          Holds(id, a.quote, a.row) /\ (~a.stale => RowIsCurrent(a.quote, a.row, a.sends))
    /\ a.pc = "revise" => ~a.sends /\ a.row.rev < MaxRevision
    /\ a.origin # NoQuote =>
          Holds(id, a.origin, a.originRow) /\ (~a.originStale => RowIsCurrent(a.origin, a.originRow, FALSE))

\* What happened to a quote, against its row.
Marks(q) == IF reminder.pc = "mark" /\ reminder.quote = q THEN 1 ELSE 0
PastKept(q) ==
    /\ past[q].lost => past[q].answers = 0 /\ past[q].mails = 0
    /\ past[q].answers <= 1
    /\ quote[q].status \in {"none", "sent"} => past[q].answers = 0
    /\ past[q].mails <= MaxReminders
    /\ ~Created(q) => past[q].mails = 0
    /\ Exists(q) => past[q].mails <= quote[q].reminders + Marks(q)

ReminderHolds ==
    reminder.pc # "idle" =>
        /\ reminder.quote \in Quotes
        /\ Created(reminder.quote)
        /\ reminder.seen < MaxReminders
        /\ past[reminder.quote].mails <= reminder.seen + Marks(reminder.quote)

J(id) ==
    /\ TypeOK
    /\ id \in Ids
    /\ Rows(id)
    /\ \A r \in Reqs : InFlight(id, req[r])
    /\ \A q \in Quotes : PastKept(q)
    /\ ReminderHolds

IInv == \E id : J(id)

(***************************************************************************)
(* Types.                                                                  *)
(***************************************************************************)
LEMMA NumbersTyped ==
    /\ 0 \in 0..MaxReminders /\ 0 \in 0..MaxRevision /\ 1 \in 0..MaxRevision
    /\ 0 \in 0..2 /\ 0 \in 0..(MaxReminders + 1)
BY ConstantsAssumption

LEMMA RowTyped ==
    /\ NoRow \in Row /\ NoRow.status = "none" /\ NoRow.next = NoQuote /\ NoRow.reminders = 0
    /\ QuoteStatus = {"draft", "sent", "decided", "expired"}
BY NumbersTyped DEF NoRow, Row, QuoteStatus

LEMMA IdleTyped ==
    /\ Idle \in Request /\ Idle.pc = "idle" /\ Idle.origin = NoQuote /\ ~Idle.stale /\ ~Idle.originStale /\ ~Idle.sends
    /\ Idle.quote = NoQuote
BY RowTyped DEF Idle, Request

LEMMA OthersTyped ==
    /\ IdleReminder \in Reminder /\ IdleReminder.pc = "idle"
    /\ Fresh \in Past /\ Fresh.answers = 0 /\ Fresh.mails = 0 /\ ~Fresh.lost
    /\ Lost \in Past /\ Lost.answers = 0 /\ Lost.mails = 0 /\ Lost.lost
BY NumbersTyped DEF IdleReminder, Reminder, Fresh, Lost, Past

LEMMA IdleInFlight == ASSUME NEW id PROVE InFlight(id, Idle)
BY IdleTyped DEF InFlight

LEMMA InitIInv == Init => IInv
<1> SUFFICES ASSUME Init PROVE IInv
  OBVIOUS
<1>1. PICK id : id = [q \in Quotes |-> [base |-> NoFamily, rev |-> 0]]
  OBVIOUS
<1>2. id \in Ids
  BY <1>1, NumbersTyped DEF Ids
<1>3. TypeOK
  <2>1. quote \in [Quotes -> Row] /\ past \in [Quotes -> Past]
    BY RowTyped, OthersTyped DEF Init
  <2>2. req \in [Reqs -> Request] /\ reminder \in Reminder
    BY IdleTyped, OthersTyped DEF Init
  <2>3. answer \in [Clients -> Quotes \cup {NoQuote}] /\ expiry \in Quotes \cup {NoQuote}
    BY DEF Init
  <2> QED
    BY <2>1, <2>2, <2>3 DEF TypeOK
<1>4. Rows(id)
  BY RowTyped DEF Init, Rows, Exists
<1>5. \A r \in Reqs : InFlight(id, req[r])
  BY IdleInFlight DEF Init
<1>6. \A q \in Quotes : PastKept(q)
  BY OthersTyped, RowTyped, ConstantsAssumption DEF Init, PastKept, Created, Exists
<1>7. ReminderHolds
  BY OthersTyped DEF Init, ReminderHolds
<1> QED
  BY <1>2, <1>3, <1>4, <1>5, <1>6, <1>7 DEF J, IInv

(***************************************************************************)
(* The table changes.                                                      *)
(***************************************************************************)
\* Rows stay created, with their number; id2 may number a new one.
Grows(id, id2) == \A p \in Quotes : Created(p) => Created(p)' /\ id2[p] = id[p]

LEMMA RowOfKept ==
    ASSUME NEW id, NEW id2, Grows(id, id2), NEW q \in Quotes, Created(q), NEW row \in Row, RowOf(id, q, row)
    PROVE  RowOf(id2, q, row)'
<1>1. row.next # NoQuote => row.next \in Quotes
  BY DEF Row
<1> QED
  BY <1>1 DEF Grows, RowOf, Created

LEMMA HoldsKept ==
    ASSUME NEW id, NEW id2, Grows(id, id2), NEW q, NEW row \in Row, Holds(id, q, row)
    PROVE  Holds(id2, q, row)'
BY RowOfKept DEF Holds, Grows, Created

LEMMA CurrentKept ==
    ASSUME NEW q, NEW row, NEW sends, quote'[q] = quote[q]
    PROVE  /\ StatusIsCurrent(q, row, sends) => StatusIsCurrent(q, row, sends)'
           /\ RowIsCurrent(q, row, sends) => RowIsCurrent(q, row, sends)'
BY DEF RowIsCurrent, StatusIsCurrent, Exists

\* A request that does nothing knows as much, unless its rows are now stale.
LEMMA InFlightKept ==
    ASSUME NEW id, NEW id2, Grows(id, id2), NEW a \in Request, InFlight(id, a),
           NEW b \in Request, NEW s \in BOOLEAN, NEW os \in BOOLEAN, b = [a EXCEPT !.stale = s, !.originStale = os],
           s \/ (~a.stale /\ (a.pc \in {"load", "save", "revise"} => quote'[a.quote] = quote[a.quote])),
           os \/ (~a.originStale /\ (a.origin # NoQuote => quote'[a.origin] = quote[a.origin]))
    PROVE  InFlight(id2, b)'
<1>1. /\ b.pc = a.pc /\ b.quote = a.quote /\ b.row = a.row /\ b.sends = a.sends /\ b.stale = s
      /\ b.origin = a.origin /\ b.originRow = a.originRow /\ b.originStale = os
      /\ a.row \in Row /\ a.originRow \in Row
  BY DEF Request
<1>2. a.pc # "idle" => a.quote \in Quotes /\ Created(a.quote)'
  BY DEF InFlight, Grows
<1>3. a.pc = "load" => a.row.status \in QuoteStatus /\ (~s => StatusIsCurrent(a.quote, a.row, a.sends)')
  BY CurrentKept DEF InFlight
<1>4. a.pc \in {"save", "revise"} =>
         Holds(id2, a.quote, a.row)' /\ (~s => RowIsCurrent(a.quote, a.row, a.sends)')
  BY <1>1, HoldsKept, CurrentKept DEF InFlight
<1>5. a.pc = "revise" => ~a.sends /\ a.row.rev < MaxRevision
  BY DEF InFlight
<1>6. a.origin # NoQuote =>
         Holds(id2, a.origin, a.originRow)' /\ (~os => RowIsCurrent(a.origin, a.originRow, FALSE)')
  BY <1>1, HoldsKept, CurrentKept DEF InFlight
<1> QED
  BY <1>1, <1>2, <1>3, <1>4, <1>5, <1>6 DEF InFlight

\* After a Write, a request that knew what it had to knows it or is stale.
LEMMA WriteOneKept ==
    ASSUME NEW id, NEW id2, Grows(id, id2), NEW rows, NEW reqs \in [Reqs -> Request],
           NEW r \in Reqs, InFlight(id, reqs[r]), Write(rows, reqs)
    PROVE  req'[r] \in Request /\ InFlight(id2, req[r])'
<1>1. PICK a \in Request : a = reqs[r]
  OBVIOUS
<1>2. PICK s \in BOOLEAN : s = (a.stale \/ (a.pc \in {"load", "save", "revise"} /\ Changes(a.quote, rows)))
  BY DEF Request
<1>3. PICK os \in BOOLEAN : os = (a.originStale \/ Changes(a.origin, rows))
  BY DEF Request
<1>4. PICK b : b = [a EXCEPT !.stale = s, !.originStale = os]
  OBVIOUS
<1>5. b \in Request
  BY <1>4 DEF Request
<1>6. req'[r] = b /\ quote' = rows
  <2>1. quote' = rows
    BY DEF Write
  <2>2. req'[r] = [reqs[r] EXCEPT
                      !.stale = \/ reqs[r].stale
                                \/ reqs[r].pc \in {"load", "save", "revise"} /\ Changes(reqs[r].quote, rows),
                      !.originStale = reqs[r].originStale \/ Changes(reqs[r].origin, rows)]
    BY Zenon DEF Write
  <2>3. req'[r] = b
    BY <1>1, <1>2, <1>3, <1>4, <2>2, Zenon
  <2> QED
    BY <2>1, <2>3
<1>7. a.stale \in BOOLEAN /\ a.originStale \in BOOLEAN /\ InFlight(id, a)
  BY <1>1 DEF Request
<1>8. a.pc \in {"load", "save", "revise"} => a.quote # NoQuote
  BY <1>7, ConstantsAssumption DEF InFlight
<1>9. s \/ (~a.stale /\ (a.pc \in {"load", "save", "revise"} => quote'[a.quote] = quote[a.quote]))
  <2>1. ~s => ~a.stale /\ ~(a.pc \in {"load", "save", "revise"} /\ Changes(a.quote, rows))
    BY <1>2, Zenon
  <2>2. ~(a.pc \in {"load", "save", "revise"} /\ Changes(a.quote, rows)) =>
           (a.pc \in {"load", "save", "revise"} => quote'[a.quote] = quote[a.quote])
    BY <1>6, <1>8 DEF Changes
  <2> QED
    BY <2>1, <2>2, Zenon
<1>10. os \/ (~a.originStale /\ (a.origin # NoQuote => quote'[a.origin] = quote[a.origin]))
  BY <1>3, <1>6, <1>7 DEF Changes
<1>11. InFlight(id2, b)'
  BY <1>4, <1>5, <1>7, <1>9, <1>10, InFlightKept
<1> QED
  BY <1>5, <1>6, <1>11 DEF InFlight, Holds, RowOf, RowIsCurrent, StatusIsCurrent, Created, Exists

LEMMA WriteKept ==
    ASSUME NEW id, NEW id2, Grows(id, id2), NEW rows, NEW reqs \in [Reqs -> Request],
           \A r \in Reqs : InFlight(id, reqs[r]), Write(rows, reqs)
    PROVE  req' \in [Reqs -> Request] /\ \A r \in Reqs : InFlight(id2, req[r])'
<1>1. \A r \in Reqs : req'[r] \in Request /\ InFlight(id2, req[r])'
  BY WriteOneKept
<1>2. req' = [r \in Reqs |-> req'[r]]
  BY DEF Write
<1> QED
  BY <1>1, <1>2

(***************************************************************************)
(* Requests that only read or end.                                         *)
(***************************************************************************)
LEMMA ReadJ ==
    ASSUME NEW id, J(id), NEW r \in Reqs, NEW b \in Request, InFlight(id, b),
           req' = [req EXCEPT ![r] = b], UNCHANGED <<quote, past, others>>
    PROVE  J(id)'
<1>1. UNCHANGED <<quote, past, answer, expiry, reminder>>
  BY DEF others, jobs
<1>2. TypeOK' /\ \A p \in Reqs : req'[p] = IF p = r THEN b ELSE req[p]
  BY <1>1 DEF J, TypeOK
<1>3. \A p \in Reqs : InFlight(id, req'[p])
  BY <1>2 DEF J
<1>4. \A p \in Reqs : InFlight(id, req[p])'
  BY <1>1, <1>3 DEF InFlight, Holds, RowOf, RowIsCurrent, StatusIsCurrent, Created, Exists
<1>5. Rows(id)' /\ ReminderHolds' /\ \A q \in Quotes : PastKept(q)'
  BY <1>1 DEF J, Rows, RowOf, ReminderHolds, PastKept, Marks, Created, Exists
<1> QED
  BY <1>2, <1>4, <1>5 DEF J

LEMMA FinishJ ==
    ASSUME NEW id, J(id), NEW r \in Reqs, Finish(r), UNCHANGED <<quote, past, others>>
    PROVE  J(id)'
<1>1. PICK b : b = Idle
  OBVIOUS
<1> QED
  BY <1>1, IdleTyped, IdleInFlight, ReadJ DEF Finish

\* A request that starts with quote q and row in its hands.
LEMMA BeginJ ==
    ASSUME NEW id, J(id), NEW r \in Reqs, NEW q \in Quotes, Created(q), NEW row \in Row,
           NEW label \in {"load", "save", "recalculate", "revise"}, NEW sends \in BOOLEAN,
           req' = [req EXCEPT ![r] = [Idle EXCEPT !.pc = label, !.quote = q, !.row = row, !.sends = sends]],
           UNCHANGED <<quote, past, others>>,
           label = "load" => row.status \in QuoteStatus /\ StatusIsCurrent(q, row, sends),
           label \in {"save", "revise"} => Holds(id, q, row) /\ RowIsCurrent(q, row, sends),
           label = "revise" => ~sends /\ row.rev < MaxRevision
    PROVE  J(id)'
<1>1. PICK b : b = [Idle EXCEPT !.pc = label, !.quote = q, !.row = row, !.sends = sends]
  OBVIOUS
<1>2. /\ b \in Request /\ b.pc = label /\ b.quote = q /\ b.row = row /\ b.sends = sends
      /\ b.origin = NoQuote
  BY <1>1, IdleTyped DEF Request
<1>3. InFlight(id, b)
  BY <1>2 DEF InFlight
<1> QED
  BY <1>1, <1>2, <1>3, ReadJ

\* What is left of a request: nothing, or the quote it is a revision of.
LEMMA RestShape ==
    ASSUME NEW id, J(id), NEW r \in Reqs
    PROVE  \E b \in Request : InFlight(id, b) /\ Rest(r) = [req EXCEPT ![r] = b]
<1>1. PICK a \in Request : a = req[r] /\ InFlight(id, a)
  BY DEF J, TypeOK
<1>2. CASE a.origin = NoQuote
  BY <1>1, <1>2, IdleTyped, IdleInFlight DEF Rest
<1>3. CASE a.origin # NoQuote
  <2>1. PICK b : b = [Idle EXCEPT !.pc = "save", !.quote = a.origin, !.row = a.originRow, !.stale = a.originStale]
    OBVIOUS
  <2>2. /\ b \in Request /\ b.pc = "save" /\ b.quote = a.origin /\ b.row = a.originRow /\ b.stale = a.originStale
        /\ b.sends = FALSE /\ b.origin = NoQuote
    BY <2>1, IdleTyped DEF Request
  <2>3. Holds(id, a.origin, a.originRow) /\ (~a.originStale => RowIsCurrent(a.origin, a.originRow, FALSE))
    BY <1>1, <1>3 DEF InFlight
  <2>4. InFlight(id, b)
    BY <2>2, <2>3 DEF InFlight, Holds
  <2>5. Rest(r) = [req EXCEPT ![r] = b]
    BY <1>1, <1>3, <2>1 DEF Rest
  <2> QED
    BY <2>2, <2>4, <2>5
<1> QED
  BY <1>2, <1>3

\* The row of a quote that exists, as it is in the table.
LEMMA OwnRow ==
    ASSUME NEW id, J(id), NEW q \in Quotes, Exists(q)
    PROVE  /\ quote[q] \in Row /\ Created(q) /\ Holds(id, q, quote[q])
           /\ \A sends \in BOOLEAN : RowIsCurrent(q, quote[q], sends)
           /\ quote[q].base = id[q].base /\ quote[q].rev = id[q].rev
BY RowTyped DEF J, TypeOK, Rows, Exists, Created, Holds, RowOf, RowIsCurrent, StatusIsCurrent

LEMMA StartJ ==
    ASSUME NEW id, J(id), NEW r \in Reqs, NEW q \in Quotes,
           UpdateCheck(r, q) \/ ItemsCheck(r, q) \/ SendRead(r, q) \/ ConvertRead(r, q) \/ ReviseRead(r, q)
    PROVE  J(id)'
<1>0. Idle.sends = FALSE
  BY DEF Idle
<1>1. CASE UpdateCheck(r, q)
  <2>1. PICK status \in QuoteStatus :
           /\ Exists(q) /\ UNCHANGED <<quote, past, others>>
           /\ req' = [req EXCEPT ![r] = [Idle EXCEPT !.pc = "load", !.quote = q, !.row = [NoRow EXCEPT !.status = status],
                                   !.sends = (status = "sent" /\ quote[q].status # "sent")]]
    BY <1>1 DEF UpdateCheck, Editable, Begin
  <2>2. PICK sends \in BOOLEAN : sends = (status = "sent" /\ quote[q].status # "sent")
    OBVIOUS
  <2>3. PICK row : row = [NoRow EXCEPT !.status = status]
    OBVIOUS
  <2>4. row \in Row /\ row.status = status
    BY <2>3, RowTyped DEF Row
  <2>5. StatusIsCurrent(q, row, sends)
    BY <2>1, <2>2, <2>4 DEF StatusIsCurrent
  <2>6. req' = [req EXCEPT ![r] = [Idle EXCEPT !.pc = "load", !.quote = q, !.row = row, !.sends = sends]]
    BY <2>1, <2>2, <2>3, Zenon
  <2>7. Created(q)
    BY <2>1, OwnRow
  <2>8. PICK b : b = [Idle EXCEPT !.pc = "load", !.quote = q, !.row = row, !.sends = sends]
    OBVIOUS
  <2>9. b \in Request /\ b.pc = "load" /\ b.quote = q /\ b.row = row /\ b.sends = sends /\ b.origin = NoQuote
    BY <2>4, <2>8, IdleTyped DEF Request
  <2>10. InFlight(id, b)
    BY <2>4, <2>5, <2>7, <2>9 DEF InFlight
  <2> QED
    BY <2>1, <2>6, <2>8, <2>9, <2>10, ReadJ
<1>2. CASE ItemsCheck(r, q)
  <2>1. /\ Exists(q) /\ UNCHANGED <<quote, past, others>>
        /\ req' = [req EXCEPT ![r] = [Idle EXCEPT !.pc = "recalculate", !.quote = q]]
    BY <1>2 DEF ItemsCheck, Editable, Begin
  <2>2. PICK b : b = [Idle EXCEPT !.pc = "recalculate", !.quote = q]
    OBVIOUS
  <2>3. b \in Request /\ b.pc = "recalculate" /\ b.quote = q /\ b.origin = NoQuote
    BY <2>2, IdleTyped DEF Request
  <2>4. InFlight(id, b)
    BY <2>1, <2>3, OwnRow DEF InFlight
  <2> QED
    BY <2>1, <2>2, <2>3, <2>4, ReadJ
<1>3. CASE SendRead(r, q)
  <2>1. PICK row : row = [quote[q] EXCEPT !.status = "sent", !.reminders = 0]
    OBVIOUS
  <2>2. /\ Exists(q) /\ UNCHANGED <<quote, past, others>>
        /\ req' = [req EXCEPT ![r] = [Idle EXCEPT !.pc = "save", !.quote = q, !.sends = TRUE, !.row = row]]
    BY <1>3, <2>1 DEF SendRead, Begin, Exists, QuoteStatus
  <2>3. row \in Row /\ row.status = "sent" /\ row.base = quote[q].base /\ row.rev = quote[q].rev /\ row.next = quote[q].next
    BY <2>1, <2>2, OwnRow, NumbersTyped, RowTyped DEF Row
  <2>4. Holds(id, q, row) /\ RowIsCurrent(q, row, TRUE) /\ Created(q)
    BY <2>2, <2>3, OwnRow, RowTyped DEF Holds, RowOf, RowIsCurrent, StatusIsCurrent
  <2>5. PICK b : b = [Idle EXCEPT !.pc = "save", !.quote = q, !.sends = TRUE, !.row = row]
    OBVIOUS
  <2>6. b = [Idle EXCEPT !.pc = "save", !.quote = q, !.row = row, !.sends = TRUE]
    BY <2>5, IdleTyped DEF Request
  <2> QED
    BY <2>2, <2>3, <2>4, <2>5, <2>6, BeginJ
<1>4. ASSUME NEW label \in {"save", "revise"}, Exists(q), UNCHANGED <<quote, past, others>>,
             req' = [req EXCEPT ![r] = [Idle EXCEPT !.pc = label, !.quote = q, !.row = quote[q]]],
             label = "revise" => quote[q].rev < MaxRevision
      PROVE  J(id)'
  <2>1. PICK row : row = quote[q]
    OBVIOUS
  <2>2. PICK b : b = [Idle EXCEPT !.pc = label, !.quote = q, !.row = row]
    OBVIOUS
  <2>3. b = [Idle EXCEPT !.pc = label, !.quote = q, !.row = row, !.sends = FALSE]
    BY <1>0, <2>2, IdleTyped DEF Request
  <2>4. row \in Row /\ Created(q) /\ Holds(id, q, row) /\ RowIsCurrent(q, row, FALSE)
    BY <1>4, <2>1, OwnRow
  <2> QED
    BY <1>4, <2>1, <2>2, <2>3, <2>4, BeginJ
<1>5. CASE ConvertRead(r, q)
  BY <1>4, <1>5 DEF ConvertRead, Begin, Exists, QuoteStatus
<1>6. CASE ReviseRead(r, q)
  BY <1>4, <1>6 DEF ReviseRead, Begin, Exists, Revisable
<1> QED
  BY <1>1, <1>2, <1>3, <1>5, <1>6

\* A request loads its row again.
LEMMA LoadJ ==
    ASSUME NEW id, J(id), NEW r \in Reqs, UpdateLoad(r) \/ Recalculate(r)
    PROVE  J(id)'
<1>1. PICK a \in Request : a = req[r]
  BY DEF J, TypeOK
<1>2. InFlight(id, a) /\ UNCHANGED <<quote, past, others>> /\ a.pc \in {"load", "recalculate"}
  BY <1>1 DEF J, UpdateLoad, Recalculate, At
<1>3. a.quote \in Quotes /\ a.pc # "revise" /\ a.pc # "save"
  BY <1>2 DEF InFlight
<1>4. CASE UpdateLoad(r) /\ Exists(a.quote)
  <2>1. PICK row : row = [quote[a.quote] EXCEPT !.status = a.row.status,
                              !.reminders = IF a.sends THEN 0 ELSE quote[a.quote].reminders]
    OBVIOUS
  <2>2. a.row.status \in QuoteStatus /\ a.pc = "load" /\ (~a.stale => StatusIsCurrent(a.quote, a.row, a.sends))
    BY <1>1, <1>2, <1>4 DEF InFlight, UpdateLoad, At
  <2>3. /\ row \in Row /\ row.status = a.row.status /\ row.base = quote[a.quote].base /\ row.rev = quote[a.quote].rev
        /\ row.next = quote[a.quote].next
        /\ (~a.sends => row.reminders = quote[a.quote].reminders)
    BY <1>3, <1>4, <2>1, <2>2, OwnRow, NumbersTyped, RowTyped DEF Row
  <2>4. PICK b : b = [a EXCEPT !.pc = "save", !.row = row]
    OBVIOUS
  <2>5. /\ b \in Request /\ b.pc = "save" /\ b.row = row /\ b.quote = a.quote /\ b.stale = a.stale /\ b.sends = a.sends
        /\ b.origin = a.origin /\ b.originRow = a.originRow /\ b.originStale = a.originStale
    BY <2>3, <2>4 DEF Request
  <2>6. req' = [req EXCEPT ![r] = b]
    BY <1>1, <1>4, <2>1, <2>4 DEF UpdateLoad
  <2>7. Holds(id, a.quote, row)
    BY <1>3, <1>4, <2>2, <2>3, OwnRow DEF Holds, RowOf
  <2>8. ~a.stale => RowIsCurrent(a.quote, row, a.sends)
    BY <2>2, <2>3 DEF RowIsCurrent, StatusIsCurrent
  <2>9. InFlight(id, b)
    BY <1>2, <1>3, <2>5, <2>7, <2>8, OwnRow, <1>4 DEF InFlight
  <2> QED
    BY <1>2, <2>5, <2>6, <2>9, ReadJ
<1>5. CASE UpdateLoad(r) /\ ~Exists(a.quote)
  <2>1. Finish(r)
    BY <1>1, <1>5 DEF UpdateLoad
  <2> QED
    BY <1>2, <2>1, FinishJ
<1>6. CASE Recalculate(r) /\ Exists(a.quote)
  <2>1. PICK row : row = quote[a.quote]
    OBVIOUS
  <2>2. row \in Row /\ Holds(id, a.quote, row) /\ RowIsCurrent(a.quote, row, a.sends) /\ Created(a.quote)
    BY <1>3, <1>6, <2>1, OwnRow DEF Request
  <2>3. PICK b : b = [a EXCEPT !.pc = "save", !.row = row]
    OBVIOUS
  <2>4. /\ b \in Request /\ b.pc = "save" /\ b.row = row /\ b.quote = a.quote /\ b.stale = a.stale /\ b.sends = a.sends
        /\ b.origin = a.origin /\ b.originRow = a.originRow /\ b.originStale = a.originStale
    BY <2>2, <2>3 DEF Request
  <2>5. req' = [req EXCEPT ![r] = b]
    BY <1>1, <1>6, <2>1, <2>3 DEF Recalculate
  <2>6. InFlight(id, b)
    BY <1>2, <1>3, <2>2, <2>4 DEF InFlight
  <2> QED
    BY <1>2, <2>4, <2>5, <2>6, ReadJ
<1>7. CASE Recalculate(r) /\ ~Exists(a.quote)
  <2>1. req' = Rest(r)
    BY <1>1, <1>7 DEF Recalculate
  <2>2. PICK b \in Request : InFlight(id, b) /\ Rest(r) = [req EXCEPT ![r] = b]
    BY RestShape
  <2> QED
    BY <1>2, <2>1, <2>2, ReadJ
<1> QED
  BY <1>4, <1>5, <1>6, <1>7

(***************************************************************************)
(* Rows that are written.                                                  *)
(***************************************************************************)
\* A row of q is written that refers to what exists.
LEMMA RowsKept ==
    ASSUME NEW id, NEW id2, J(id), Grows(id, id2), NEW q \in Quotes, NEW row \in Row,
           quote' = [quote EXCEPT ![q] = row], row.status \in QuoteStatus,
           RowOf(id2, q, row)', row.next # NoQuote => Exists(row.next)
    PROVE  /\ Rows(id2)' /\ quote' \in [Quotes -> Row]
           /\ \A p \in Quotes : quote'[p] = IF p = q THEN row ELSE quote[p]
<1>1. quote' \in [Quotes -> Row] /\ \A p \in Quotes : quote'[p] = IF p = q THEN row ELSE quote[p]
  BY DEF J, TypeOK
<1>2. \A p \in Quotes : Exists(p) => Exists(p)'
  BY <1>1 DEF Exists
<1>3. ASSUME NEW p \in Quotes, Exists(p)'
      PROVE  RowOf(id2, p, quote[p])'
  <2>1. CASE p = q
    BY <1>1, <2>1 DEF RowOf, Created
  <2>2. CASE p # q
    <3>1. PICK old \in Row : old = quote[p]
      BY DEF J, TypeOK
    <3>2. Exists(p) /\ quote'[p] = old
      BY <1>1, <1>3, <2>2, <3>1 DEF Exists
    <3>3. RowOf(id, p, old) /\ Created(p)
      BY <3>1, <3>2, RowTyped DEF J, Rows, Exists, Created
    <3>4. RowOf(id2, p, old)'
      BY <3>3, RowOfKept
    <3> QED
      BY <3>2, <3>4 DEF RowOf, Created
  <2> QED
    BY <2>1, <2>2
<1>4. ASSUME NEW p \in Quotes, quote'[p].next # NoQuote
      PROVE  Exists(p)' /\ Exists(quote[p].next)'
  <2>1. CASE p = q
    <3>1. row.next \in Quotes /\ Exists(row.next)
      BY <1>1, <1>4, <2>1 DEF Row
    <3> QED
      BY <1>1, <1>2, <2>1, <3>1 DEF Exists
  <2>2. CASE p # q
    <3>1. quote'[p] = quote[p] /\ quote[p] \in Row
      BY <1>1, <2>2 DEF J, TypeOK
    <3>2. quote[p].next \in Quotes /\ Exists(p) /\ Exists(quote[p].next)
      BY <1>4, <3>1 DEF J, Rows, Row
    <3> QED
      BY <1>2, <3>1, <3>2 DEF Exists
  <2> QED
    BY <2>1, <2>2
<1> QED
  BY <1>1, <1>3, <1>4 DEF Rows

LEMMA HappensEffect ==
    ASSUME TypeOK, NEW q \in Quotes, NEW next \in Past, NEW loses \in BOOLEAN, Happens(q, next, loses)
    PROVE  /\ past' \in [Quotes -> Past]
           /\ past'[q] = IF loses \/ past[q].lost THEN Lost ELSE next
           /\ \A p \in Quotes \ {q} : past'[p] = past[p]
BY OthersTyped DEF Happens, TypeOK

\* What happened to a quote stays true of a row with the same status and reminders.
LEMMA PastUntouched ==
    ASSUME NEW p \in Quotes, PastKept(p), past'[p] = past[p], UNCHANGED reminder,
           quote'[p].status = quote[p].status, quote'[p].reminders = quote[p].reminders
    PROVE  PastKept(p)'
BY DEF PastKept, Marks, Created, Exists

\* A row that exists is written, keeping its number and its references, while what
\* happened to it is brought up to date.
LEMMA UpdateJ ==
    ASSUME NEW id, J(id), NEW q \in Quotes, Exists(q), NEW row \in Row,
           row.status \in QuoteStatus, row.base = quote[q].base, row.rev = quote[q].rev, row.next = quote[q].next,
           Write([quote EXCEPT ![q] = row], req),
           past' \in [Quotes -> Past], \A p \in Quotes \ {q} : past'[p] = past[p],
           \A p \in Quotes \ {q} : Marks(p)' = Marks(p), PastKept(q)',
           answer' \in [Clients -> Quotes \cup {NoQuote}], expiry' \in Quotes \cup {NoQuote}, reminder' \in Reminder,
           ReminderHolds'
    PROVE  J(id)'
<1>1. quote' = [quote EXCEPT ![q] = row]
  BY DEF Write
<1>2. Grows(id, id)
  BY <1>1, RowTyped DEF Grows, Created, Exists, J, TypeOK
<1>3. RowOf(id, q, row) /\ Created(q)
  BY OwnRow DEF RowOf, Holds
<1>4. RowOf(id, q, row)'
  BY <1>2, <1>3, RowOfKept
<1>5. row.next # NoQuote => Exists(row.next)
  BY DEF J, Rows
<1>6. Rows(id)' /\ quote' \in [Quotes -> Row] /\ \A p \in Quotes : quote'[p] = IF p = q THEN row ELSE quote[p]
  BY <1>1, <1>2, <1>4, <1>5, RowsKept
<1>7. req' \in [Reqs -> Request] /\ \A r \in Reqs : InFlight(id, req[r])'
  <2>1. PICK rows : rows = [quote EXCEPT ![q] = row]
    OBVIOUS
  <2>2. PICK reqs : reqs = req
    OBVIOUS
  <2>3. reqs \in [Reqs -> Request] /\ \A r \in Reqs : InFlight(id, reqs[r])
    BY <2>2 DEF J, TypeOK
  <2>4. Write(rows, reqs)
    BY <2>1, <2>2
  <2> QED
    BY <1>2, <2>3, <2>4, WriteKept
<1>8. TypeOK'
  BY <1>6, <1>7 DEF TypeOK
<1>9. \A p \in Quotes : PastKept(p)'
  BY <1>6 DEF J, PastKept, Created, Exists
<1> QED
  BY <1>6, <1>7, <1>8, <1>9 DEF J

\* Reminders are counted well while nobody mails one.
LEMMA ReminderKept ==
    ASSUME TypeOK, ReminderHolds, UNCHANGED reminder, past' \in [Quotes -> Past],
           \A p \in Quotes : Created(p) => Created(p)',
           \A p \in Quotes : past'[p].mails = past[p].mails \/ past'[p].mails = 0
    PROVE  ReminderHolds'
<1> SUFFICES ASSUME reminder.pc # "idle"
             PROVE  ReminderHolds'
  BY DEF ReminderHolds
<1>1. PICK q \in Quotes : q = reminder.quote
  BY DEF ReminderHolds
<1>2. PICK m : m = past[q].mails
  OBVIOUS
<1>3. PICK n : n = past'[q].mails
  OBVIOUS
<1>4. reminder.seen \in Nat /\ m \in Nat /\ n \in Nat /\ (n = m \/ n = 0)
  BY <1>2, <1>3 DEF TypeOK, Reminder, Past
<1>5. m <= reminder.seen + Marks(q) /\ Marks(q) \in {0, 1} /\ Marks(q)' = Marks(q)
  BY <1>1, <1>2 DEF ReminderHolds, Marks
<1>6. n <= reminder.seen + Marks(q)
  BY <1>4, <1>5
<1> QED
  BY <1>1, <1>3, <1>5, <1>6 DEF ReminderHolds, Marks

(***************************************************************************)
(* The client.                                                             *)
(***************************************************************************)
LEMMA DecideJ == ASSUME NEW id, J(id), NEW c \in Clients, Decide(c) PROVE J(id)'
<1>1. ASSUME NEW q \in Quotes, DecideRead(c, q)
      PROVE  J(id)'
  <2>1. UNCHANGED <<quote, past, req, expiry, reminder>> /\ answer' \in [Clients -> Quotes \cup {NoQuote}]
    BY <1>1 DEF DecideRead, jobs, J, TypeOK
  <2> QED
    BY <2>1 DEF J, TypeOK, Rows, RowOf, InFlight, Holds, RowIsCurrent, StatusIsCurrent, PastKept, ReminderHolds, Marks, Created, Exists
<1>2. CASE DecideUpdate(c)
  <2>1. answer[c] \in Quotes
    BY <1>2 DEF DecideUpdate, J, TypeOK
  <2>2. answer' \in [Clients -> Quotes \cup {NoQuote}] /\ UNCHANGED <<expiry, reminder>>
    BY <1>2 DEF DecideUpdate, jobs, J, TypeOK
  <2>3. CASE ~Awaits(answer[c])
    <3>1. UNCHANGED <<quote, past, req>>
      BY <1>2, <2>3 DEF DecideUpdate
    <3> QED
      BY <2>2, <3>1 DEF J, TypeOK, Rows, RowOf, InFlight, Holds, RowIsCurrent, StatusIsCurrent, PastKept, ReminderHolds, Marks, Created, Exists
  <2>4. CASE Awaits(answer[c])
    <3>1. PICK q \in Quotes : q = answer[c]
      BY <2>1
    <3>2. PICK row : row = [quote[q] EXCEPT !.status = "decided"]
      OBVIOUS
    <3>3. PICK next : next = [past[q] EXCEPT !.answers = IF @ < 2 THEN @ + 1 ELSE 2]
      OBVIOUS
    <3>4. Write([quote EXCEPT ![q] = row], req) /\ Happens(q, next, FALSE) /\ quote[q].status = "sent"
      BY <1>2, <2>4, <3>1, <3>2, <3>3 DEF DecideUpdate, Awaits
    <3>5. Exists(q) /\ quote[q] \in Row /\ past[q] \in Past /\ PastKept(q) /\ past[q].answers = 0
      BY <3>4, RowTyped DEF J, TypeOK, Exists, PastKept
    <3>6. /\ row \in Row /\ row.status = "decided" /\ row.status \in QuoteStatus /\ row.base = quote[q].base
          /\ row.rev = quote[q].rev /\ row.next = quote[q].next /\ row.reminders = quote[q].reminders
      BY <3>2, <3>5, RowTyped DEF Row
    <3>7. next \in Past /\ next.answers = 1 /\ next.mails = past[q].mails /\ next.lost = past[q].lost
      BY <3>3, <3>5 DEF Past
    <3>8. /\ past' \in [Quotes -> Past] /\ \A p \in Quotes \ {q} : past'[p] = past[p]
          /\ past'[q] = IF past[q].lost THEN Lost ELSE next
      BY <3>4, <3>7, HappensEffect DEF J
    <3>9. quote'[q] = row
      BY <3>4 DEF Write, J, TypeOK
    <3>10. past'[q].mails = past[q].mails \/ past'[q].mails = 0
      BY <3>7, <3>8, OthersTyped
    <3>11. PastKept(q)'
      <4>1. CASE past[q].lost
        BY <2>2, <3>5, <3>6, <3>8, <3>9, <4>1, OthersTyped, RowTyped, ConstantsAssumption DEF PastKept, Marks, Created, Exists, Row
      <4>2. CASE ~past[q].lost
        BY <2>2, <3>5, <3>6, <3>7, <3>8, <3>9, <4>2, RowTyped DEF PastKept, Marks, Created, Exists
      <4> QED
        BY <4>1, <4>2
    <3>12. ReminderHolds'
      <4>1. \A p \in Quotes : Created(p) => Created(p)'
        BY <3>4, <3>6, RowTyped DEF Write, Created, J, TypeOK
      <4>2. \A p \in Quotes : past'[p].mails = past[p].mails \/ past'[p].mails = 0
        BY <3>8, <3>10
      <4> QED
        BY <2>2, <3>8, <4>1, <4>2, ReminderKept DEF J
    <3>13. \A p \in Quotes \ {q} : Marks(p)' = Marks(p)
      BY <2>2 DEF Marks
    <3>14. expiry' \in Quotes \cup {NoQuote} /\ reminder' \in Reminder
      BY <2>2 DEF J, TypeOK
    <3> QED
      BY <2>2, <3>4, <3>5, <3>6, <3>8, <3>11, <3>12, <3>13, <3>14, UpdateJ
  <2> QED
    BY <2>3, <2>4
<1> QED
  BY <1>1, <1>2 DEF Decide

(***************************************************************************)
(* save(row).                                                              *)
(***************************************************************************)
LEMMA SaveJ == ASSUME NEW id, J(id), NEW r \in Reqs, Save(r) PROVE J(id)'
<1>1. PICK a \in Request : a = req[r] /\ InFlight(id, a) /\ a.pc = "save"
  BY DEF J, TypeOK, Save, At
<1>2. PICK q \in Quotes : q = a.quote
  BY <1>1 DEF InFlight
<1>3. PICK row \in Row : row = a.row
  BY DEF Request
<1>4. Holds(id, q, row) /\ (~a.stale => RowIsCurrent(q, row, a.sends)) /\ Created(q)
  BY <1>1, <1>2, <1>3 DEF InFlight, Holds
<1>5. PICK next : next = IF a.sends THEN Fresh ELSE past[q]
  OBVIOUS
<1>6. /\ Happens(q, next, a.stale) /\ UNCHANGED <<answer, expiry, reminder>>
      /\ \/ Savable(q, row) /\ Write([quote EXCEPT ![q] = row], Rest(r))
         \/ Finish(r) /\ UNCHANGED quote
  BY <1>1, <1>2, <1>3, <1>5 DEF Save, others, jobs
<1>7. past[q] \in Past /\ next \in Past /\ a.stale \in BOOLEAN /\ a.sends \in BOOLEAN /\ PastKept(q)
  BY <1>5, OthersTyped DEF J, TypeOK, Request
<1>8. /\ past' \in [Quotes -> Past] /\ \A p \in Quotes \ {q} : past'[p] = past[p]
      /\ past'[q] = IF a.stale \/ past[q].lost THEN Lost ELSE next
  BY <1>6, <1>7, HappensEffect DEF J
<1>9. past'[q] \in {Lost, Fresh} \/ (past'[q] = past[q] /\ ~a.stale /\ ~a.sends)
  BY <1>5, <1>7, <1>8
<1>10. \A p \in Quotes : past'[p].mails = past[p].mails \/ past'[p].mails = 0
  BY <1>8, <1>9, OthersTyped
<1>11. CASE Finish(r) /\ UNCHANGED quote
  <2>1. PICK b \in Request : b = Idle /\ InFlight(id, b)
    BY IdleTyped, IdleInFlight
  <2>2. req' = [req EXCEPT ![r] = b]
    BY <1>11, <2>1 DEF Finish
  <2>3. req' \in [Reqs -> Request] /\ \A p \in Reqs : InFlight(id, req'[p])
    BY <2>1, <2>2 DEF J, TypeOK
  <2>4. \A p \in Reqs : InFlight(id, req[p])'
    BY <1>11, <2>3 DEF InFlight, Holds, RowOf, RowIsCurrent, StatusIsCurrent, Created, Exists
  <2>5. TypeOK' /\ Rows(id)'
    BY <1>6, <1>8, <1>11, <2>3 DEF J, TypeOK, Rows, RowOf, Created, Exists
  <2>6. ReminderHolds'
    BY <1>6, <1>8, <1>10, <1>11, ReminderKept DEF J, Created
  <2>7. PastKept(q)'
    <3>1. CASE past'[q] = past[q]
      BY <1>6, <1>7, <1>11, <3>1 DEF PastKept, Marks, Created, Exists
    <3>2. CASE past'[q] \in {Lost, Fresh}
      BY <1>6, <1>11, <3>2, OthersTyped, ConstantsAssumption DEF PastKept, Marks, Created, Exists, J, TypeOK, Row
    <3> QED
      BY <1>9, <3>1, <3>2
  <2>8. \A p \in Quotes : PastKept(p)'
    BY <1>6, <1>8, <1>11, <2>7 DEF J, PastKept, Marks, Created, Exists
  <2> QED
    BY <2>3, <2>4, <2>5, <2>6, <2>8 DEF J
<1>12. CASE Savable(q, row) /\ Write([quote EXCEPT ![q] = row], Rest(r))
  <2>1. quote' = [quote EXCEPT ![q] = row] /\ row.status \in QuoteStatus /\ RowOf(id, q, row)
    BY <1>4, <1>12 DEF Write, Holds
  <2>2. Grows(id, id)
    BY <2>1, RowTyped DEF Grows, Created, J, TypeOK
  <2>3. RowOf(id, q, row)'
    BY <1>4, <2>1, <2>2, RowOfKept
  <2>4. row.next # NoQuote => Exists(row.next)
    BY <1>12 DEF Savable
  <2>5. Rows(id)' /\ quote' \in [Quotes -> Row] /\ \A p \in Quotes : quote'[p] = IF p = q THEN row ELSE quote[p]
    BY <2>1, <2>2, <2>3, <2>4, RowsKept
  <2>6. req' \in [Reqs -> Request] /\ \A p \in Reqs : InFlight(id, req[p])'
    <3>1. PICK b \in Request : InFlight(id, b) /\ Rest(r) = [req EXCEPT ![r] = b]
      BY RestShape
    <3>2. PICK rows : rows = [quote EXCEPT ![q] = row]
      OBVIOUS
    <3>3. PICK reqs : reqs = [req EXCEPT ![r] = b]
      OBVIOUS
    <3>4. reqs \in [Reqs -> Request] /\ \A p \in Reqs : InFlight(id, reqs[p])
      BY <3>1, <3>3 DEF J, TypeOK
    <3>5. Write(rows, reqs)
      BY <1>12, <3>1, <3>2, <3>3
    <3> QED
      BY <2>2, <3>4, <3>5, WriteKept
  <2>7. TypeOK'
    BY <1>6, <1>8, <2>5, <2>6 DEF J, TypeOK
  <2>8. ReminderHolds'
    BY <1>6, <1>8, <1>10, <2>2, ReminderKept DEF J, Grows
  <2>9. PastKept(q)'
    <3>1. CASE past'[q] = past[q] /\ ~a.stale /\ ~a.sends
      <4>1. Exists(q) /\ (row.status = "sent" => quote[q].status = "sent") /\ row.reminders = quote[q].reminders
        BY <1>4, <3>1 DEF RowIsCurrent, StatusIsCurrent
      <4>2. quote'[q].status = row.status /\ quote'[q].reminders = quote[q].reminders /\ row.status # "none"
        BY <2>1, <2>5, <4>1, RowTyped
      <4> QED
        BY <1>6, <1>7, <3>1, <4>1, <4>2 DEF PastKept, Marks, Created, Exists
    <3>2. CASE past'[q] \in {Lost, Fresh}
      BY <1>6, <2>5, <3>2, OthersTyped, ConstantsAssumption DEF PastKept, Marks, Created, Exists, Row
    <3> QED
      BY <1>9, <3>1, <3>2
  <2>10. \A p \in Quotes : PastKept(p)'
    BY <1>6, <1>8, <2>5, <2>9 DEF J, PastKept, Marks, Created, Exists
  <2> QED
    BY <2>5, <2>6, <2>7, <2>8, <2>10 DEF J
<1> QED
  BY <1>6, <1>11, <1>12

(***************************************************************************)
(* A quote that did not exist: created, or the revision of another.        *)
(***************************************************************************)
LEMMA NewRow ==
    ASSUME NEW id, J(id), NEW q \in Quotes, ~Created(q),
           NEW row \in Row, row.status \in QuoteStatus, row.next = NoQuote, row.reminders = 0,
           quote' = [quote EXCEPT ![q] = row], UNCHANGED <<past, reminder>>,
           NEW id2, id2 = [id EXCEPT ![q] = [base |-> row.base, rev |-> row.rev]]
    PROVE  /\ id2 \in Ids /\ Grows(id, id2) /\ id2[q].base = row.base /\ id2[q].rev = row.rev
           /\ Rows(id2)' /\ quote' \in [Quotes -> Row] /\ Created(q)'
           /\ \A p \in Quotes : quote'[p] = IF p = q THEN row ELSE quote[p]
           /\ \A p \in Quotes : PastKept(p)'
           /\ ReminderHolds'
<1>1. row.base \in Families \cup {NoFamily} /\ row.rev \in 0..MaxRevision
  BY DEF Row
<1>2. id2 \in Ids /\ id2[q].base = row.base /\ id2[q].rev = row.rev /\ \A p \in Quotes \ {q} : id2[p] = id[p]
  BY <1>1 DEF J, Ids
<1>3. Grows(id, id2)
  BY <1>2 DEF Grows, Created, J, TypeOK
<1>4. RowOf(id2, q, row)'
  BY <1>2 DEF RowOf
<1>5. Rows(id2)' /\ quote' \in [Quotes -> Row] /\ \A p \in Quotes : quote'[p] = IF p = q THEN row ELSE quote[p]
  BY <1>3, <1>4, RowsKept
<1>6. Created(q)'
  BY <1>5, RowTyped DEF Created
<1>7. past[q].answers = 0 /\ past[q].mails = 0
  BY DEF J, PastKept, Created
<1>8. PastKept(q)'
  BY <1>5, <1>6, <1>7, ConstantsAssumption DEF PastKept, Marks
<1>9. \A p \in Quotes : PastKept(p)'
  BY <1>5, <1>8, PastUntouched DEF J
<1>10. ReminderHolds'
  <2>1. past' \in [Quotes -> Past] /\ TypeOK /\ ReminderHolds
    BY DEF J, TypeOK
  <2>2. \A p \in Quotes : Created(p) => Created(p)'
    BY <1>3 DEF Grows
  <2> QED
    BY <2>1, <2>2, ReminderKept
<1> QED
  BY <1>2, <1>3, <1>5, <1>6, <1>9, <1>10

LEMMA CreateJ ==
    ASSUME NEW id, J(id), NEW r \in Reqs, NEW q \in Quotes, NEW base \in Families, Create(r, q, base)
    PROVE  IInv'
<1>1. PICK status \in QuoteStatus :
         /\ quote' = [quote EXCEPT ![q] = [NoRow EXCEPT !.status = status, !.base = base, !.rev = 1]]
         /\ req' = [req EXCEPT ![r] = [Idle EXCEPT !.pc = "recalculate", !.quote = q]]
         /\ ~Created(q)
         /\ UNCHANGED <<past, answer, expiry, reminder>>
  BY DEF Create, Begin, others, jobs, Created
<1>2. PICK row : row = [NoRow EXCEPT !.status = status, !.base = base, !.rev = 1]
  OBVIOUS
<1>3. /\ row \in Row /\ row.status \in QuoteStatus /\ row.next = NoQuote /\ row.reminders = 0
  BY <1>2, RowTyped, NumbersTyped DEF Row
<1>4. PICK id2 : id2 = [id EXCEPT ![q] = [base |-> row.base, rev |-> row.rev]]
  OBVIOUS
<1>5. quote' = [quote EXCEPT ![q] = row]
  BY <1>1, <1>2
<1>6. /\ id2 \in Ids /\ Grows(id, id2) /\ Rows(id2)' /\ quote' \in [Quotes -> Row] /\ Created(q)'
      /\ \A p \in Quotes : quote'[p] = IF p = q THEN row ELSE quote[p]
      /\ \A p \in Quotes : PastKept(p)'
      /\ ReminderHolds'
  <2>1. UNCHANGED <<past, reminder>> /\ ~Created(q)
    BY <1>1
  <2> QED
    BY <1>3, <1>4, <1>5, <2>1, NewRow
<1>7. ASSUME NEW a \in Request, InFlight(id, a)
      PROVE  InFlight(id2, a)'
  <2>1. PICK b : b = [a EXCEPT !.stale = a.stale, !.originStale = a.originStale]
    OBVIOUS
  <2>2. b = a /\ a.stale \in BOOLEAN /\ a.originStale \in BOOLEAN
    BY <2>1 DEF Request
  <2>3. a.pc \in {"load", "save", "revise"} => quote'[a.quote] = quote[a.quote]
    BY <1>1, <1>6, <1>7 DEF InFlight
  <2>4. a.origin # NoQuote => quote'[a.origin] = quote[a.origin]
    BY <1>1, <1>6, <1>7 DEF InFlight, Holds
  <2>5. InFlight(id2, b)'
    BY <1>6, <1>7, <2>1, <2>2, <2>3, <2>4, InFlightKept
  <2> QED
    BY <2>2, <2>5
<1>8. PICK b \in Request : /\ b = [Idle EXCEPT !.pc = "recalculate", !.quote = q]
                           /\ b.pc = "recalculate" /\ b.quote = q /\ b.origin = NoQuote
  <2>1. PICK b : b = [Idle EXCEPT !.pc = "recalculate", !.quote = q]
    OBVIOUS
  <2>2. b \in Request /\ b.pc = "recalculate" /\ b.quote = q /\ b.origin = NoQuote
    BY <2>1, IdleTyped DEF Request
  <2> QED
    BY <2>1, <2>2
<1>9. InFlight(id2, b)'
  BY <1>6, <1>8 DEF InFlight
<1>10. req' \in [Reqs -> Request] /\ \A p \in Reqs : req'[p] = IF p = r THEN b ELSE req[p]
  BY <1>1, <1>8 DEF J, TypeOK
<1>11. ASSUME NEW p \in Reqs
       PROVE  InFlight(id2, req[p])'
  <2>1. PICK a \in Request : a = req'[p] /\ InFlight(id2, a)'
    <3>1. CASE p = r
      BY <1>8, <1>9, <1>10, <3>1
    <3>2. CASE p # r
      <4>1. req[p] \in Request /\ InFlight(id, req[p])
        BY DEF J, TypeOK
      <4>2. PICK a \in Request : a = req[p] /\ InFlight(id, a)
        BY <4>1
      <4> QED
        BY <1>7, <1>10, <3>2, <4>2
    <3> QED
      BY <3>1, <3>2
  <2> QED
    BY <2>1 DEF InFlight, Holds, RowOf, RowIsCurrent, StatusIsCurrent, Created, Exists
<1>12. TypeOK'
  BY <1>1, <1>6, <1>10 DEF J, TypeOK
<1> QED
  BY <1>6, <1>11, <1>12 DEF J, IInv

\* A request after a Write: what may be stale is.
Restaled(a, s, os) == [a EXCEPT !.stale = s, !.originStale = os]

LEMMA WriteOne ==
    ASSUME NEW rows, NEW reqs, NEW r \in Reqs, Write(rows, reqs), NEW a \in Request, a = reqs[r]
    PROVE  \E s \in BOOLEAN : \E os \in BOOLEAN :
              /\ req'[r] = Restaled(a, s, os)
              /\ ~s => ~a.stale
              /\ ~os => ~a.originStale
<1>1. PICK s \in BOOLEAN : s = (a.stale \/ (a.pc \in {"load", "save", "revise"} /\ Changes(a.quote, rows)))
  BY DEF Request
<1>2. PICK os \in BOOLEAN : os = (a.originStale \/ Changes(a.origin, rows))
  BY DEF Request
<1>3. req'[r] = [reqs[r] EXCEPT
                    !.stale = \/ reqs[r].stale
                              \/ reqs[r].pc \in {"load", "save", "revise"} /\ Changes(reqs[r].quote, rows),
                    !.originStale = reqs[r].originStale \/ Changes(reqs[r].origin, rows)]
  BY Zenon DEF Write
<1>4. req'[r] = [a EXCEPT !.stale = s, !.originStale = os]
  BY <1>1, <1>2, <1>3, Zenon
<1>5. (~s => ~a.stale) /\ (~os => ~a.originStale)
  BY <1>1, <1>2, Zenon
<1> QED
  BY <1>4, <1>5 DEF Restaled

LEMMA ReviseInsertJ ==
    ASSUME NEW id, J(id), NEW r \in Reqs, NEW n \in Quotes, ReviseInsert(r, n)
    PROVE  IInv'
<1>1. PICK a \in Request : a = req[r] /\ InFlight(id, a) /\ a.pc = "revise"
  BY DEF J, TypeOK, ReviseInsert, At
<1>2. PICK q \in Quotes : q = a.quote
  BY <1>1 DEF InFlight
<1>3. PICK origin \in Row : origin = a.row
  BY DEF Request
<1>4. /\ Holds(id, q, origin) /\ Created(q) /\ origin.rev < MaxRevision
      /\ ~a.stale => RowIsCurrent(q, origin, FALSE)
  BY <1>1, <1>2, <1>3 DEF InFlight, Holds, Request
<1>5. UNCHANGED <<past, answer, expiry, reminder>> /\ ~Created(n)
  BY DEF ReviseInsert, others, jobs, Created
<1>6. CASE Finish(r) /\ UNCHANGED quote
  BY <1>5, <1>6, FinishJ DEF others, jobs, IInv
<1>7. CASE ~(Finish(r) /\ UNCHANGED quote)
  <2>1. PICK row : row = [NoRow EXCEPT !.status = "draft", !.base = origin.base, !.rev = origin.rev + 1]
    OBVIOUS
  <2>2. PICK b : b = [Idle EXCEPT !.pc = "recalculate", !.quote = n, !.origin = q,
                          !.originRow = [origin EXCEPT !.next = n], !.originStale = a.stale]
    OBVIOUS
  <2>3. PICK rows : rows = [quote EXCEPT ![n] = row]
    OBVIOUS
  <2>4. PICK reqs : reqs = [req EXCEPT ![r] = b]
    OBVIOUS
  <2>5. Write(rows, reqs)
    BY <1>1, <1>2, <1>3, <1>7, <2>1, <2>2, <2>3, <2>4 DEF ReviseInsert
  <2>6. origin.rev + 1 \in 0..MaxRevision /\ origin.base \in Families \cup {NoFamily}
    BY <1>4, ConstantsAssumption DEF Row
  <2>7. /\ row \in Row /\ row.status = "draft" /\ row.status \in QuoteStatus /\ row.next = NoQuote
        /\ row.reminders = 0 /\ row.base = origin.base /\ row.rev = origin.rev + 1
    BY <2>1, <2>6, RowTyped, NumbersTyped DEF Row
  <2>8. PICK id2 : id2 = [id EXCEPT ![n] = [base |-> row.base, rev |-> row.rev]]
    OBVIOUS
  <2>9. quote' = [quote EXCEPT ![n] = row]
    BY <2>3, <2>5 DEF Write
  <2>10. /\ id2 \in Ids /\ Grows(id, id2) /\ id2[n].base = row.base /\ id2[n].rev = row.rev
         /\ Rows(id2)' /\ quote' \in [Quotes -> Row] /\ Created(n)'
         /\ \A p \in Quotes : quote'[p] = IF p = n THEN row ELSE quote[p]
         /\ \A p \in Quotes : PastKept(p)'
         /\ ReminderHolds'
    <3>1. UNCHANGED <<past, reminder>> /\ ~Created(n)
      BY <1>5
    <3>2. row \in Row /\ row.status \in QuoteStatus /\ row.next = NoQuote /\ row.reminders = 0
      BY <2>7
    <3>3. id2[n].base = row.base /\ id2[n].rev = row.rev
      BY <2>8 DEF J, Ids
    <3>4. /\ id2 \in Ids /\ Grows(id, id2) /\ Rows(id2)' /\ quote' \in [Quotes -> Row] /\ Created(n)'
          /\ \A p \in Quotes : quote'[p] = IF p = n THEN row ELSE quote[p]
          /\ \A p \in Quotes : PastKept(p)'
          /\ ReminderHolds'
      BY <2>8, <2>9, <3>1, <3>2, NewRow
    <3> QED
      BY <3>3, <3>4
  <2>11. PICK originRow : originRow = [origin EXCEPT !.next = n]
    OBVIOUS
  <2>12. /\ originRow \in Row /\ originRow.status = origin.status /\ originRow.base = origin.base
         /\ originRow.rev = origin.rev /\ originRow.next = n /\ originRow.reminders = origin.reminders
    BY <2>11 DEF Row
  <2>13. /\ b \in Request /\ b.pc = "recalculate" /\ b.quote = n /\ b.origin = q /\ b.originRow = originRow
         /\ b.originStale = a.stale
    BY <2>2, <2>11, <2>12, IdleTyped DEF Request
  <2>14. reqs \in [Reqs -> Request] /\ \A p \in Reqs : reqs[p] = IF p = r THEN b ELSE req[p]
    BY <2>4, <2>13 DEF J, TypeOK
  <2>15. ASSUME NEW p \in Reqs \ {r}
         PROVE  req'[p] \in Request /\ InFlight(id2, req[p])'
    <3>1. InFlight(id, reqs[p])
      BY <2>14 DEF J
    <3> QED
      BY <2>5, <2>10, <2>14, <3>1, WriteOneKept
  <2>16. PICK c : c = req'[r]
    OBVIOUS
  <2>17. c \in Request /\ InFlight(id2, c)'
    <3>1. \E s \in BOOLEAN : \E os \in BOOLEAN :
              /\ req'[r] = Restaled(b, s, os) /\ (~s => ~b.stale) /\ (~os => ~b.originStale)
      <4>1. b = reqs[r] /\ b \in Request
        BY <2>13, <2>14
      <4> QED
        BY <2>5, <4>1, WriteOne
    <3>2. PICK s \in BOOLEAN : \E os \in BOOLEAN :
              c = Restaled(b, s, os) /\ (~os => ~b.originStale)
      BY <2>16, <3>1
    <3>3. PICK os \in BOOLEAN : c = Restaled(b, s, os) /\ (~os => ~b.originStale)
      BY <3>2
    <3>4. /\ c \in Request /\ c.pc = "recalculate" /\ c.quote = n /\ c.origin = q /\ c.originRow = originRow
          /\ c.originStale = os /\ (~os => ~a.stale)
      BY <2>13, <3>3 DEF Request, Restaled
    <3>5. Holds(id2, q, originRow)'
      <4>1. q # n /\ id2[q] = id[q] /\ Created(q)'
        BY <1>4, <1>5, <2>10 DEF Grows
      <4>2. originRow.status \in QuoteStatus /\ origin.base = id[q].base /\ origin.rev = id[q].rev
        BY <1>4, <2>12 DEF Holds, RowOf
      <4>3. RowOf(id2, q, originRow)'
        <5>1. id2[n].rev > id2[q].rev
          BY <2>7, <2>10, <4>1, <4>2 DEF Row
        <5> QED
          BY <2>7, <2>10, <2>12, <4>1, <4>2, <5>1 DEF RowOf
      <4> QED
        BY <4>1, <4>2, <4>3 DEF Holds
    <3>6. ~os => RowIsCurrent(q, originRow, FALSE)'
      <4>1. q # n /\ quote'[q] = quote[q]
        BY <1>4, <1>5, <2>10
      <4>2. ~os => RowIsCurrent(q, originRow, FALSE)
        BY <1>4, <2>12, <3>4 DEF RowIsCurrent, StatusIsCurrent
      <4> QED
        BY <4>1, <4>2, CurrentKept
    <3> QED
      BY <2>10, <3>4, <3>5, <3>6 DEF InFlight
  <2>18. req' = [p \in Reqs |-> req'[p]]
    BY <2>5 DEF Write
  <2>19. \A p \in Reqs : req'[p] \in Request /\ InFlight(id2, req[p])'
    <3>1. InFlight(id2, req[r])'
      BY <2>16, <2>17 DEF InFlight, Holds, RowOf, RowIsCurrent, StatusIsCurrent, Created, Exists
    <3> QED
      BY <2>15, <2>16, <2>17, <3>1
  <2>20. TypeOK'
    BY <1>5, <2>10, <2>18, <2>19 DEF J, TypeOK
  <2> QED
    BY <2>10, <2>19, <2>20 DEF J, IInv
<1> QED
  BY <1>6, <1>7

(***************************************************************************)
(* remove.                                                                 *)
(***************************************************************************)
LEMMA RemoveJ == ASSUME NEW id, J(id), NEW q \in Quotes, Remove(q) PROVE J(id)'
<1>1. PICK rows : rows = [p \in Quotes |->
                 CASE p = q -> [NoRow EXCEPT !.status = "deleted"]
                   [] p # q /\ quote[p].next = q -> [quote[p] EXCEPT !.next = NoQuote]
                   [] OTHER -> quote[p]]
  OBVIOUS
<1>2. Exists(q) /\ Write(rows, req) /\ UNCHANGED <<past, answer, expiry, reminder>>
  BY <1>1 DEF Remove, others, jobs
<1>3. quote' = rows
  BY <1>2 DEF Write
<1>4. quote'[q] \in Row /\ quote'[q].status = "deleted" /\ quote'[q].next = NoQuote
  <2>1. quote'[q] = [NoRow EXCEPT !.status = "deleted"]
    BY <1>1, <1>3
  <2> QED
    BY <2>1, RowTyped DEF Row
<1>5. ASSUME NEW p \in Quotes \ {q}
      PROVE  /\ quote'[p] \in Row /\ quote'[p].status = quote[p].status /\ quote'[p].base = quote[p].base
             /\ quote'[p].rev = quote[p].rev /\ quote'[p].reminders = quote[p].reminders
             /\ quote'[p].next # NoQuote => quote'[p].next = quote[p].next /\ quote[p].next # q
  <2>1. PICK old \in Row : old = quote[p]
    BY DEF J, TypeOK
  <2>2. CASE old.next = q
    <3>1. quote'[p] = [old EXCEPT !.next = NoQuote]
      BY <1>1, <1>3, <2>1, <2>2
    <3> QED
      BY <2>1, <3>1 DEF Row
  <2>3. CASE old.next # q
    <3>1. quote'[p] = old
      BY <1>1, <1>3, <2>1, <2>3
    <3> QED
      BY <2>1, <2>3, <3>1
  <2> QED
    BY <2>2, <2>3
<1>6. quote' \in [Quotes -> Row]
  <2>1. \A p \in Quotes : rows[p] \in Row
    BY <1>3, <1>4, <1>5
  <2> QED
    BY <1>1, <1>3, <2>1
<1>7. Grows(id, id)
  BY <1>2, <1>4, <1>5, RowTyped DEF Grows, Created, Exists
<1>8. ASSUME NEW p \in Quotes, Exists(p)'
      PROVE  RowOf(id, p, quote[p])'
  <2>1. p # q
    BY <1>4, <1>8, RowTyped DEF Exists
  <2>2. RowOf(id, p, quote[p]) /\ Exists(p) /\ quote[p] \in Row
    BY <1>5, <1>8, <2>1 DEF J, TypeOK, Rows, Exists
  <2>3. ASSUME quote'[p].next # NoQuote
        PROVE  Created(quote[p].next)' /\ id[quote'[p].next].base = id[p].base /\ id[quote'[p].next].rev > id[p].rev
    <3>1. PICK n : n = quote[p].next
      OBVIOUS
    <3>2. quote'[p].next = n /\ n \in Quotes /\ Created(n) /\ id[n].base = id[p].base /\ id[n].rev > id[p].rev
      BY <1>5, <2>1, <2>2, <2>3, <3>1 DEF RowOf, Row
    <3> QED
      BY <1>7, <3>2 DEF Grows, Created
  <2> QED
    BY <1>5, <2>1, <2>2, <2>3 DEF RowOf, Created
<1>9. ASSUME NEW p \in Quotes, quote'[p].next # NoQuote
      PROVE  Exists(p)' /\ Exists(quote[p].next)'
  <2>1. p # q
    BY <1>4, <1>9
  <2>2. PICK n : n = quote[p].next
    OBVIOUS
  <2>3. quote'[p].next = n /\ n # q /\ n \in Quotes /\ Exists(p) /\ Exists(n)
    BY <1>5, <1>9, <2>1, <2>2 DEF J, TypeOK, Rows, Row
  <2> QED
    BY <1>5, <2>1, <2>3 DEF Exists
<1>10. Rows(id)'
  BY <1>8, <1>9 DEF Rows
<1>11. req' \in [Reqs -> Request] /\ \A r \in Reqs : InFlight(id, req[r])'
  <2>1. PICK reqs : reqs = req
    OBVIOUS
  <2>2. reqs \in [Reqs -> Request] /\ \A r \in Reqs : InFlight(id, reqs[r])
    BY <2>1 DEF J, TypeOK
  <2>3. Write(rows, reqs)
    BY <1>2, <2>1
  <2> QED
    BY <1>7, <2>2, <2>3, WriteKept
<1>12. TypeOK'
  BY <1>2, <1>6, <1>11 DEF J, TypeOK
<1>13. PastKept(q)'
  BY <1>2, <1>4, RowTyped DEF J, PastKept, Created, Exists
<1>14. \A p \in Quotes : PastKept(p)'
  <2>1. ASSUME NEW p \in Quotes \ {q}
        PROVE  PastKept(p)'
    BY <1>2, <1>5, PastUntouched DEF J
  <2> QED
    BY <1>13, <2>1
<1>15. ReminderHolds'
  <2>1. past' \in [Quotes -> Past] /\ UNCHANGED reminder /\ \A p \in Quotes : past'[p].mails = past[p].mails
    BY <1>2 DEF J, TypeOK
  <2>2. \A p \in Quotes : Created(p) => Created(p)'
    BY <1>7 DEF Grows
  <2> QED
    BY <2>1, <2>2, ReminderKept DEF J
<1> QED
  BY <1>10, <1>11, <1>12, <1>14, <1>15 DEF J

(***************************************************************************)
(* The jobs.                                                               *)
(***************************************************************************)
\* A job that writes no row.
LEMMA JobReadJ ==
    ASSUME NEW id, J(id), UNCHANGED <<quote, answer, req>>, past' \in [Quotes -> Past],
           expiry' \in Quotes \cup {NoQuote}, reminder' \in Reminder,
           \A q \in Quotes : PastKept(q)', ReminderHolds'
    PROVE  J(id)'
BY DEF J, TypeOK, Rows, RowOf, InFlight, Holds, RowIsCurrent, StatusIsCurrent, Created, Exists

LEMMA ExpireReadJ == ASSUME NEW id, J(id), NEW q \in Quotes, ExpireRead(q) PROVE J(id)'
<1>1. UNCHANGED <<quote, past, answer, req, reminder>> /\ expiry' \in Quotes \cup {NoQuote}
  BY DEF ExpireRead
<1>2. (\A p \in Quotes : PastKept(p)') /\ ReminderHolds'
  BY <1>1 DEF J, PastKept, ReminderHolds, Marks, Created, Exists
<1>3. past' \in [Quotes -> Past] /\ reminder' \in Reminder
  BY <1>1 DEF J, TypeOK
<1> QED
  BY <1>1, <1>2, <1>3, JobReadJ

LEMMA ExpireUpdateJ == ASSUME NEW id, J(id), ExpireUpdate PROVE J(id)'
<1>1. PICK q \in Quotes : q = expiry
  BY DEF ExpireUpdate, J, TypeOK
<1>2. expiry' \in Quotes \cup {NoQuote} /\ UNCHANGED <<answer, reminder>>
  BY DEF ExpireUpdate
<1>3. CASE ~Exists(q)
  <2>1. UNCHANGED <<quote, past, req>>
    BY <1>1, <1>3 DEF ExpireUpdate
  <2>2. (\A p \in Quotes : PastKept(p)') /\ ReminderHolds'
    BY <1>2, <2>1 DEF J, PastKept, ReminderHolds, Marks, Created, Exists
  <2>3. past' \in [Quotes -> Past] /\ reminder' \in Reminder
    BY <1>2, <2>1 DEF J, TypeOK
  <2> QED
    BY <1>2, <2>1, <2>2, <2>3, JobReadJ
<1>4. CASE Exists(q)
  <2>1. PICK row : row = [quote[q] EXCEPT !.status = "expired"]
    OBVIOUS
  <2>2. PICK loses \in BOOLEAN : loses = (quote[q].status \notin {"draft", "sent"})
    OBVIOUS
  <2>3. PICK next : next = past[q]
    OBVIOUS
  <2>4. Write([quote EXCEPT ![q] = row], req) /\ Happens(q, next, loses)
    <3>1. Write([quote EXCEPT ![q].status = "expired"], req)
          /\ Happens(q, past[q], quote[q].status \notin {"draft", "sent"})
      BY <1>1, <1>4 DEF ExpireUpdate
    <3> QED
      BY <2>1, <2>2, <2>3, <3>1
  <2>5. quote[q] \in Row /\ next \in Past /\ PastKept(q)
    BY <2>3 DEF J, TypeOK
  <2>6. /\ row \in Row /\ row.status = "expired" /\ row.status \in QuoteStatus /\ row.base = quote[q].base
        /\ row.rev = quote[q].rev /\ row.next = quote[q].next /\ row.reminders = quote[q].reminders
    BY <2>1, <2>5, RowTyped DEF Row
  <2>7. /\ past' \in [Quotes -> Past] /\ \A p \in Quotes \ {q} : past'[p] = past[p]
        /\ past'[q] = Lost \/ past'[q] = past[q]
    BY <2>3, <2>4, <2>5, HappensEffect DEF J
  <2>8. quote'[q] = row
    BY <2>4 DEF Write, J, TypeOK
  <2>9. PastKept(q)'
    <3>1. CASE past'[q] = Lost
      BY <1>2, <2>6, <2>8, <3>1, OthersTyped, RowTyped, ConstantsAssumption DEF PastKept, Marks, Created, Exists, Row
    <3>2. CASE past'[q] = past[q]
      BY <1>2, <1>4, <2>5, <2>6, <2>8, <3>2, RowTyped DEF PastKept, Marks, Created, Exists
    <3> QED
      BY <2>7, <3>1, <3>2
  <2>10. ReminderHolds'
    <3>1. \A p \in Quotes : Created(p) => Created(p)'
      BY <2>4, <2>6, RowTyped DEF Write, Created, J, TypeOK
    <3>2. \A p \in Quotes : past'[p].mails = past[p].mails \/ past'[p].mails = 0
      BY <2>7, OthersTyped
    <3> QED
      BY <1>2, <2>7, <3>1, <3>2, ReminderKept DEF J
  <2>11. \A p \in Quotes \ {q} : Marks(p)' = Marks(p)
    BY <1>2 DEF Marks
  <2>12. answer' \in [Clients -> Quotes \cup {NoQuote}] /\ reminder' \in Reminder
    BY <1>2 DEF J, TypeOK
  <2> QED
    BY <1>2, <1>4, <2>4, <2>6, <2>7, <2>9, <2>10, <2>11, <2>12, UpdateJ
<1> QED
  BY <1>3, <1>4

LEMMA RemindReadJ == ASSUME NEW id, J(id), NEW q \in Quotes, RemindRead(q) PROVE J(id)'
<1>1. /\ UNCHANGED <<quote, past, answer, req, expiry>> /\ reminder.pc = "idle"
      /\ reminder' = [pc |-> "mail", quote |-> q, seen |-> quote[q].reminders]
      /\ quote[q].status = "sent" /\ quote[q].reminders < MaxReminders
  BY DEF RemindRead, Pending
<1>2. quote[q].reminders \in 0..MaxReminders /\ Created(q) /\ Exists(q)
  BY <1>1, RowTyped DEF J, TypeOK, Row, Created, Exists
<1>3. reminder' \in Reminder /\ reminder'.pc = "mail" /\ reminder'.quote = q /\ reminder'.seen = quote[q].reminders
  BY <1>1, <1>2 DEF Reminder
<1>4. \A p \in Quotes : Marks(p) = 0 /\ Marks(p)' = 0
  BY <1>1, <1>3 DEF Marks
<1>5. \A p \in Quotes : PastKept(p)'
  BY <1>1, <1>4 DEF J, PastKept, Created, Exists
<1>6. ReminderHolds'
  <2>1. past[q].mails <= quote[q].reminders + 0
    BY <1>2, <1>4 DEF J, PastKept
  <2> QED
    BY <1>1, <1>2, <1>3, <1>4, <2>1 DEF ReminderHolds, Created
<1>7. past' \in [Quotes -> Past] /\ expiry' \in Quotes \cup {NoQuote}
  BY <1>1 DEF J, TypeOK
<1> QED
  BY <1>1, <1>3, <1>5, <1>6, <1>7, JobReadJ

LEMMA RemindMailJ == ASSUME NEW id, J(id), RemindMail PROVE J(id)'
<1>1. reminder.pc = "mark" \/ reminder.pc = "mail"
  BY DEF RemindMail
<1>2. PICK q \in Quotes : q = reminder.quote
  BY <1>1 DEF J, ReminderHolds
<1>3. PICK next : next = [past[q] EXCEPT !.mails = IF past[q].mails <= MaxReminders THEN past[q].mails + 1
                                                   ELSE past[q].mails]
  OBVIOUS
<1>4. /\ Happens(q, next, FALSE) /\ reminder.pc = "mail" /\ reminder' = [reminder EXCEPT !.pc = "mark"]
      /\ UNCHANGED <<quote, answer, req, expiry>>
  BY <1>2, <1>3 DEF RemindMail
<1>5. PICK m \in Nat : m = past[q].mails
  BY DEF J, TypeOK, Past
<1>6. reminder \in Reminder /\ reminder.seen \in Nat /\ reminder.seen < MaxReminders /\ MaxReminders \in Nat
  BY <1>4, ConstantsAssumption DEF J, TypeOK, Reminder, ReminderHolds
<1>7. m <= reminder.seen /\ Created(q)
  BY <1>2, <1>4, <1>5, <1>6 DEF J, ReminderHolds, Marks
<1>8. m + 1 <= MaxReminders /\ m <= MaxReminders /\ m + 1 \in 0..(MaxReminders + 1)
  BY <1>6, <1>7
<1>9. /\ next \in Past /\ next.mails = m + 1 /\ next.answers = past[q].answers /\ next.lost = past[q].lost
      /\ past[q] \in Past
  BY <1>3, <1>5, <1>8 DEF J, TypeOK, Past
<1>10. /\ past' \in [Quotes -> Past] /\ \A p \in Quotes \ {q} : past'[p] = past[p]
       /\ past'[q] = IF past[q].lost THEN Lost ELSE next
  BY <1>4, <1>9, HappensEffect DEF J
<1>11. reminder' \in Reminder /\ reminder'.pc = "mark" /\ reminder'.quote = q /\ reminder'.seen = reminder.seen
  BY <1>2, <1>4, <1>6 DEF Reminder
<1>12. /\ Marks(q) = 0 /\ Marks(q)' = 1
       /\ \A p \in Quotes \ {q} : Marks(p)' = Marks(p)
  BY <1>4, <1>11, <1>2 DEF Marks
<1>13. PastKept(q)'
  <2>1. CASE past[q].lost
    BY <1>4, <1>10, <1>11, <1>12, <2>1, OthersTyped, ConstantsAssumption DEF J, TypeOK, Row, PastKept, Created, Exists
  <2>2. CASE ~past[q].lost
    <3>1. quote[q].reminders \in Nat /\ (Exists(q) => m <= quote[q].reminders)
      BY <1>5, <1>12 DEF J, TypeOK, Row, PastKept
    <3>2. past'[q].mails = m + 1 /\ past'[q].answers = past[q].answers /\ ~past'[q].lost
      BY <1>9, <1>10, <2>2
    <3> QED
      BY <1>4, <1>7, <1>8, <1>12, <3>1, <3>2 DEF J, PastKept, Created, Exists
  <2> QED
    BY <2>1, <2>2
<1>14. \A p \in Quotes : PastKept(p)'
  BY <1>4, <1>10, <1>12, <1>13 DEF J, PastKept, Created, Exists
<1>15. ReminderHolds'
  <2>1. past'[q].mails <= reminder.seen + 1
    BY <1>6, <1>7, <1>9, <1>10, OthersTyped
  <2> QED
    BY <1>4, <1>6, <1>7, <1>11, <1>12, <2>1 DEF ReminderHolds, Created
<1>16. expiry' \in Quotes \cup {NoQuote}
  BY <1>4 DEF J, TypeOK
<1> QED
  BY <1>4, <1>10, <1>11, <1>14, <1>15, <1>16, JobReadJ

LEMMA RemindMarkJ == ASSUME NEW id, J(id), RemindMark PROVE J(id)'
<1>1. reminder.pc = "mark" /\ reminder' = IdleReminder /\ UNCHANGED <<answer, expiry>>
  BY DEF RemindMark
<1>2. PICK q \in Quotes : q = reminder.quote
  BY <1>1 DEF J, ReminderHolds
<1>3. PICK seen \in Nat : seen = reminder.seen
  BY DEF J, TypeOK, Reminder
<1>4. seen < MaxReminders /\ past[q].mails <= seen + 1 /\ Marks(q) = 1
  BY <1>1, <1>2, <1>3 DEF J, ReminderHolds, Marks
<1>5. reminder' \in Reminder /\ ReminderHolds' /\ expiry' \in Quotes \cup {NoQuote}
  BY <1>1, OthersTyped DEF ReminderHolds, J, TypeOK
<1>6. Marks(q)' = 0 /\ \A p \in Quotes \ {q} : Marks(p) = 0 /\ Marks(p)' = 0
  BY <1>1, <1>2, OthersTyped DEF Marks
<1>7. CASE ~Exists(q)
  <2>1. UNCHANGED <<quote, past, req>>
    BY <1>2, <1>7 DEF RemindMark
  <2>2. \A p \in Quotes : PastKept(p)'
    BY <1>6, <1>7, <2>1 DEF J, PastKept, Created, Exists
  <2>3. past' \in [Quotes -> Past]
    BY <2>1 DEF J, TypeOK
  <2> QED
    BY <1>1, <1>5, <2>1, <2>2, <2>3, JobReadJ
<1>8. CASE Exists(q)
  <2>1. PICK row : row = [quote[q] EXCEPT !.reminders = seen + 1]
    OBVIOUS
  <2>2. PICK loses \in BOOLEAN : loses = (quote[q].reminders # seen)
    OBVIOUS
  <2>3. PICK next : next = past[q]
    OBVIOUS
  <2>4. Write([quote EXCEPT ![q] = row], req) /\ Happens(q, next, loses)
    <3>1. /\ Write([quote EXCEPT ![q].reminders = seen + 1], req)
          /\ Happens(q, past[q], quote[q].reminders # seen)
      BY <1>2, <1>3, <1>8 DEF RemindMark
    <3> QED
      BY <2>1, <2>2, <2>3, <3>1
  <2>5. quote[q] \in Row /\ next \in Past /\ PastKept(q) /\ seen + 1 \in 0..MaxReminders
    BY <1>4, <2>3, ConstantsAssumption DEF J, TypeOK
  <2>6. /\ row \in Row /\ row.status = quote[q].status /\ row.base = quote[q].base
        /\ row.rev = quote[q].rev /\ row.next = quote[q].next /\ row.reminders = seen + 1
    BY <2>1, <2>5 DEF Row
  <2>7. /\ past' \in [Quotes -> Past] /\ \A p \in Quotes \ {q} : past'[p] = past[p]
        /\ past'[q] = Lost \/ past'[q] = past[q]
    BY <2>3, <2>4, <2>5, HappensEffect DEF J
  <2>8. quote'[q] = row
    BY <2>4 DEF Write, J, TypeOK
  <2>9. PastKept(q)'
    <3>1. CASE past'[q] = Lost
      BY <1>6, <2>6, <2>8, <3>1, OthersTyped, RowTyped, ConstantsAssumption DEF PastKept, Created, Exists, Row
    <3>2. CASE past'[q] = past[q]
      BY <1>4, <1>6, <1>8, <2>5, <2>6, <2>8, <3>2, RowTyped DEF PastKept, Created, Exists
    <3> QED
      BY <2>7, <3>1, <3>2
  <2>10. \A p \in Quotes \ {q} : Marks(p)' = Marks(p)
    BY <1>6
  <2>11. answer' \in [Clients -> Quotes \cup {NoQuote}]
    BY <1>1 DEF J, TypeOK
  <2>12. row.status \in QuoteStatus
    BY <1>8, <2>6 DEF Exists
  <2> QED
    BY <1>5, <1>8, <2>4, <2>6, <2>7, <2>9, <2>10, <2>11, <2>12, UpdateJ
<1> QED
  BY <1>7, <1>8

(***************************************************************************)
(* The process stops and starts again.                                     *)
(***************************************************************************)
LEMMA RestartJ == ASSUME NEW id, J(id), Restart PROVE J(id)'
<1>1. /\ UNCHANGED quote /\ answer' = [c \in Clients |-> NoQuote] /\ req' = [r \in Reqs |-> Idle]
      /\ expiry' = NoQuote /\ reminder' = IdleReminder
  BY DEF Restart
<1>2. ASSUME NEW q \in Quotes
      PROVE  past'[q] = Lost \/ (past'[q] = past[q] /\ ~(reminder.pc = "mark" /\ reminder.quote = q))
  BY DEF Restart
<1>3. past' = [q \in Quotes |-> past'[q]]
  BY DEF Restart
<1>4. past' \in [Quotes -> Past]
  <2>1. \A q \in Quotes : past'[q] \in Past
    BY <1>2, OthersTyped DEF J, TypeOK
  <2> QED
    BY <1>3, <2>1
<1>5. req' \in [Reqs -> Request] /\ reminder' \in Reminder
  BY <1>1, IdleTyped, OthersTyped
<1>6. TypeOK'
  BY <1>1, <1>4, <1>5 DEF J, TypeOK
<1>7. Rows(id)'
  BY <1>1 DEF J, Rows, RowOf, Created, Exists
<1>8. \A r \in Reqs : InFlight(id, req[r])'
  <2>1. \A r \in Reqs : req'[r] = Idle
    BY <1>1
  <2> QED
    BY <2>1, IdleTyped DEF InFlight
<1>9. ASSUME NEW q \in Quotes
      PROVE  PastKept(q)'
  <2>1. Marks(q)' = 0 /\ quote[q] \in Row
    BY <1>1, OthersTyped DEF Marks, J, TypeOK
  <2>2. CASE past'[q] = Lost
    BY <1>1, <2>1, <2>2, OthersTyped, ConstantsAssumption DEF PastKept, Created, Exists, Row
  <2>3. CASE past'[q] = past[q] /\ ~(reminder.pc = "mark" /\ reminder.quote = q)
    <3>1. Marks(q) = 0
      BY <2>3 DEF Marks
    <3> QED
      BY <1>1, <2>1, <2>3, <3>1 DEF J, PastKept, Created, Exists
  <2> QED
    BY <1>2, <2>2, <2>3
<1>10. ReminderHolds'
  BY <1>1, OthersTyped DEF ReminderHolds
<1> QED
  BY <1>6, <1>7, <1>8, <1>9, <1>10 DEF J

(***************************************************************************)
(* Every step, and the theorems.                                           *)
(***************************************************************************)
LEMMA NextIInv == IInv /\ [Next]_vars => IInv'
<1> SUFFICES ASSUME IInv, [Next]_vars PROVE IInv'
  OBVIOUS
<1>1. PICK id : J(id)
  BY DEF IInv
<1>2. ASSUME NEW c \in Clients, Decide(c)
      PROVE  IInv'
  BY <1>1, <1>2, DecideJ DEF IInv
<1>3. ASSUME NEW r \in Reqs, NEW q \in Quotes, NEW base \in Families, Create(r, q, base)
      PROVE  IInv'
  BY <1>1, <1>3, CreateJ
<1>4. ASSUME NEW r \in Reqs, NEW q \in Quotes,
             UpdateCheck(r, q) \/ ItemsCheck(r, q) \/ SendRead(r, q) \/ ConvertRead(r, q) \/ ReviseRead(r, q)
      PROVE  IInv'
  BY <1>1, <1>4, StartJ DEF IInv
<1>5. ASSUME NEW r \in Reqs, Save(r)
      PROVE  IInv'
  BY <1>1, <1>5, SaveJ DEF IInv
<1>6. ASSUME NEW r \in Reqs, UpdateLoad(r) \/ Recalculate(r)
      PROVE  IInv'
  BY <1>1, <1>6, LoadJ DEF IInv
<1>7. ASSUME NEW r \in Reqs, NEW n \in Quotes, ReviseInsert(r, n)
      PROVE  IInv'
  BY <1>1, <1>7, ReviseInsertJ
<1>8. ASSUME NEW q \in Quotes, Remove(q)
      PROVE  IInv'
  BY <1>1, <1>8, RemoveJ DEF IInv
<1>9. CASE Jobs
  BY <1>1, <1>9, ExpireReadJ, RemindReadJ, ExpireUpdateJ, RemindMailJ, RemindMarkJ DEF Jobs, IInv
<1>10. CASE Restart
  BY <1>1, <1>10, RestartJ DEF IInv
<1>11. CASE UNCHANGED vars
  <2>1. UNCHANGED <<quote, past, answer, req, expiry, reminder>>
    BY <1>11 DEF vars
  <2>2. J(id)'
    BY <1>1, <2>1 DEF J, TypeOK, Rows, RowOf, InFlight, Holds, RowIsCurrent, StatusIsCurrent, PastKept, ReminderHolds,
                      Marks, Created, Exists
  <2> QED
    BY <2>2 DEF IInv
<1> QED
  BY <1>2, <1>3, <1>4, <1>5, <1>6, <1>7, <1>8, <1>9, <1>10, <1>11 DEF Next, Start, Continue

LEMMA SpecIInv == Spec => []IInv
BY InitIInv, NextIInv, PTL DEF Spec

\* The variables have their types.
THEOREM SpecTypeOK == Spec => []TypeOK
<1>1. IInv => TypeOK
  BY DEF IInv, J
<1> QED
  BY <1>1, SpecIInv, PTL

\* Whatever is saved late, revised twice or deleted, a quote that was replaced
\* names a later revision of its family, which exists.
THEOREM SpecSupersededByLater == Spec => []SupersededByLater
<1>1. IInv => SupersededByLater
  <2> SUFFICES ASSUME NEW id, J(id), NEW q \in Quotes, quote[q].next # NoQuote
               PROVE  LET n == quote[q].next
                      IN  Exists(n) /\ quote[n].base = quote[q].base /\ quote[n].rev > quote[q].rev
    BY DEF IInv, SupersededByLater
  <2>1. PICK n \in Quotes : n = quote[q].next
    BY DEF J, TypeOK, Row
  <2>2. Exists(q) /\ Exists(n) /\ RowOf(id, q, quote[q]) /\ RowOf(id, n, quote[n])
    BY <2>1 DEF J, Rows
  <2> QED
    BY <2>1, <2>2 DEF RowOf
<1> QED
  BY <1>1, SpecIInv, PTL

\* decide: unless something was written over it, a quote is answered once for
\* each time it is sent.
THEOREM SpecAnsweredOnce == Spec => []AnsweredOnce
<1>1. IInv => AnsweredOnce
  BY DEF IInv, J, PastKept, AnsweredOnce
<1> QED
  BY <1>1, SpecIInv, PTL

\* remindPendingQuotes: unless the count was written over, the client gets no
\* more reminders of one sending than the maximum.
THEOREM SpecRemindersWithinMax == Spec => []RemindersWithinMax
<1>1. IInv => RemindersWithinMax
  BY DEF IInv, J, PastKept, RemindersWithinMax
<1> QED
  BY <1>1, SpecIInv, PTL
=============================================================================
