------------------------------- MODULE Quotes -------------------------------
(***************************************************************************)
(* The life of a quote in stp-api: written, sent, reminded, answered by    *)
(* the client through the link of the mail, expired by a job, edited by    *)
(* the staff, revised, deleted.                                            *)
(*                                                                         *)
(* Clients, staff and jobs run at the same time, one SQL statement after   *)
(* another.  Most operations of the staff read a row, change it and save   *)
(* it whole, so a save may overwrite what happened since the row was read. *)
(* The model keeps, for each quote, whether that happened to it, or a      *)
(* second write of an operation never came: what the code promises of      *)
(* answers and reminders is stated for the quotes to which neither         *)
(* happened.                                                               *)
(*                                                                         *)
(* Dates are not modelled: the job may find any open quote past its date,  *)
(* and any pending one due for a reminder.                                 *)
(***************************************************************************)
EXTENDS Integers, FiniteSets

CONSTANTS
    Quotes,        \* rows of quotes
    Families,      \* base numbers
    MaxRevision,   \* bound on the revisions of a family
    MaxReminders,  \* reminders of one sending
    Clients,       \* answers in flight at the same time
    Reqs,          \* requests of the staff in flight at the same time
    NoQuote, NoFamily

ASSUME ConstantsAssumption ==
    /\ NoQuote \notin Quotes
    /\ NoFamily \notin Families
    /\ MaxRevision \in Nat \ {0}
    /\ MaxReminders \in Nat \ {0}

VARIABLES
    quote,     \* table quotes
    past,      \* what happened to each quote
    answer,    \* answers in flight: the quote each has read
    req,       \* requests of the staff in flight
    expiry,    \* the job expireOverdueQuotes
    reminder   \* the job remindPendingQuotes

vars == <<quote, past, answer, req, expiry, reminder>>

(***************************************************************************)
(* Types.                                                                  *)
(***************************************************************************)
\* "decided" stands for "approved" and for "rejected", which allow the same.
QuoteStatus == {"draft", "sent", "decided", "expired"}
Revisable == QuoteStatus \ {"draft"}

Row ==
    [status: QuoteStatus \cup {"none", "deleted"}, base: Families \cup {NoFamily},
     rev: 0..MaxRevision, next: Quotes \cup {NoQuote}, reminders: 0..MaxReminders]
Request ==
    [pc: {"idle", "load", "save", "recalculate", "revise"},
     quote: Quotes \cup {NoQuote}, row: Row, sends: BOOLEAN, stale: BOOLEAN,
     origin: Quotes \cup {NoQuote}, originRow: Row, originStale: BOOLEAN]
Reminder ==
    [pc: {"idle", "mail", "mark"}, quote: Quotes \cup {NoQuote}, seen: 0..MaxReminders]

\* How many times the client answered since the quote was last sent and how
\* many reminders were mailed since then, with a bound past what is allowed, and
\* was it written over?  After that the rest is not kept.
Past == [answers: 0..2, mails: 0..(MaxReminders + 1), lost: BOOLEAN]

NoRow == [status |-> "none", base |-> NoFamily, rev |-> 0, next |-> NoQuote, reminders |-> 0]
Idle ==
    [pc |-> "idle", quote |-> NoQuote, row |-> NoRow, sends |-> FALSE, stale |-> FALSE,
     origin |-> NoQuote, originRow |-> NoRow, originStale |-> FALSE]
IdleReminder == [pc |-> "idle", quote |-> NoQuote, seen |-> 0]
Fresh == [answers |-> 0, mails |-> 0, lost |-> FALSE]
Lost == [Fresh EXCEPT !.lost = TRUE]

TypeOK ==
    /\ quote \in [Quotes -> Row]
    /\ past \in [Quotes -> Past]
    /\ answer \in [Clients -> Quotes \cup {NoQuote}]
    /\ req \in [Reqs -> Request]
    /\ expiry \in Quotes \cup {NoQuote}
    /\ reminder \in Reminder

Init ==
    /\ quote = [q \in Quotes |-> NoRow]
    /\ past = [q \in Quotes |-> Fresh]
    /\ answer = [c \in Clients |-> NoQuote]
    /\ req = [r \in Reqs |-> Idle]
    /\ expiry = NoQuote
    /\ reminder = IdleReminder

jobs == <<expiry, reminder>>
others == <<answer, jobs>>   \* what a request of the staff leaves alone

(***************************************************************************)
(* Helpers.                                                                *)
(***************************************************************************)
Exists(q) == quote[q].status \in QuoteStatus
Taken(base, rev) == \E q \in Quotes : Exists(q) /\ quote[q].base = base /\ quote[q].rev = rev

At(r, label) == req[r].pc = label
Finish(r) == req' = [req EXCEPT ![r] = Idle]

\* The table becomes rows and the requests reqs: those that will save a row
\* that changes now hold a stale one.
Changes(q, rows) == q # NoQuote /\ rows[q] # quote[q]
Write(rows, reqs) ==
    /\ quote' = rows
    /\ req' = [r \in Reqs |->
                  [reqs[r] EXCEPT
                      !.stale = \/ reqs[r].stale
                                \/ reqs[r].pc \in {"load", "save", "revise"} /\ Changes(reqs[r].quote, rows),
                      !.originStale = reqs[r].originStale \/ Changes(reqs[r].origin, rows)]]

\* The request ends, or goes on with the quote it is a revision of.
Rest(r) ==
    [req EXCEPT ![r] =
        IF req[r].origin = NoQuote THEN Idle
        ELSE [Idle EXCEPT !.pc = "save", !.quote = req[r].origin, !.row = req[r].originRow,
                          !.stale = req[r].originStale]]
Begin(r, next) == At(r, "idle") /\ req' = [req EXCEPT ![r] = next]

\* What happened to q, now with next, or lost.
Happens(q, next, loses) ==
    past' = [past EXCEPT ![q] = IF loses \/ past[q].lost THEN Lost ELSE next]

(***************************************************************************)
(* create, with a number no other quote has; the totals are saved later,   *)
(* with the whole row.                                                     *)
(***************************************************************************)
Create(r, q, base) ==
    /\ quote[q].status = "none"
    /\ ~Taken(base, 1)
    /\ \E status \in QuoteStatus :
          quote' = [quote EXCEPT ![q] = [NoRow EXCEPT !.status = status, !.base = base, !.rev = 1]]
    /\ Begin(r, [Idle EXCEPT !.pc = "recalculate", !.quote = q])
    /\ UNCHANGED <<past, others>>

(***************************************************************************)
(* decide: the row is read, then updated on condition that it is still     *)
(* waiting for an answer.                                                  *)
(***************************************************************************)
Awaits(q) == quote[q].status = "sent" /\ quote[q].next = NoQuote

DecideRead(c, q) ==
    /\ answer[c] = NoQuote
    /\ Awaits(q)
    /\ answer' = [answer EXCEPT ![c] = q]
    /\ UNCHANGED <<quote, past, req, jobs>>

\* Faulty variant: the UPDATE is by id.
DecideUpdateById(c) ==
    LET q == answer[c]
    IN  /\ q # NoQuote
        /\ IF Exists(q)
           THEN /\ Write([quote EXCEPT ![q].status = "decided"], req)
                /\ Happens(q, [past[q] EXCEPT !.answers = IF @ < 2 THEN @ + 1 ELSE 2], FALSE)
           ELSE UNCHANGED <<quote, past, req>>
        /\ answer' = [answer EXCEPT ![c] = NoQuote]
        /\ UNCHANGED jobs

DecideUpdate(c) ==
    LET q == answer[c]
    IN  /\ q # NoQuote
        /\ IF Awaits(q)
           THEN /\ Write([quote EXCEPT ![q].status = "decided"], req)
                /\ Happens(q, [past[q] EXCEPT !.answers = IF @ < 2 THEN @ + 1 ELSE 2], FALSE)
           ELSE UNCHANGED <<quote, past, req>>
        /\ answer' = [answer EXCEPT ![c] = NoQuote]
        /\ UNCHANGED jobs

(***************************************************************************)
(* save(row): the whole row.  A row deleted meanwhile is inserted again.   *)
(* The database refuses a number taken and a reference to nothing.         *)
(***************************************************************************)
Savable(q, row) ==
    /\ Exists(q) \/ ~Taken(row.base, row.rev)
    /\ row.next # NoQuote => Exists(row.next)

Save(r) ==
    LET q == req[r].quote
    IN  /\ At(r, "save")
        /\ IF Savable(q, req[r].row) THEN Write([quote EXCEPT ![q] = req[r].row], Rest(r))
           ELSE Finish(r) /\ UNCHANGED quote
        /\ Happens(q, IF req[r].sends THEN Fresh ELSE past[q],
                   req[r].stale)
        /\ UNCHANGED others

(***************************************************************************)
(* update, addItem, updateItem, removeItem and refreshAcuPrices ask        *)
(* assertEditable first; update then loads the row it will change, and the *)
(* others (an update without a status among them) the row whose totals     *)
(* they will save.                                                         *)
(***************************************************************************)
Editable(q, admin) ==
    /\ Exists(q)
    /\ quote[q].next = NoQuote
    /\ admin \/ quote[q].status # "decided"

UpdateCheck(r, q) ==
    /\ \E admin \in BOOLEAN, status \in QuoteStatus :
          /\ Editable(q, admin)
          /\ Begin(r, [Idle EXCEPT !.pc = "load", !.quote = q, !.row = [NoRow EXCEPT !.status = status],
                                   !.sends = (status = "sent" /\ quote[q].status # "sent")])
    /\ UNCHANGED <<quote, past, others>>

UpdateLoad(r) ==
    LET q == req[r].quote
        row == [quote[q] EXCEPT !.status = req[r].row.status,
                                !.reminders = IF req[r].sends THEN 0 ELSE quote[q].reminders]
    IN  /\ At(r, "load")
        /\ IF Exists(q)
           THEN req' = [req EXCEPT ![r] = [req[r] EXCEPT !.pc = "save", !.row = row]]
           ELSE Finish(r)
        /\ UNCHANGED <<quote, past, others>>

ItemsCheck(r, q) ==
    /\ \E admin \in BOOLEAN :
          /\ Editable(q, admin)
          /\ Begin(r, [Idle EXCEPT !.pc = "recalculate", !.quote = q])
    /\ UNCHANGED <<quote, past, others>>

Recalculate(r) ==
    LET q == req[r].quote
    IN  /\ At(r, "recalculate")
        /\ IF Exists(q)
           THEN req' = [req EXCEPT ![r] = [req[r] EXCEPT !.pc = "save", !.row = quote[q]]]
           ELSE req' = Rest(r)
        /\ UNCHANGED <<quote, past, others>>

(***************************************************************************)
(* sendEmail: a draft becomes sent; any other status is only mailed again. *)
(***************************************************************************)
SendRead(r, q) ==
    /\ quote[q].status = "draft"
    /\ quote[q].next = NoQuote
    /\ Begin(r, [Idle EXCEPT !.pc = "save", !.quote = q, !.sends = TRUE,
                             !.row = [quote[q] EXCEPT !.status = "sent", !.reminders = 0]])
    /\ UNCHANGED <<quote, past, others>>

\* convertToProject: an approved quote is saved as it was read, with its project,
\* which is not modelled.
ConvertRead(r, q) ==
    /\ quote[q].status = "decided"
    /\ quote[q].next = NoQuote
    /\ Begin(r, [Idle EXCEPT !.pc = "save", !.quote = q, !.row = quote[q]])
    /\ UNCHANGED <<quote, past, others>>

(***************************************************************************)
(* revise: the new revision is saved as a draft, its totals are saved with *)
(* its whole row, then the original is saved with its reference to it.     *)
(***************************************************************************)
ReviseRead(r, q) ==
    /\ quote[q].status \in Revisable
    /\ quote[q].next = NoQuote
    /\ quote[q].rev < MaxRevision
    /\ Begin(r, [Idle EXCEPT !.pc = "revise", !.quote = q, !.row = quote[q]])
    /\ UNCHANGED <<quote, past, others>>

\* The unique number refuses a revision that another request made first.
ReviseInsert(r, n) ==
    LET origin == req[r].row
    IN  /\ At(r, "revise")
        /\ quote[n].status = "none"
        /\ IF Taken(origin.base, origin.rev + 1)
           THEN Finish(r) /\ UNCHANGED quote
           ELSE Write([quote EXCEPT ![n] = [NoRow EXCEPT !.status = "draft", !.base = origin.base,
                                            !.rev = origin.rev + 1]],
                      [req EXCEPT ![r] = [Idle EXCEPT !.pc = "recalculate", !.quote = n, !.origin = req[r].quote,
                                              !.originRow = [origin EXCEPT !.next = n],
                                              !.originStale = req[r].stale]])
        /\ UNCHANGED <<past, others>>

\* Faulty variant: supersededById without its foreign key.
RemoveNoForeignKey(q) ==
    /\ Exists(q)
    /\ Write([quote EXCEPT ![q] = [NoRow EXCEPT !.status = "deleted"]], req)
    /\ UNCHANGED <<past, others>>

\* remove: the database clears the references to the quote.
Remove(q) ==
    /\ Exists(q)
    /\ Write([p \in Quotes |->
                 CASE p = q -> [NoRow EXCEPT !.status = "deleted"]
                   [] p # q /\ quote[p].next = q -> [quote[p] EXCEPT !.next = NoQuote]
                   [] OTHER -> quote[p]], req)
    /\ UNCHANGED <<past, others>>

(***************************************************************************)
(* expireOverdueQuotes: an open quote past its date is read, then updated  *)
(* by id.  The job does so for all of them; here for one at a time.        *)
(***************************************************************************)
ExpireRead(q) ==
    /\ expiry = NoQuote
    /\ quote[q].status \in {"draft", "sent"}
    /\ expiry' = q
    /\ UNCHANGED <<quote, past, answer, req, reminder>>

ExpireUpdate ==
    LET q == expiry
    IN  /\ q # NoQuote
        /\ IF Exists(q)
           THEN /\ Write([quote EXCEPT ![q].status = "expired"], req)
                /\ Happens(q, past[q], quote[q].status \notin {"draft", "sent"})
           ELSE UNCHANGED <<quote, past, req>>
        /\ expiry' = NoQuote
        /\ UNCHANGED <<answer, reminder>>

(***************************************************************************)
(* remindPendingQuotes: a quote is read, mailed, and then counted, from    *)
(* the count that was read.                                                *)
(***************************************************************************)
\* Faulty variant: one reminder too many.
PendingOffByOne == {q \in Quotes : quote[q].status = "sent" /\ quote[q].reminders <= MaxReminders}

Pending == {q \in Quotes : quote[q].status = "sent" /\ quote[q].reminders < MaxReminders}

RemindRead(q) ==
    /\ reminder.pc = "idle"
    /\ q \in Pending
    /\ reminder' = [pc |-> "mail", quote |-> q, seen |-> quote[q].reminders]
    /\ UNCHANGED <<quote, past, answer, req, expiry>>

RemindMail ==
    LET q == reminder.quote
    IN  /\ reminder.pc = "mail"
        /\ Happens(q, [past[q] EXCEPT !.mails = IF past[q].mails <= MaxReminders THEN past[q].mails + 1
                                                ELSE past[q].mails], FALSE)
        /\ reminder' = [reminder EXCEPT !.pc = "mark"]
        /\ UNCHANGED <<quote, answer, req, expiry>>

\* Faulty variant: only the date of the reminder is written.
RemindMarkDate ==
    /\ reminder.pc = "mark"
    /\ reminder' = IdleReminder
    /\ UNCHANGED <<quote, past, answer, req, expiry>>

RemindMark ==
    LET q == reminder.quote
    IN  /\ reminder.pc = "mark"
        /\ IF Exists(q)
           THEN /\ Write([quote EXCEPT ![q].reminders = reminder.seen + 1], req)
                /\ Happens(q, past[q], quote[q].reminders # reminder.seen)
           ELSE UNCHANGED <<quote, past, req>>
        /\ reminder' = IdleReminder
        /\ UNCHANGED <<answer, expiry>>

\* The process stops and starts again.  A quote whose second write never comes
\* counts as written over.
Restart ==
    /\ \/ expiry # NoQuote \/ reminder # IdleReminder
       \/ \E c \in Clients : answer[c] # NoQuote
       \/ \E r \in Reqs : ~At(r, "idle")
    /\ past' = [q \in Quotes |-> IF \/ reminder.pc = "mark" /\ reminder.quote = q
                                    \/ \E r \in Reqs : q = req[r].origin \/ (At(r, "save") /\ q = req[r].quote)
                                 THEN Lost ELSE past[q]]
    /\ answer' = [c \in Clients |-> NoQuote]
    /\ req' = [r \in Reqs |-> Idle]
    /\ expiry' = NoQuote
    /\ reminder' = IdleReminder
    /\ UNCHANGED quote

Start(r) ==
    \E q \in Quotes :
        \/ \E base \in Families : Create(r, q, base)
        \/ UpdateCheck(r, q) \/ ItemsCheck(r, q) \/ SendRead(r, q)
        \/ ConvertRead(r, q) \/ ReviseRead(r, q)

Continue(r) ==
    \/ Save(r) \/ UpdateLoad(r) \/ Recalculate(r)
    \/ \E n \in Quotes : ReviseInsert(r, n)

Jobs ==
    \/ \E q \in Quotes : ExpireRead(q) \/ RemindRead(q)
    \/ ExpireUpdate \/ RemindMail \/ RemindMark

Decide(c) == DecideUpdate(c) \/ \E q \in Quotes : DecideRead(c, q)

Next ==
    \/ \E c \in Clients : Decide(c)
    \/ \E r \in Reqs : Start(r) \/ Continue(r)
    \/ \E q \in Quotes : Remove(q)
    \/ Jobs
    \/ Restart

Spec == Init /\ [][Next]_vars

(***************************************************************************)
(* Safety.                                                                 *)
(***************************************************************************)
\* A quote that was replaced names a later revision of its family, which
\* exists: so following the references always ends at a current revision,
\* whatever is saved late, revised twice or deleted.
SupersededByLater ==
    \A q \in Quotes :
        quote[q].next # NoQuote =>
            LET n == quote[q].next
            IN  Exists(n) /\ quote[n].base = quote[q].base /\ quote[n].rev > quote[q].rev

\* decide: "un doble clic o dos aperturas a la vez no pueden aprobar y rechazar
\* a la vez".  Unless something was written over it, a quote is answered once
\* for each time it is sent.
AnsweredOnce == \A q \in Quotes : past[q].answers <= 1

\* remindPendingQuotes: "máximo 2 recordatorios por envío", unless the count was
\* written over.
RemindersWithinMax == \A q \in Quotes : past[q].mails <= MaxReminders
=============================================================================
