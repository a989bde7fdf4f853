------------------------------ MODULE Messaging ------------------------------
(***************************************************************************)
(* One conversation of the WhatsApp inbox.  The client writes; Meta        *)
(* delivers each message, in any order, as often as it likes, and several  *)
(* webhooks are handled at once; the staff answers; a job tells of the     *)
(* conversations nobody has answered.                                      *)
(*                                                                         *)
(* A message is identified by the time it was written, so a clock counts   *)
(* messages.  The contact exists already and is not a colleague; the       *)
(* automatic acknowledgement, the statuses of delivery and the attachments *)
(* are not modelled.  The database fails only while an answer that Meta    *)
(* took is recorded.                                                       *)
(***************************************************************************)
EXTENDS Integers, FiniteSets

CONSTANTS
    MaxTime,   \* bound on the messages of the conversation
    Hooks,     \* webhooks handled at the same time
    Staff,     \* answers in flight at the same time
    Overlap    \* may an answer overlap with a webhook, the job or another answer?

ASSUME ConstantsAssumption ==
    /\ MaxTime \in Nat \ {0}
    /\ Overlap \in BOOLEAN

VARIABLES
    clock,    \* time of the last message written
    message,  \* table wa_messages, and what the client wrote and was not saved yet
    contact,  \* row of wa_contacts
    hook,     \* webhooks being handled
    reply,    \* answers being sent
    job,      \* has escalateUnattended read the conversation?
    counted,  \* how many times each message was counted, 2 for more
    notices   \* notices of the job since the last answer, 2 for more

vars == <<clock, message, contact, hook, reply, job, counted, notices>>

(***************************************************************************)
(* Types.                                                                  *)
(***************************************************************************)
Times == 1..MaxTime
Stamp == 0..MaxTime
Contact == [last: Stamp, awaiting: BOOLEAN, escalated: BOOLEAN]

TypeOK ==
    /\ clock \in Stamp
    /\ message \in [Times -> {"none", "written", "in", "out", "failed"}]
    /\ contact \in Contact
    /\ hook \in [Hooks -> [pc: {"idle", "insert", "count"}, at: Stamp]]
    /\ reply \in [Staff -> [pc: {"idle", "meta", "contact"}, at: Stamp]]
    /\ job \in BOOLEAN
    /\ counted \in [Times -> 0..2]
    /\ notices \in 0..2

Idle == [pc |-> "idle", at |-> 0]

Init ==
    /\ clock = 0
    /\ message = [t \in Times |-> "none"]
    /\ contact = [last |-> 0, awaiting |-> FALSE, escalated |-> FALSE]
    /\ hook = [h \in Hooks |-> Idle]
    /\ reply = [s \in Staff |-> Idle]
    /\ job = FALSE
    /\ counted = [t \in Times |-> 0]
    /\ notices = 0

ghosts == <<counted, notices>>
OneMore(n) == IF n < 2 THEN n + 1 ELSE 2
Later(t, u) == IF t > u THEN t ELSE u
NoReply == \A s \in Staff : reply[s].pc = "idle"
Clear == Overlap \/ NoReply

(***************************************************************************)
(* The client.                                                             *)
(***************************************************************************)
Write ==
    /\ clock < MaxTime
    /\ clock' = clock + 1
    /\ message' = [message EXCEPT ![clock + 1] = "written"]
    /\ UNCHANGED <<contact, hook, reply, job, ghosts>>

(***************************************************************************)
(* ingestMessage.  A message that is saved is ignored; of two webhooks     *)
(* that pass the check the unique waId refuses one, and its handler ends.  *)
(***************************************************************************)
HookCheck(h, t) ==
    /\ Clear
    /\ hook[h].pc = "idle"
    /\ message[t] = "written"
    /\ hook' = [hook EXCEPT ![h] = [pc |-> "insert", at |-> t]]
    /\ UNCHANGED <<clock, message, contact, reply, job, ghosts>>

\* Faulty variant: waId is not unique.
HookInsertTwice(h) ==
    LET t == hook[h].at
    IN  /\ hook[h].pc = "insert"
        /\ message' = [message EXCEPT ![t] = "in"]
        /\ hook' = [hook EXCEPT ![h].pc = "count"]
        /\ UNCHANGED <<clock, contact, reply, job, ghosts>>

HookInsert(h) ==
    LET t == hook[h].at
    IN  /\ hook[h].pc = "insert"
        /\ IF message[t] = "written"
           THEN /\ message' = [message EXCEPT ![t] = "in"]
                /\ hook' = [hook EXCEPT ![h].pc = "count"]
           ELSE /\ hook' = [hook EXCEPT ![h] = Idle]
                /\ UNCHANGED message
        /\ UNCHANGED <<clock, contact, reply, job, ghosts>>

\* Faulty variant: every message marks the conversation, the oldest ones too.
CountedContactAlways(t) ==
    [contact EXCEPT !.last = t, !.awaiting = (t >= contact.last)]

CountedContact(t) ==
    [contact EXCEPT !.last = Later(t, contact.last),
                    !.awaiting = (contact.awaiting \/ t >= contact.last)]

HookCount(h) ==
    LET t == hook[h].at
    IN  /\ hook[h].pc = "count"
        /\ contact' = CountedContact(t)
        /\ counted' = [counted EXCEPT ![t] = OneMore(counted[t])]
        /\ hook' = [hook EXCEPT ![h] = Idle]
        /\ UNCHANGED <<clock, message, reply, job, notices>>

(***************************************************************************)
(* sendOutbound: the answer is saved, sent, and recorded in the contact.   *)
(* Free text may be sent to someone who has written.                       *)
(***************************************************************************)
MayReply(s) ==
    /\ reply[s].pc = "idle"
    /\ \E t \in Times : counted[t] > 0
    /\ clock < MaxTime
    /\ Overlap \/ (NoReply /\ ~job /\ \A h \in Hooks : hook[h].pc = "idle")

ReplySave(s) ==
    /\ MayReply(s)
    /\ clock' = clock + 1
    /\ message' = [message EXCEPT ![clock + 1] = "out"]
    /\ reply' = [reply EXCEPT ![s] = [pc |-> "meta", at |-> clock + 1]]
    /\ UNCHANGED <<contact, hook, job, ghosts>>

ReplyAccepted(s) ==
    /\ reply[s].pc = "meta"
    /\ reply' = [reply EXCEPT ![s].pc = "contact"]
    /\ UNCHANGED <<clock, message, contact, hook, job, ghosts>>

\* Meta refuses it, or the POST times out: Meta may have taken it all the same.
ReplyFailed(s) ==
    /\ reply[s].pc = "meta"
    /\ message' = [message EXCEPT ![reply[s].at] = "failed"]
    /\ reply' = [reply EXCEPT ![s] = Idle]
    /\ UNCHANGED <<clock, contact, hook, job, ghosts>>

\* Faulty variant: an answered conversation stays escalated.
AnsweredContactEscalated(t) ==
    [contact EXCEPT !.last = Later(t, contact.last), !.awaiting = FALSE]

AnsweredContact(t) ==
    [last |-> Later(t, contact.last), awaiting |-> FALSE, escalated |-> FALSE]

ReplyContact(s) ==
    /\ reply[s].pc = "contact"
    /\ contact' = AnsweredContact(reply[s].at)
    /\ notices' = 0
    /\ reply' = [reply EXCEPT ![s] = Idle]
    /\ UNCHANGED <<clock, message, hook, job, counted>>

\* Meta accepted it and the database fails: the contact does not know.
ReplyLost(s) ==
    /\ reply[s].pc = "contact"
    /\ reply' = [reply EXCEPT ![s] = Idle]
    /\ UNCHANGED <<clock, message, contact, hook, job, ghosts>>

(***************************************************************************)
(* escalateUnattended: the conversation is read, then marked by id and     *)
(* told of.  Half an hour may have passed, in working hours, at any time.  *)
(***************************************************************************)
EscalateRead ==
    /\ Clear
    /\ ~job
    /\ contact.awaiting /\ ~contact.escalated
    /\ job' = TRUE
    /\ UNCHANGED <<clock, message, contact, hook, reply, ghosts>>

\* Faulty variant: the conversation is told of, and not marked.
EscalateMarkNot ==
    /\ job
    /\ notices' = OneMore(notices)
    /\ job' = FALSE
    /\ UNCHANGED <<clock, message, contact, hook, reply, counted>>

EscalateMark ==
    /\ job
    /\ contact' = [contact EXCEPT !.escalated = TRUE]
    /\ notices' = OneMore(notices)
    /\ job' = FALSE
    /\ UNCHANGED <<clock, message, hook, reply, counted>>

HookWork(h) == HookInsert(h) \/ HookCount(h)
ReplyWork(s) == ReplyAccepted(s) \/ ReplyFailed(s) \/ ReplyContact(s) \/ ReplyLost(s)

Next ==
    \/ Write
    \/ \E h \in Hooks : HookWork(h) \/ \E t \in Times : HookCheck(h, t)
    \/ \E s \in Staff : ReplySave(s) \/ ReplyWork(s)
    \/ EscalateRead \/ EscalateMark

Spec == Init /\ [][Next]_vars

\* A handler, an answer and the job go on; the job runs again and again.
Fairness ==
    /\ \A h \in Hooks : WF_vars(HookWork(h))
    /\ \A s \in Staff : WF_vars(ReplyWork(s))
    /\ WF_vars(EscalateRead)
    /\ WF_vars(EscalateMark)

FairSpec == Spec /\ Fairness

(***************************************************************************)
(* Safety.                                                                 *)
(***************************************************************************)
\* ingestMessage: a message counts once, alerts once and is told to the copilot
\* once, however many webhooks bring it, one after another or at the same time.
CountedOnce == \A t \in Times : counted[t] <= 1

\* escalateUnattended: a conversation is told of once between two answers,
\* whatever is written, answered or delivered while the job runs.
EscalatedOnce == notices <= 1

\* "Los webhooks llegan desordenados": when nothing is under way and the last
\* message anyone saved is of the client, the conversation awaits an answer and
\* its last activity is that message, in whatever order the messages came.
WaitingIsSeen ==
    NoReply /\ (\A h \in Hooks : hook[h].pc = "idle") =>
        \A t \in Times :
            message[t] = "in" /\ (\A u \in Times : u > t => message[u] \notin {"in", "out"})
                => contact.awaiting /\ contact.last = t

Sent(u) == message[u] = "out" /\ \A s \in Staff : reply[s].at # u

\* "conversaciones sin atender": a message of the client that is saved is
\* answered, or the job tells of the conversation.
Attended ==
    \A t \in Times :
        message[t] = "in" ~> (notices > 0 \/ \E u \in Times : u > t /\ Sent(u))
=============================================================================
