--------------------------- MODULE CopilotProofs ---------------------------
(***************************************************************************)
(* The conversation and the copilot beside it: a message counts once, a    *)
(* conversation is told of once, a suggestion leaves once but where the     *)
(* code cannot help it, and the copilot is invisible to the conversation.  *)
(* For any number of messages, webhooks, persons and analyses.             *)
(***************************************************************************)
EXTENDS Copilot, TLAPS

(***************************************************************************)
(* The conversation.  Its inductive invariant.                             *)
(***************************************************************************)
\* A handler works on a message, one past the insert on a saved one not yet counted.
HooksHold ==
    \A h \in Hooks :
        /\ hook[h].pc # "idle" => hook[h].at \in Times
        /\ hook[h].pc = "count" => message[hook[h].at] = "in" /\ counted[hook[h].at] = 0

\* Of the handlers of one message, only the one that inserted it goes on.
InsertedOnce ==
    \A g, h \in Hooks :
        hook[g].pc = "count" /\ hook[h].pc = "count" /\ hook[g].at = hook[h].at => g = h

\* What was counted is saved, once.
CountedIsSaved == \A t \in Times : counted[t] > 0 => message[t] = "in" /\ counted[t] = 1

RepliesHold ==
    \A s \in Staff : reply[s].pc = "meta" => reply[s].at \in Times /\ message[reply[s].at] \in {"out", "failed"}

\* Nothing is dated later than now.
NothingLater == \A t \in Times : t > clock => message[t] = "none"

\* A conversation told of is marked, and the job is not about to tell of it again.
ToldIsMarked == notices > 0 => notices = 1 /\ contact.escalated = TRUE /\ job = FALSE

MInv ==
    /\ TypeOK
    /\ HooksHold
    /\ InsertedOnce
    /\ CountedIsSaved
    /\ RepliesHold
    /\ NothingLater
    /\ ToldIsMarked

LEMMA IdleTyped == Idle = [pc |-> "idle", at |-> 0] /\ 0 \in Stamp /\ Times \subseteq Stamp /\ Stamp \subseteq Int
BY ConstantsAssumption DEF Idle, Stamp, Times

LEMMA OneMoreTyped == OneMore(0) = 1 /\ \A n \in 0..2 : OneMore(n) \in 0..2
BY DEF OneMore

LEMMA InitMInv == Init => MInv
<1> SUFFICES ASSUME Init PROVE MInv
  OBVIOUS
<1>1. TypeOK
  <2>1. contact \in Contact
    BY IdleTyped DEF Init, Contact
  <2>2. hook \in [Hooks -> [pc: {"idle", "insert", "count"}, at: Stamp]]
    BY IdleTyped DEF Init
  <2>3. reply \in [Staff -> [pc: {"idle", "meta", "contact"}, at: Stamp]]
    BY IdleTyped DEF Init
  <2>4. message \in [Times -> {"none", "written", "in", "out", "failed"}]
    BY DEF Init
  <2>5. counted \in [Times -> 0..2]
    BY DEF Init
  <2>6. clock = 0 /\ job = FALSE /\ notices = 0
    BY DEF Init
  <2>7. clock \in Stamp /\ notices \in 0..2
    BY <2>6, IdleTyped
  <2>8. job \in BOOLEAN
    BY <2>6
  <2> QED
    BY <2>1, <2>2, <2>3, <2>4, <2>5, <2>7, <2>8 DEF TypeOK
<1>2. HooksHold /\ InsertedOnce /\ RepliesHold
  BY DEF Init, HooksHold, InsertedOnce, RepliesHold, Idle
<1> QED
  BY <1>1, <1>2 DEF Init, MInv, CountedIsSaved, NothingLater, ToldIsMarked

\* The client, and what the job reads.
LEMMA WriteMInv == ASSUME MInv, Write PROVE MInv'
<1>1. /\ clock + 1 \in Times /\ clock' = clock + 1 /\ clock \in Int
      /\ message' = [message EXCEPT ![clock + 1] = "written"] /\ message[clock + 1] = "none"
      /\ UNCHANGED <<contact, hook, reply, job, counted, notices>>
  BY ConstantsAssumption DEF Write, MInv, TypeOK, Stamp, Times, NothingLater, ghosts
<1>2. TypeOK'
  BY <1>1, IdleTyped DEF MInv, TypeOK
<1>3. \A t \in Times : message'[t] = IF t = clock + 1 THEN "written" ELSE message[t]
  BY <1>1 DEF MInv, TypeOK
<1>4. HooksHold' /\ InsertedOnce' /\ RepliesHold'
  BY <1>1, <1>3 DEF MInv, HooksHold, InsertedOnce, RepliesHold
<1>5. CountedIsSaved' /\ ToldIsMarked'
  BY <1>1, <1>3 DEF MInv, CountedIsSaved, ToldIsMarked
<1>6. NothingLater'
  BY <1>1, <1>3, IdleTyped DEF MInv, NothingLater
<1> QED
  BY <1>2, <1>4, <1>5, <1>6 DEF MInv

LEMMA EscalateMInv == ASSUME MInv, EscalateRead \/ EscalateMark PROVE MInv'
<1>1. UNCHANGED <<clock, message, hook, reply, counted>>
  BY DEF EscalateRead, EscalateMark, ghosts
<1>2. TypeOK'
  <2>1. CASE EscalateRead
    BY <1>1, <2>1 DEF EscalateRead, MInv, TypeOK, ghosts
  <2>2. CASE EscalateMark
    BY <1>1, <2>2, OneMoreTyped DEF EscalateMark, MInv, TypeOK, Contact
  <2> QED
    BY <2>1, <2>2
<1>3. ToldIsMarked'
  <2>1. CASE EscalateRead
    BY <2>1 DEF EscalateRead, MInv, TypeOK, ToldIsMarked, ghosts
  <2>2. CASE EscalateMark
    <3>1. notices = 0
      BY <2>2 DEF EscalateMark, MInv, TypeOK, ToldIsMarked
    <3> QED
      BY <2>2, <3>1, OneMoreTyped DEF EscalateMark, MInv, TypeOK, Contact, ToldIsMarked
  <2> QED
    BY <2>1, <2>2
<1> QED
  BY <1>1, <1>2, <1>3 DEF MInv, HooksHold, InsertedOnce, CountedIsSaved, RepliesHold, NothingLater

\* The handlers.
LEMMA HookMInv ==
    ASSUME MInv, NEW h \in Hooks, HookWork(h) \/ \E t \in Times : HookCheck(h, t)
    PROVE  MInv'
<1>1. ASSUME NEW t \in Times, HookCheck(h, t)
      PROVE  MInv'
  <2>1. /\ hook' = [hook EXCEPT ![h] = [pc |-> "insert", at |-> t]]
        /\ UNCHANGED <<clock, message, contact, reply, job, counted, notices>>
    BY <1>1 DEF HookCheck, ghosts
  <2>2. TypeOK'
    BY <2>1, IdleTyped DEF MInv, TypeOK
  <2>3. \A g \in Hooks : hook'[g] = IF g = h THEN [pc |-> "insert", at |-> t] ELSE hook[g]
    BY <2>1 DEF MInv, TypeOK
  <2>4. HooksHold' /\ InsertedOnce'
    BY <2>1, <2>3 DEF MInv, HooksHold, InsertedOnce
  <2> QED
    BY <2>1, <2>2, <2>4 DEF MInv, CountedIsSaved, RepliesHold, NothingLater, ToldIsMarked
<1>2. CASE HookInsert(h) /\ message[hook[h].at] # "written"
  <2>1. hook' = [hook EXCEPT ![h] = Idle] /\ UNCHANGED <<clock, message, contact, reply, job, counted, notices>>
    BY <1>2 DEF HookInsert, ghosts
  <2>2. TypeOK'
    BY <2>1, IdleTyped DEF MInv, TypeOK
  <2>3. \A g \in Hooks : hook'[g] = IF g = h THEN Idle ELSE hook[g]
    BY <2>1 DEF MInv, TypeOK
  <2>4. HooksHold' /\ InsertedOnce'
    BY <2>1, <2>3 DEF MInv, HooksHold, InsertedOnce, Idle
  <2> QED
    BY <2>1, <2>2, <2>4 DEF MInv, CountedIsSaved, RepliesHold, NothingLater, ToldIsMarked
<1>3. CASE HookInsert(h) /\ message[hook[h].at] = "written"
  <2>1. PICK t \in Times : t = hook[h].at
    BY <1>3 DEF HookInsert, MInv, HooksHold
  <2>2. /\ message' = [message EXCEPT ![t] = "in"] /\ hook' = [hook EXCEPT ![h].pc = "count"]
        /\ UNCHANGED <<clock, contact, reply, job, counted, notices>> /\ message[t] = "written"
    BY <1>3, <2>1 DEF HookInsert, ghosts
  <2>3. TypeOK'
    BY <2>2 DEF MInv, TypeOK
  <2>4. /\ \A u \in Times : message'[u] = IF u = t THEN "in" ELSE message[u]
        /\ \A g \in Hooks : g # h => hook'[g] = hook[g]
        /\ hook'[h].pc = "count" /\ hook'[h].at = t
    BY <2>1, <2>2 DEF MInv, TypeOK
  <2>5. counted[t] = 0 /\ \A g \in Hooks : hook[g].pc = "count" => hook[g].at # t
    BY <2>2 DEF MInv, TypeOK, CountedIsSaved, HooksHold
  <2>6. HooksHold' /\ InsertedOnce'
    BY <2>2, <2>4, <2>5 DEF MInv, HooksHold, InsertedOnce
  <2>7. CountedIsSaved' /\ RepliesHold' /\ NothingLater' /\ ToldIsMarked'
    BY <2>2, <2>4 DEF MInv, CountedIsSaved, RepliesHold, NothingLater, ToldIsMarked
  <2> QED
    BY <2>3, <2>6, <2>7 DEF MInv
<1>4. CASE HookCount(h)
  <2>1. PICK t \in Times : t = hook[h].at
    BY <1>4 DEF HookCount, MInv, HooksHold
  <2>2. /\ contact' = CountedContact(t) /\ counted' = [counted EXCEPT ![t] = OneMore(counted[t])]
        /\ hook' = [hook EXCEPT ![h] = Idle] /\ UNCHANGED <<clock, message, reply, job, notices>>
        /\ hook[h].pc = "count"
    BY <1>4, <2>1 DEF HookCount
  <2>3. counted[t] = 0 /\ message[t] = "in"
    BY <2>1, <2>2 DEF MInv, HooksHold
  <2>4. contact' \in Contact /\ contact'.escalated = contact.escalated
    <3>1. Later(t, contact.last) \in Stamp
      BY IdleTyped DEF Later, MInv, TypeOK, Contact
    <3> QED
      BY <2>2, <3>1 DEF CountedContact, MInv, TypeOK, Contact
  <2>5. counted' \in [Times -> 0..2] /\ hook' \in [Hooks -> [pc: {"idle", "insert", "count"}, at: Stamp]]
    BY <2>2, <2>3, OneMoreTyped, IdleTyped DEF MInv, TypeOK
  <2>6. /\ \A g \in Hooks : hook'[g] = IF g = h THEN Idle ELSE hook[g]
        /\ \A u \in Times : counted'[u] = IF u = t THEN 1 ELSE counted[u]
    BY <2>2, <2>3, OneMoreTyped DEF MInv, TypeOK
  <2>7. \A g \in Hooks \ {h} : hook[g].pc = "count" => hook[g].at # t
    BY <2>1, <2>2 DEF MInv, InsertedOnce
  <2>8. HooksHold' /\ InsertedOnce'
    BY <2>2, <2>6, <2>7 DEF MInv, HooksHold, InsertedOnce, Idle
  <2>9. CountedIsSaved' /\ RepliesHold' /\ NothingLater' /\ ToldIsMarked'
    BY <2>2, <2>3, <2>4, <2>6 DEF MInv, CountedIsSaved, RepliesHold, NothingLater, ToldIsMarked
  <2> QED
    BY <2>2, <2>4, <2>5, <2>8, <2>9 DEF MInv, TypeOK
<1> QED
  BY <1>1, <1>2, <1>3, <1>4 DEF HookWork

\* The answers.
LEMMA ReplyMInv == ASSUME MInv, NEW s \in Staff, ReplySave(s) \/ ReplyWork(s) PROVE MInv'
<1>1. CASE ReplySave(s)
  <2>1. /\ clock + 1 \in Times /\ clock' = clock + 1 /\ clock \in Int /\ message[clock + 1] = "none"
        /\ message' = [message EXCEPT ![clock + 1] = "out"]
        /\ reply' = [reply EXCEPT ![s] = [pc |-> "meta", at |-> clock + 1]]
        /\ UNCHANGED <<contact, hook, job, counted, notices>>
    BY <1>1, ConstantsAssumption DEF ReplySave, MayReply, MInv, TypeOK, Stamp, Times, NothingLater, ghosts
  <2>2. TypeOK'
    BY <2>1, IdleTyped DEF MInv, TypeOK
  <2>3. /\ \A t \in Times : message'[t] = IF t = clock + 1 THEN "out" ELSE message[t]
        /\ \A p \in Staff : reply'[p] = IF p = s THEN [pc |-> "meta", at |-> clock + 1] ELSE reply[p]
    BY <2>1 DEF MInv, TypeOK
  <2>4. HooksHold' /\ InsertedOnce' /\ CountedIsSaved' /\ ToldIsMarked'
    BY <2>1, <2>3 DEF MInv, HooksHold, InsertedOnce, CountedIsSaved, ToldIsMarked
  <2>5. RepliesHold' /\ NothingLater'
    BY <2>1, <2>3, IdleTyped DEF MInv, RepliesHold, NothingLater
  <2> QED
    BY <2>2, <2>4, <2>5 DEF MInv
<1>2. CASE ReplyAccepted(s)
  <2>1. /\ reply' = [reply EXCEPT ![s].pc = "contact"]
        /\ UNCHANGED <<clock, message, contact, hook, job, counted, notices>>
    BY <1>2 DEF ReplyAccepted, ghosts
  <2>2. TypeOK'
    BY <2>1 DEF MInv, TypeOK
  <2>3. RepliesHold'
    BY <2>1 DEF MInv, TypeOK, RepliesHold
  <2> QED
    BY <2>1, <2>2, <2>3 DEF MInv, HooksHold, InsertedOnce, CountedIsSaved, NothingLater, ToldIsMarked
<1>3. CASE ReplyFailed(s)
  <2>1. PICK t \in Times : t = reply[s].at
    BY <1>3 DEF ReplyFailed, MInv, RepliesHold
  <2>2. /\ message' = [message EXCEPT ![t] = "failed"] /\ reply' = [reply EXCEPT ![s] = Idle]
        /\ UNCHANGED <<clock, contact, hook, job, counted, notices>> /\ message[t] \in {"out", "failed"}
    BY <1>3, <2>1 DEF ReplyFailed, MInv, RepliesHold, ghosts
  <2>3. TypeOK'
    BY <2>2, IdleTyped DEF MInv, TypeOK
  <2>4. /\ \A u \in Times : message'[u] = IF u = t THEN "failed" ELSE message[u]
        /\ \A p \in Staff : reply'[p] = IF p = s THEN Idle ELSE reply[p]
    BY <2>2 DEF MInv, TypeOK
  <2>5. HooksHold' /\ InsertedOnce' /\ CountedIsSaved' /\ NothingLater' /\ ToldIsMarked'
    BY <2>2, <2>4 DEF MInv, HooksHold, InsertedOnce, CountedIsSaved, NothingLater, ToldIsMarked
  <2>6. RepliesHold'
    BY <2>4 DEF MInv, RepliesHold, Idle
  <2> QED
    BY <2>3, <2>5, <2>6 DEF MInv
<1>4. CASE ReplyContact(s)
  <2>1. /\ contact' = AnsweredContact(reply[s].at) /\ notices' = 0 /\ reply' = [reply EXCEPT ![s] = Idle]
        /\ UNCHANGED <<clock, message, hook, job, counted>>
    BY <1>4 DEF ReplyContact
  <2>2. contact' \in Contact
    BY <2>1, IdleTyped DEF AnsweredContact, Later, MInv, TypeOK, Contact
  <2>3. TypeOK'
    BY <2>1, <2>2, IdleTyped DEF MInv, TypeOK
  <2>4. RepliesHold'
    BY <2>1 DEF MInv, TypeOK, RepliesHold, Idle
  <2> QED
    BY <2>1, <2>3, <2>4 DEF MInv, HooksHold, InsertedOnce, CountedIsSaved, NothingLater, ToldIsMarked
<1>5. CASE ReplyLost(s)
  <2>1. reply' = [reply EXCEPT ![s] = Idle] /\ UNCHANGED <<clock, message, contact, hook, job, counted, notices>>
    BY <1>5 DEF ReplyLost, ghosts
  <2>2. TypeOK'
    BY <2>1, IdleTyped DEF MInv, TypeOK
  <2>3. RepliesHold'
    BY <2>1 DEF MInv, TypeOK, RepliesHold, Idle
  <2> QED
    BY <2>1, <2>2, <2>3 DEF MInv, HooksHold, InsertedOnce, CountedIsSaved, NothingLater, ToldIsMarked
<1> QED
  BY <1>1, <1>2, <1>3, <1>4, <1>5 DEF ReplyWork

LEMMA NextMInv == MInv /\ [Next]_vars => MInv'
<1> SUFFICES ASSUME MInv, [Next]_vars PROVE MInv'
  OBVIOUS
<1>1. CASE UNCHANGED vars
  BY <1>1 DEF vars, ghosts, MInv, TypeOK, HooksHold, InsertedOnce, CountedIsSaved, RepliesHold, NothingLater, ToldIsMarked
<1> QED
  BY <1>1, WriteMInv, EscalateMInv, HookMInv, ReplyMInv DEF Next

LEMMA SpecMInv == Spec => []MInv
BY InitMInv, NextMInv, PTL DEF Spec

\* ingestMessage: however many webhooks bring a message, together or one after
\* another, it counts once.
THEOREM SpecCountedOnce == Spec => []CountedOnce
<1>1. MInv => CountedOnce
  BY DEF MInv, TypeOK, CountedIsSaved, CountedOnce
<1> QED
  BY <1>1, SpecMInv, PTL

\* escalateUnattended: the staff is told of a conversation once between two answers,
\* also when the answer comes while the job is at work.
THEOREM SpecEscalatedOnce == Spec => []EscalatedOnce
<1>1. MInv => EscalatedOnce
  BY DEF MInv, TypeOK, ToldIsMarked, EscalatedOnce
<1> QED
  BY <1>1, SpecMInv, PTL

(***************************************************************************)
(* What awaits an answer is seen, when answers do not overlap with the     *)
(* handlers or with each other.                                            *)
(***************************************************************************)
\* An answer is alone.
AnswersAlone ==
    \A s \in Staff : reply[s].pc # "idle" =>
        /\ \A p \in Staff \ {s} : reply[p].pc = "idle"
        /\ \A h \in Hooks : hook[h].pc = "idle"
        /\ reply[s].at \in Times
        /\ message[reply[s].at] = "out"
        /\ \A t \in Times : message[t] = "in" => t < reply[s].at

IdleIsIdle == \A s \in Staff : reply[s].pc = "idle" => reply[s].at = 0

\* What is saved was counted, or its handler is about to.
SavedIsCounted ==
    \A t \in Times :
        message[t] = "in" => counted[t] > 0 \/ \E h \in Hooks : hook[h].pc = "count" /\ hook[h].at = t

\* The contact has the last activity, which is of a message.
LastIsOfMessage ==
    /\ \A t \in Times : counted[t] > 0 => t <= contact.last
    /\ contact.last \in Times =>
          \/ message[contact.last] = "in" /\ counted[contact.last] > 0
          \/ Sent(contact.last)

\* A message that nobody answered after it was written awaits an answer.
UnansweredAwaits ==
    \A t \in Times :
        counted[t] > 0 /\ (\A u \in Times : u > t => ~Sent(u)) => contact.awaiting = TRUE

WInv == MInv /\ AnswersAlone /\ IdleIsIdle /\ SavedIsCounted /\ LastIsOfMessage /\ UnansweredAwaits

LEMMA InitWInv == Init => WInv
<1> SUFFICES ASSUME Init PROVE WInv
  OBVIOUS
<1>1. AnswersAlone /\ IdleIsIdle
  BY DEF Init, AnswersAlone, IdleIsIdle, Idle
<1>2. SavedIsCounted /\ UnansweredAwaits
  BY DEF Init, SavedIsCounted, UnansweredAwaits
<1>3. LastIsOfMessage
  BY ConstantsAssumption DEF Init, LastIsOfMessage, Times
<1> QED
  BY <1>1, <1>2, <1>3, InitMInv DEF WInv

\* The client, and the job.
LEMMA WriteWInv == ASSUME ~Overlap, WInv, Write PROVE WInv'
<1>1. /\ clock + 1 \in Times /\ message[clock + 1] = "none"
      /\ message' = [message EXCEPT ![clock + 1] = "written"]
      /\ UNCHANGED <<contact, hook, reply, job, counted, notices>>
  BY ConstantsAssumption DEF Write, WInv, MInv, TypeOK, Stamp, Times, NothingLater, ghosts
<1>2. \A t \in Times : message'[t] = IF t = clock + 1 THEN "written" ELSE message[t]
  BY <1>1 DEF WInv, MInv, TypeOK
<1>3. \A t \in Times : Sent(t)' <=> Sent(t)
  BY <1>1, <1>2 DEF Sent
<1>4. AnswersAlone' /\ IdleIsIdle' /\ SavedIsCounted'
  BY <1>1, <1>2 DEF WInv, AnswersAlone, IdleIsIdle, SavedIsCounted
<1>5. LastIsOfMessage' /\ UnansweredAwaits'
  BY <1>1, <1>2, <1>3 DEF WInv, LastIsOfMessage, UnansweredAwaits
<1> QED
  BY <1>4, <1>5, WriteMInv DEF WInv

LEMMA EscalateWInv == ASSUME ~Overlap, WInv, EscalateRead \/ EscalateMark PROVE WInv'
<1>1. /\ UNCHANGED <<clock, message, hook, reply, counted>>
      /\ contact'.last = contact.last /\ contact'.awaiting = contact.awaiting
  BY DEF EscalateRead, EscalateMark, ghosts, WInv, MInv, TypeOK, Contact
<1>2. \A t \in Times : Sent(t)' <=> Sent(t)
  BY <1>1 DEF Sent
<1>3. AnswersAlone' /\ IdleIsIdle' /\ SavedIsCounted'
  BY <1>1 DEF WInv, AnswersAlone, IdleIsIdle, SavedIsCounted
<1>4. LastIsOfMessage' /\ UnansweredAwaits'
  BY <1>1, <1>2 DEF WInv, LastIsOfMessage, UnansweredAwaits
<1> QED
  BY <1>3, <1>4, EscalateMInv DEF WInv

\* The handlers: no answer is under way.
LEMMA HookWInv ==
    ASSUME ~Overlap, WInv, NEW h \in Hooks, HookWork(h) \/ \E t \in Times : HookCheck(h, t)
    PROVE  WInv'
<1>1. MInv'
  BY HookMInv DEF WInv
<1>2. NoReply /\ UNCHANGED <<clock, reply>>
  <2>1. CASE HookWork(h)
    BY <2>1 DEF HookWork, HookInsert, HookCount, WInv, AnswersAlone, NoReply, ghosts
  <2>2. CASE \E t \in Times : HookCheck(h, t)
    BY <2>2 DEF HookCheck, Clear, ghosts
  <2> QED
    BY <2>1, <2>2
<1>3. AnswersAlone' /\ IdleIsIdle'
  BY <1>2 DEF WInv, AnswersAlone, IdleIsIdle, NoReply
<1>4. ASSUME NEW t \in Times, HookCheck(h, t)
      PROVE  SavedIsCounted' /\ LastIsOfMessage' /\ UnansweredAwaits'
  <2>1. /\ hook' = [hook EXCEPT ![h] = [pc |-> "insert", at |-> t]] /\ hook[h].pc = "idle"
        /\ UNCHANGED <<clock, message, contact, reply, counted>>
    BY <1>4 DEF HookCheck, ghosts
  <2>2. \A g \in Hooks : g # h => hook'[g] = hook[g]
    BY <2>1 DEF WInv, MInv, TypeOK
  <2> QED
    BY <2>1, <2>2 DEF WInv, SavedIsCounted, LastIsOfMessage, UnansweredAwaits, Sent
<1>5. CASE HookInsert(h) /\ message[hook[h].at] # "written"
  <2>1. /\ hook' = [hook EXCEPT ![h] = Idle] /\ hook[h].pc = "insert"
        /\ UNCHANGED <<clock, message, contact, reply, counted>>
    BY <1>5 DEF HookInsert, ghosts
  <2>2. \A g \in Hooks : g # h => hook'[g] = hook[g]
    BY <2>1 DEF WInv, MInv, TypeOK
  <2>3. SavedIsCounted' /\ LastIsOfMessage' /\ UnansweredAwaits'
    BY <2>1, <2>2 DEF WInv, SavedIsCounted, LastIsOfMessage, UnansweredAwaits, Sent
  <2> QED
    BY <1>1, <1>3, <2>3 DEF WInv
<1>6. CASE HookInsert(h) /\ message[hook[h].at] = "written"
  <2>1. PICK t \in Times : t = hook[h].at
    BY <1>6 DEF HookInsert, WInv, MInv, HooksHold
  <2>2. /\ message' = [message EXCEPT ![t] = "in"] /\ hook' = [hook EXCEPT ![h].pc = "count"]
        /\ hook[h].pc = "insert" /\ message[t] = "written" /\ UNCHANGED <<clock, contact, reply, counted>>
    BY <1>6, <2>1 DEF HookInsert, ghosts
  <2>3. /\ \A u \in Times : message'[u] = IF u = t THEN "in" ELSE message[u]
        /\ \A g \in Hooks : g # h => hook'[g] = hook[g]
        /\ hook'[h].pc = "count" /\ hook'[h].at = t
    BY <2>1, <2>2 DEF WInv, MInv, TypeOK
  <2>4. SavedIsCounted'
    BY <2>2, <2>3 DEF WInv, SavedIsCounted
  <2>5. \A u \in Times : Sent(u)' <=> Sent(u)
    BY <2>2, <2>3 DEF Sent
  <2>6. LastIsOfMessage' /\ UnansweredAwaits'
    BY <2>2, <2>3, <2>5 DEF WInv, LastIsOfMessage, UnansweredAwaits
  <2> QED
    BY <1>1, <1>3, <2>4, <2>6 DEF WInv
<1>7. CASE HookCount(h)
  <2>1. PICK t \in Times : t = hook[h].at
    BY <1>7 DEF HookCount, WInv, MInv, HooksHold
  <2>2. /\ contact' = CountedContact(t) /\ counted' = [counted EXCEPT ![t] = OneMore(counted[t])]
        /\ hook' = [hook EXCEPT ![h] = Idle] /\ UNCHANGED <<clock, message, reply>>
        /\ message[t] = "in" /\ counted[t] = 0
    BY <1>7, <2>1 DEF HookCount, WInv, MInv, HooksHold
  <2>3. /\ \A u \in Times : counted'[u] = IF u = t THEN 1 ELSE counted[u]
        /\ \A g \in Hooks : g # h => hook'[g] = hook[g]
    BY <2>2, OneMoreTyped DEF WInv, MInv, TypeOK
  <2>4. contact'.last = Later(t, contact.last) /\ contact'.awaiting = (contact.awaiting \/ t >= contact.last)
    BY <2>2 DEF CountedContact, WInv, MInv, TypeOK, Contact
  <2>5. contact.last \in Stamp /\ Stamp = Times \cup {0} /\ Times \subseteq Int /\ 0 \notin Times /\ contact.awaiting \in BOOLEAN
    BY ConstantsAssumption DEF WInv, MInv, TypeOK, Contact, Stamp, Times
  <2>6. \A u \in Times : Sent(u)' <=> Sent(u)
    BY <2>2 DEF Sent
  <2>7. SavedIsCounted'
    BY <2>1, <2>2, <2>3 DEF WInv, SavedIsCounted
  <2>8. LastIsOfMessage'
    <3>1. \A u \in Times : counted'[u] > 0 => u <= contact'.last
      BY <2>3, <2>4, <2>5 DEF Later, WInv, LastIsOfMessage
    <3>2. CASE contact'.last = t
      BY <2>2, <2>3, <3>1, <3>2 DEF LastIsOfMessage
    <3>3. CASE contact'.last = contact.last /\ contact.last # t
      <4>1. contact.last \in Times =>
               \/ message[contact.last] = "in" /\ counted[contact.last] > 0
               \/ message[contact.last] = "out" /\ \A p \in Staff : reply[p].at # contact.last
        BY DEF WInv, LastIsOfMessage, Sent
      <4> QED
        BY <2>2, <2>3, <3>1, <3>3, <4>1 DEF LastIsOfMessage, Sent
    <3> QED
      BY <2>4, <3>2, <3>3 DEF Later
  <2>9. UnansweredAwaits'
    <3> SUFFICES ASSUME NEW u \in Times, counted'[u] > 0, \A v \in Times : v > u => ~Sent(v)
                 PROVE  contact'.awaiting = TRUE
      BY <2>6 DEF UnansweredAwaits
    <3>1. CASE u # t
      BY <2>3, <2>4, <3>1 DEF WInv, UnansweredAwaits
    <3>2. CASE u = t /\ t >= contact.last
      BY <2>4, <3>2
    <3>3. CASE u = t /\ ~(t >= contact.last)
      <4>1. contact.last \in Times /\ contact.last > t
        BY <2>5, <3>3 DEF Stamp, Times
      <4>2. ~Sent(contact.last)
        BY <3>3, <4>1
      <4>3. counted[contact.last] > 0
        BY <4>1, <4>2 DEF WInv, LastIsOfMessage
      <4>4. \A v \in Times : v > contact.last => ~Sent(v)
        BY <3>3, <4>1, ConstantsAssumption DEF Times
      <4> QED
        BY <2>4, <4>1, <4>3, <4>4 DEF WInv, UnansweredAwaits
    <3> QED
      BY <3>1, <3>2, <3>3
  <2> QED
    BY <1>1, <1>3, <2>7, <2>8, <2>9 DEF WInv
<1> QED
  BY <1>1, <1>3, <1>4, <1>5, <1>6, <1>7 DEF WInv, HookWork

\* The answers.
LEMMA ReplyWInv == ASSUME ~Overlap, WInv, NEW s \in Staff, ReplySave(s) \/ ReplyWork(s) PROVE WInv'
<1>1. MInv'
  BY ReplyMInv DEF WInv
<1>2. Stamp = Times \cup {0} /\ Times \subseteq Int /\ 0 \notin Times
  BY ConstantsAssumption DEF Stamp, Times
<1>3. CASE ReplySave(s)
  <2>1. /\ clock + 1 \in Times /\ message[clock + 1] = "none" /\ clock \in Int
        /\ message' = [message EXCEPT ![clock + 1] = "out"]
        /\ reply' = [reply EXCEPT ![s] = [pc |-> "meta", at |-> clock + 1]]
        /\ NoReply /\ \A h \in Hooks : hook[h].pc = "idle"
        /\ UNCHANGED <<contact, hook, counted>>
    BY <1>3, ConstantsAssumption DEF ReplySave, MayReply, WInv, MInv, TypeOK, Stamp, Times, NothingLater, ghosts
  <2>2. /\ \A t \in Times : message'[t] = IF t = clock + 1 THEN "out" ELSE message[t]
        /\ \A p \in Staff : reply'[p] = IF p = s THEN [pc |-> "meta", at |-> clock + 1] ELSE reply[p]
    BY <2>1 DEF WInv, MInv, TypeOK
  <2>3. \A t \in Times : message[t] = "in" => t < clock + 1
    BY <1>2, <2>1 DEF WInv, MInv, NothingLater
  <2>4. AnswersAlone' /\ IdleIsIdle'
    BY <2>1, <2>2, <2>3 DEF WInv, AnswersAlone, IdleIsIdle, NoReply
  <2>5. SavedIsCounted'
    BY <2>1, <2>2 DEF WInv, SavedIsCounted
  <2>6. \A t \in Times : Sent(t)' <=> Sent(t)
    BY <1>2, <2>1, <2>2 DEF Sent, WInv, IdleIsIdle, NoReply
  <2>7. LastIsOfMessage' /\ UnansweredAwaits'
    BY <2>1, <2>2, <2>6 DEF WInv, LastIsOfMessage, UnansweredAwaits
  <2> QED
    BY <1>1, <2>4, <2>5, <2>7 DEF WInv
<1>4. CASE ReplyAccepted(s)
  <2>1. /\ reply' = [reply EXCEPT ![s].pc = "contact"] /\ reply[s].pc = "meta"
        /\ UNCHANGED <<message, contact, hook, counted>>
    BY <1>4 DEF ReplyAccepted, ghosts
  <2>2. /\ \A p \in Staff : p # s => reply'[p] = reply[p]
        /\ reply'[s].pc = "contact" /\ reply'[s].at = reply[s].at
    BY <2>1 DEF WInv, MInv, TypeOK
  <2>3. AnswersAlone' /\ IdleIsIdle'
    BY <2>1, <2>2 DEF WInv, AnswersAlone, IdleIsIdle
  <2>4. \A t \in Times : Sent(t)' <=> Sent(t)
    BY <2>1, <2>2 DEF Sent
  <2>5. SavedIsCounted' /\ LastIsOfMessage' /\ UnansweredAwaits'
    BY <2>1, <2>4 DEF WInv, SavedIsCounted, LastIsOfMessage, UnansweredAwaits
  <2> QED
    BY <1>1, <2>3, <2>5 DEF WInv
<1>5. CASE ReplyFailed(s)
  <2>1. PICK t \in Times : t = reply[s].at /\ message[t] = "out"
    BY <1>5 DEF ReplyFailed, WInv, AnswersAlone
  <2>2. /\ message' = [message EXCEPT ![t] = "failed"] /\ reply' = [reply EXCEPT ![s] = Idle]
        /\ reply[s].pc = "meta" /\ UNCHANGED <<contact, hook, counted>>
    BY <1>5, <2>1 DEF ReplyFailed, ghosts
  <2>3. /\ \A u \in Times : message'[u] = IF u = t THEN "failed" ELSE message[u]
        /\ \A p \in Staff : reply'[p] = IF p = s THEN Idle ELSE reply[p]
        /\ Idle.pc = "idle" /\ Idle.at = 0
    BY <2>2 DEF WInv, MInv, TypeOK, Idle
  <2>4. AnswersAlone' /\ IdleIsIdle'
    BY <2>2, <2>3 DEF WInv, AnswersAlone, IdleIsIdle
  <2>5. \A u \in Times : Sent(u)' <=> Sent(u)
    BY <1>2, <2>1, <2>3 DEF Sent
  <2>6. SavedIsCounted' /\ LastIsOfMessage' /\ UnansweredAwaits'
    BY <2>1, <2>2, <2>3, <2>5 DEF WInv, SavedIsCounted, LastIsOfMessage, UnansweredAwaits
  <2> QED
    BY <1>1, <2>4, <2>6 DEF WInv
<1>6. CASE ReplyContact(s)
  <2>1. PICK t \in Times : t = reply[s].at /\ message[t] = "out" /\ \A u \in Times : message[u] = "in" => u < t
    BY <1>6 DEF ReplyContact, WInv, AnswersAlone
  <2>2. /\ contact' = AnsweredContact(t) /\ reply' = [reply EXCEPT ![s] = Idle] /\ reply[s].pc = "contact"
        /\ UNCHANGED <<message, hook, counted>>
    BY <1>6, <2>1 DEF ReplyContact
  <2>3. /\ \A p \in Staff : reply'[p] = IF p = s THEN Idle ELSE reply[p]
        /\ Idle.pc = "idle" /\ Idle.at = 0
    BY <2>2 DEF WInv, MInv, TypeOK, Idle
  <2>4. AnswersAlone' /\ IdleIsIdle'
    BY <2>2, <2>3 DEF WInv, AnswersAlone, IdleIsIdle
  <2>5. \A u \in Times : Sent(u) => message'[u] = "out" /\ \A p \in Staff : reply'[p].at # u
    BY <1>2, <2>2, <2>3 DEF Sent
  <2>6. message'[t] = "out" /\ \A p \in Staff : reply'[p].at # t
    BY <1>2, <2>1, <2>2, <2>3 DEF WInv, AnswersAlone, IdleIsIdle
  <2>7. contact'.last = Later(t, contact.last)
    BY <2>2 DEF AnsweredContact
  <2>8. \A u \in Times : counted[u] > 0 => u < t
    BY <2>1 DEF WInv, MInv, CountedIsSaved
  <2>9. contact.last \in Times \cup {0}
    BY <1>2 DEF WInv, MInv, TypeOK, Contact
  <2>10. LastIsOfMessage'
    <3>1. ASSUME NEW u \in Times, counted[u] > 0
          PROVE  u <= contact'.last
      <4>1. u \in Int /\ t \in Int /\ contact.last \in Int /\ u < t
        BY <2>8, <2>9, <3>1, ConstantsAssumption DEF Times
      <4> QED
        BY <2>7, <4>1 DEF Later
    <3>2. contact'.last = t \/ contact'.last = contact.last
      BY <2>7 DEF Later
    <3> QED
      BY <2>2, <2>5, <2>6, <3>1, <3>2 DEF WInv, LastIsOfMessage, Sent
  <2>11. SavedIsCounted'
    BY <2>2 DEF WInv, SavedIsCounted
  <2>12. UnansweredAwaits'
    BY <1>2, <2>2, <2>6, <2>8 DEF UnansweredAwaits, Sent
  <2> QED
    BY <1>1, <2>4, <2>10, <2>11, <2>12 DEF WInv
<1>7. CASE ReplyLost(s)
  <2>1. PICK t \in Times : t = reply[s].at /\ message[t] = "out"
    BY <1>7 DEF ReplyLost, WInv, AnswersAlone
  <2>2. /\ reply' = [reply EXCEPT ![s] = Idle] /\ reply[s].pc = "contact"
        /\ UNCHANGED <<message, contact, hook, counted>>
    BY <1>7, <2>1 DEF ReplyLost, ghosts
  <2>3. /\ \A p \in Staff : reply'[p] = IF p = s THEN Idle ELSE reply[p]
        /\ Idle.pc = "idle" /\ Idle.at = 0
    BY <2>2 DEF WInv, MInv, TypeOK, Idle
  <2>4. AnswersAlone' /\ IdleIsIdle'
    BY <2>2, <2>3 DEF WInv, AnswersAlone, IdleIsIdle
  <2>5. \A u \in Times : Sent(u) => Sent(u)'
    BY <1>2, <2>2, <2>3 DEF Sent
  <2>6. SavedIsCounted' /\ LastIsOfMessage' /\ UnansweredAwaits'
    BY <2>2, <2>5 DEF WInv, SavedIsCounted, LastIsOfMessage, UnansweredAwaits
  <2> QED
    BY <1>1, <2>4, <2>6 DEF WInv
<1> QED
  BY <1>3, <1>4, <1>5, <1>6, <1>7 DEF ReplyWork

LEMMA NextWInv == ~Overlap /\ WInv /\ [Next]_vars => WInv'
<1> SUFFICES ASSUME ~Overlap, WInv, [Next]_vars PROVE WInv'
  OBVIOUS
<1>1. CASE UNCHANGED vars
  <2>1. MInv'
    BY <1>1, NextMInv DEF WInv
  <2> QED
    BY <1>1, <2>1 DEF vars, ghosts, WInv, AnswersAlone, IdleIsIdle, SavedIsCounted, LastIsOfMessage, UnansweredAwaits, Sent
<1> QED
  BY <1>1, WriteWInv, EscalateWInv, HookWInv, ReplyWInv DEF Next

\* "Los webhooks llegan desordenados": if answers are sent one at a time and with no
\* handler or job at work, a conversation whose last message is of the client awaits
\* an answer, whatever the order in which any number of messages came.
THEOREM SpecWaitingIsSeen == ASSUME ~Overlap PROVE Spec => []WaitingIsSeen
<1>1. WInv => WaitingIsSeen
  <2> SUFFICES ASSUME WInv, NoReply, \A h \in Hooks : hook[h].pc = "idle", NEW t \in Times, message[t] = "in",
                      \A u \in Times : u > t => message[u] \notin {"in", "out"}
               PROVE  contact.awaiting /\ contact.last = t
    BY DEF WaitingIsSeen
  <2>1. counted[t] > 0
    BY DEF WInv, SavedIsCounted
  <2>2. contact.awaiting = TRUE
    BY <2>1 DEF WInv, UnansweredAwaits, Sent
  <2>3. contact.last \in Times \cup {0} /\ Times \subseteq Int /\ \A u \in Times : u > 0
    BY DEF WInv, MInv, TypeOK, Contact, Stamp, Times
  <2>4. t <= contact.last
    BY <2>1 DEF WInv, LastIsOfMessage
  <2>5. contact.last \in Times
    BY <2>3, <2>4
  <2>6. message[contact.last] \in {"in", "out"}
    BY <2>5 DEF WInv, LastIsOfMessage, Sent
  <2>7. ~(contact.last > t)
    BY <2>5, <2>6
  <2>8. contact.last = t
    BY <2>4, <2>5, <2>7, ConstantsAssumption DEF Times
  <2> QED
    BY <2>2, <2>8
<1>2. WInv /\ [Next]_vars => WInv'
  BY NextWInv
<1> QED
  BY <1>1, <1>2, InitWInv, PTL DEF Spec

(***************************************************************************)
(* The copilot.                                                            *)
(***************************************************************************)
LEMMA StepIsConversation == [CopilotNext]_allVars => [Next]_vars
<1> SUFFICES ASSUME [CopilotNext]_allVars PROVE [Next]_vars
  OBVIOUS
<1>1. CASE Conversation
  BY <1>1 DEF Conversation, Next, HookWork
<1>2. ASSUME NEW h \in Hooks, Heard(h)
      PROVE  Next
  BY <1>2 DEF Heard, Next, HookWork
<1>3. ASSUME NEW k \in Runs, RunRead(k) \/ RunSave(k) \/ RunSupersede(k)
      PROVE  UNCHANGED vars
  BY <1>3 DEF RunRead, RunSave, RunSupersede
<1>4. ASSUME NEW s \in Staff, Person(s)
      PROVE  Next \/ UNCHANGED vars
  <2>1. CASE PressSend(s) \/ PressAccepted(s) \/ PressFailed(s) \/ PressLost(s) \/ PressDone(s) \/ Manual(s)
    BY <2>1 DEF PressSend, PressAccepted, PressFailed, PressLost, PressDone, Manual, Next, ReplyWork
  <2>2. CASE \E t \in Times : PressRead(s, t) \/ DiscardRead(s, t)
    BY <2>2 DEF PressRead, DiscardRead
  <2>3. CASE PressCurrent(s) \/ PressClaim(s) \/ PressRefused(s) \/ PressRestore(s) \/ DiscardUpdate(s)
    BY <2>3 DEF PressCurrent, PressClaim, PressRefused, PressRestore, DiscardUpdate
  <2> QED
    BY <1>4, <2>1, <2>2, <2>3 DEF Person
<1>5. CASE UNCHANGED allVars
  BY <1>5 DEF allVars
<1> QED
  BY <1>1, <1>2, <1>3, <1>4, <1>5 DEF CopilotNext

\* The conversation beside a copilot is the conversation: each step of an analysis or
\* of a person who sends a suggestion is one of Messaging or leaves it as it is, so
\* what was shown of it holds with the copilot too.
THEOREM CopilotImplementsMessaging == CopilotSpec => Spec
<1>1. CopilotInit => Init
  BY DEF CopilotInit
<1> QED
  BY <1>1, StepIsConversation, PTL DEF CopilotSpec, Spec

(***************************************************************************)
(* A suggestion leaves once.  The inductive invariant.                     *)
(***************************************************************************)
SuggestionsTyped ==
    /\ suggestion \in [Times -> Open \cup {"none", "sent", "superseded", "discarded"}]
    /\ press \in [Staff -> [pc: {"idle", "current", "claim", "send", "restore", "discard"}, at: Stamp]]
    /\ texts \in [Times -> 0..2]
    /\ doubted \in SUBSET Times

Claims(s, t) == press[s].pc \in {"send", "restore"} /\ press[s].at = t

\* A person works on a suggestion.
PressesHold == \A s \in Staff : press[s].pc # "idle" => press[s].at \in Times

\* What a person claimed nobody else can claim: it is sent, or was discarded since.
ClaimedIsClosed == \A s \in Staff, t \in Times : Claims(s, t) => suggestion[t] \in {"sent", "discarded"}
ClaimedOnce == \A s, p \in Staff, t \in Times : Claims(s, t) /\ Claims(p, t) => s = p

\* What left cannot be claimed: whoever still claims it has only to record the answer
\* or to give it back; given back, nobody is past assertStillCurrent.
Closed(t) ==
    /\ suggestion[t] \in {"sent", "discarded"}
    /\ \A s \in Staff : Claims(s, t) => press[s].pc = "restore" \/ reply[s].pc = "contact"
GivenBack(t) == \A s \in Staff : ~AboutToClaim(s, t) /\ ~Claims(s, t)
LeftOnce == \A t \in Times : texts[t] > 0 /\ t \notin doubted => texts[t] = 1 /\ (Closed(t) \/ GivenBack(t))

\* Nobody passes assertStillCurrent again with what left: an answer is later than the
\* message the suggestion is about, which was known when it was suggested.
Answered(t) == \E u \in Times : u > t /\ message[u] \in {"out", "failed"}
LeftIsAnswered == \A t \in Times : texts[t] > 0 => Answered(t)
RepliesOfPresses ==
    \A s \in Staff :
        /\ press[s].pc \in {"current", "claim"} => reply[s].pc = "idle"
        /\ press[s].pc = "send" /\ reply[s].pc = "meta" => reply[s].at > press[s].at
RunsTyped == run \in [Runs -> [pc: {"idle", "engine", "supersede"}, at: Stamp]]
KnownTimes ==
    /\ \A t \in Times : suggestion[t] # "none" => t <= clock
    /\ \A k \in Runs : run[k].pc # "idle" => run[k].at \in Times /\ run[k].at <= clock
    /\ \A s \in Staff : press[s].pc # "idle" => press[s].at <= clock
\* What the client wrote and was saved has a last message.
SomeIsLast ==
    (\E t \in Times : message[t] = "in")
        => \E t \in Times : message[t] = "in" /\ \A u \in Times : message[u] = "in" => u <= t

KInv == RunsTyped /\ SomeIsLast /\ KnownTimes /\ RepliesOfPresses /\ LeftIsAnswered
CInv == MInv /\ KInv /\ SuggestionsTyped /\ PressesHold /\ ClaimedIsClosed /\ ClaimedOnce /\ LeftOnce

LEMMA InitCInv == CopilotInit => CInv
<1> SUFFICES ASSUME CopilotInit PROVE CInv
  OBVIOUS
<1>1. SuggestionsTyped
  <2>1. press \in [Staff -> [pc: {"idle", "current", "claim", "send", "restore", "discard"}, at: Stamp]]
    BY IdleTyped DEF CopilotInit
  <2>2. suggestion \in [Times -> Open \cup {"none", "sent", "superseded", "discarded"}]
    BY DEF CopilotInit
  <2>3. texts \in [Times -> 0..2] /\ doubted \in SUBSET Times
    BY DEF CopilotInit
  <2> QED
    BY <2>1, <2>2, <2>3 DEF SuggestionsTyped
<1>2. PressesHold /\ ClaimedIsClosed /\ ClaimedOnce
  BY DEF CopilotInit, PressesHold, ClaimedIsClosed, ClaimedOnce, Claims, Idle
<1>3. LeftOnce /\ LeftIsAnswered
  BY DEF CopilotInit, LeftOnce, LeftIsAnswered
<1>4. RunsTyped
  BY IdleTyped DEF CopilotInit, RunsTyped
<1>5. SomeIsLast /\ KnownTimes /\ RepliesOfPresses
  BY DEF CopilotInit, Init, SomeIsLast, KnownTimes, RepliesOfPresses, Idle
<1> QED
  BY <1>1, <1>2, <1>3, <1>4, <1>5, InitMInv DEF CInv, KInv, CopilotInit

\* Time goes on, what is out stays out, and what was saved has a last message.
LEMMA MessagesGoOn ==
    ASSUME MInv, SomeIsLast, [Next]_vars
    PROVE  /\ clock \in Int /\ clock' \in Int /\ clock <= clock'
           /\ \A t \in Times : message[t] \in {"out", "failed"} => message'[t] \in {"out", "failed"}
           /\ SomeIsLast'
<1>1. clock \in Int /\ Times \subseteq Int /\ message \in [Times -> {"none", "written", "in", "out", "failed"}]
  BY IdleTyped DEF MInv, TypeOK
<1>2. CASE UNCHANGED <<clock, message>>
  BY <1>1, <1>2 DEF SomeIsLast
<1>3. ASSUME NEW c \in Int, c = clock + 1, clock' = c, NEW m \in {"written", "out"}, message' = [message EXCEPT ![c] = m],
             c \in Times
      PROVE  /\ clock \in Int /\ clock' \in Int /\ clock <= clock'
             /\ \A t \in Times : message[t] \in {"out", "failed"} => message'[t] \in {"out", "failed"}
             /\ SomeIsLast'
  <2>1. message[c] = "none"
    BY <1>1, <1>3 DEF MInv, NothingLater
  <2>2. \A t \in Times : message'[t] = IF t = c THEN m ELSE message[t]
    BY <1>1, <1>3
  <2> QED
    BY <1>1, <1>3, <2>1, <2>2 DEF SomeIsLast
<1>4. CASE Write \/ \E s \in Staff : ReplySave(s)
  <2>1. /\ clock + 1 \in Times /\ clock' = clock + 1
        /\ message' = [message EXCEPT ![clock + 1] = "written"] \/ message' = [message EXCEPT ![clock + 1] = "out"]
    BY <1>4, ConstantsAssumption DEF Write, ReplySave, MayReply, MInv, TypeOK, Stamp, Times
  <2> QED
    BY <1>1, <1>3, <2>1
<1>5. ASSUME NEW s \in Staff, ReplyFailed(s)
      PROVE  /\ clock' = clock /\ SomeIsLast'
             /\ \A t \in Times : message[t] \in {"out", "failed"} => message'[t] \in {"out", "failed"}
  <2>1. PICK t \in Times : t = reply[s].at
    BY <1>5 DEF ReplyFailed, MInv, RepliesHold
  <2>2. message[t] \in {"out", "failed"} /\ clock' = clock /\ message' = [message EXCEPT ![t] = "failed"]
    BY <1>5, <2>1 DEF ReplyFailed, MInv, RepliesHold
  <2>3. \A u \in Times : message'[u] = IF u = t THEN "failed" ELSE message[u]
    BY <1>1, <2>2
  <2> QED
    BY <2>2, <2>3 DEF SomeIsLast
<1>6. ASSUME NEW h \in Hooks, HookInsert(h), message[hook[h].at] = "written"
      PROVE  /\ clock' = clock /\ SomeIsLast'
             /\ \A t \in Times : message[t] \in {"out", "failed"} => message'[t] \in {"out", "failed"}
  <2>1. PICK t \in Times : t = hook[h].at
    BY <1>6 DEF HookInsert, MInv, HooksHold
  <2>2. message[t] = "written" /\ clock' = clock /\ message' = [message EXCEPT ![t] = "in"]
    BY <1>6, <2>1 DEF HookInsert
  <2>3. \A u \in Times : message'[u] = IF u = t THEN "in" ELSE message[u]
    BY <1>1, <2>2
  <2>4. SomeIsLast'
    <3>1. CASE \A u \in Times : message[u] # "in"
      BY <1>1, <2>3, <3>1 DEF SomeIsLast
    <3>2. ASSUME NEW l \in Times, message[l] = "in", \A u \in Times : message[u] = "in" => u <= l
          PROVE  SomeIsLast'
      BY <1>1, <2>3, <3>2 DEF SomeIsLast
    <3> QED
      BY <3>1, <3>2 DEF SomeIsLast
  <2> QED
    BY <2>2, <2>3, <2>4
<1> QED
  BY <1>1, <1>2, <1>4, <1>5, <1>6
     DEF Next, HookWork, HookInsert, HookCount, HookCheck, ReplyWork, ReplyAccepted, ReplyContact, ReplyLost,
         EscalateRead, EscalateMark, vars, ghosts

\* conversationState: the last message of the client, which nobody answered.
LEMMA UnansweredIs ==
    ASSUME MInv, SomeIsLast, Unanswered # 0
    PROVE  Unanswered \in Times /\ Unanswered <= clock /\ ~Answered(Unanswered)
<1> DEFINE ins == {t \in Times : message[t] = "in"}
           last == CHOOSE t \in ins : \A u \in ins : u <= t
<1>1. ins # {} /\ Unanswered = last /\ ~\E u \in Times : u > last /\ message[u] \in {"out", "failed"}
  BY DEF Unanswered
<1>2. \E t \in ins : \A u \in ins : u <= t
  BY <1>1 DEF SomeIsLast
<1>3. last \in ins
  BY <1>2
<1>4. \A t \in ins : t <= clock
  BY IdleTyped DEF MInv, TypeOK, NothingLater
<1> QED
  BY <1>1, <1>3, <1>4 DEF Answered

\* What every step of a person comes to.
GoesOn(s) ==
    /\ UNCHANGED run
    /\ \A p \in Staff \ {s} : press'[p] = press[p] /\ reply'[p] = reply[p]
    /\ \A t \in Times : suggestion'[t] # "none" => suggestion[t] # "none" \/ t <= clock
    /\ press'[s].pc # "idle" => press'[s].at \in Times /\ press'[s].at <= clock
    /\ \A t \in Times : texts'[t] > 0 => texts[t] > 0 \/ Answered(t)
    /\ press'[s].pc \in {"current", "claim"} => reply'[s].pc = "idle"
    /\ press'[s].pc = "send" /\ reply'[s].pc = "meta" => reply'[s].at > press'[s].at

LEMMA PersonGoesOn == ASSUME CInv, NEW s \in Staff, Person(s) PROVE GoesOn(s)
<1>1. /\ reply \in [Staff -> [pc: {"idle", "meta", "contact"}, at: Stamp]]
      /\ press \in [Staff -> [pc: {"idle", "current", "claim", "send", "restore", "discard"}, at: Stamp]]
      /\ suggestion \in [Times -> Open \cup {"none", "sent", "superseded", "discarded"}]
      /\ texts \in [Times -> 0..2] /\ Idle.pc = "idle" /\ clock \in Int /\ Times \subseteq Int
  BY IdleTyped DEF CInv, MInv, TypeOK, SuggestionsTyped, Idle
<1>2. /\ press[s].pc # "idle" => press[s].at \in Times /\ press[s].at <= clock
      /\ press[s].pc \in {"current", "claim"} => reply[s].pc = "idle"
      /\ press[s].pc = "send" /\ reply[s].pc = "meta" => reply[s].at > press[s].at
      /\ \A t \in Times : suggestion[t] # "none" => t <= clock
      /\ reply[s].pc = "meta" => reply[s].at \in Times /\ message[reply[s].at] \in {"out", "failed"}
  BY DEF CInv, KInv, MInv, PressesHold, KnownTimes, RepliesOfPresses, RepliesHold
<1>3. ASSUME NEW t \in Times, PressRead(s, t) \/ DiscardRead(s, t)
      PROVE  GoesOn(s)
  BY <1>1, <1>2, <1>3 DEF PressRead, DiscardRead, Pressed, GoesOn, Open, vars, history
<1>4. CASE PressCurrent(s)
  BY <1>1, <1>2, <1>4 DEF PressCurrent, Step, Released, GoesOn, vars, history
<1>5. CASE PressClaim(s)
  BY <1>1, <1>2, <1>5 DEF PressClaim, Step, Released, GoesOn, vars, history
<1>6. CASE PressSend(s)
  <2>1. /\ reply' = [reply EXCEPT ![s] = [pc |-> "meta", at |-> clock + 1]]
        /\ press[s].pc = "send" /\ UNCHANGED <<run, press, suggestion, texts>>
    BY <1>6 DEF PressSend, ReplySave, copilot, history
  <2>2. reply'[s].at = clock + 1 /\ \A p \in Staff \ {s} : reply'[p] = reply[p]
    BY <1>1, <2>1
  <2>3. press[s].at \in Times /\ press[s].at <= clock
    BY <1>2, <2>1
  <2>4. \A n \in Times : n <= clock => clock + 1 > n
    <3>1. clock \in Int /\ Times \subseteq Int
      BY <1>1
    <3> QED
      BY <3>1
  <2> QED
    BY <1>1, <2>1, <2>2, <2>3, <2>4 DEF GoesOn
<1>7. CASE PressRefused(s)
  BY <1>1, <1>2, <1>7 DEF PressRefused, Step, GoesOn, vars, history
<1>8. CASE PressAccepted(s) \/ PressFailed(s)
  <2>1. /\ press[s].pc = "send" /\ reply[s].pc = "meta" /\ UNCHANGED <<run, suggestion>>
        /\ texts' = [texts EXCEPT ![press[s].at] = OneMore(texts[press[s].at])] \/ UNCHANGED texts
        /\ \/ UNCHANGED press /\ reply' = [reply EXCEPT ![s].pc = "contact"]
           \/ press' = [press EXCEPT ![s].pc = "restore"] /\ reply' = [reply EXCEPT ![s] = Idle]
    BY <1>8 DEF PressAccepted, PressFailed, ReplyAccepted, ReplyFailed, Left, Step
  <2>2. Answered(press[s].at)
    BY <1>2, <2>1 DEF Answered
  <2>3. \A t \in Times : texts'[t] > 0 => texts[t] > 0 \/ Answered(t)
    BY <1>1, <2>1, <2>2
  <2> QED
    BY <1>1, <1>2, <2>1, <2>3 DEF GoesOn
<1>9. CASE PressLost(s) \/ PressDone(s)
  <2>1. /\ press[s].pc = "send" /\ UNCHANGED <<run, suggestion, texts>> /\ reply' = [reply EXCEPT ![s] = Idle]
        /\ press' = [press EXCEPT ![s].pc = "restore"] \/ press' = [press EXCEPT ![s] = Idle]
    BY <1>9 DEF PressLost, PressDone, ReplyLost, ReplyContact, Step, Released, history
  <2> QED
    BY <1>1, <1>2, <2>1 DEF GoesOn
<1>10. CASE PressRestore(s) \/ DiscardUpdate(s)
  <2>1. /\ press[s].pc # "idle" /\ UNCHANGED <<run, texts, reply>> /\ press' = [press EXCEPT ![s] = Idle]
        /\ \A t \in Times : t # press[s].at => suggestion'[t] = suggestion[t]
    BY <1>1, <1>2, <1>10 DEF PressRestore, DiscardUpdate, Released, vars, history
  <2> QED
    BY <1>1, <1>2, <2>1 DEF GoesOn
<1>11. CASE Manual(s)
  <2>1. /\ press[s].pc = "idle" /\ UNCHANGED <<run, press, suggestion, texts>>
        /\ \A p \in Staff \ {s} : reply'[p] = reply[p]
    BY <1>1, <1>11
       DEF Manual, ReplySave, ReplyWork, ReplyAccepted, ReplyFailed, ReplyContact, ReplyLost, copilot, history
  <2> QED
    BY <1>1, <1>2, <2>1 DEF GoesOn
<1> QED
  BY <1>3, <1>4, <1>5, <1>6, <1>7, <1>8, <1>9, <1>10, <1>11 DEF Person

LEMMA NextKInv == ASSUME CInv, [CopilotNext]_allVars PROVE KInv'
<1>1. /\ clock \in Int /\ clock' \in Int /\ clock <= clock' /\ SomeIsLast'
      /\ \A t \in Times : Answered(t) => Answered(t)'
      /\ Times \subseteq Int /\ Times \subseteq Stamp /\ Stamp \subseteq Int
      /\ \A n \in Int : n <= clock => n <= clock'
  <2>1. /\ clock \in Int /\ clock' \in Int /\ clock <= clock' /\ SomeIsLast'
        /\ \A t \in Times : message[t] \in {"out", "failed"} => message'[t] \in {"out", "failed"}
    BY StepIsConversation, MessagesGoOn DEF CInv, KInv
  <2> QED
    BY <2>1, IdleTyped DEF Answered
<1>2. /\ run \in [Runs -> [pc: {"idle", "engine", "supersede"}, at: Stamp]]
      /\ suggestion \in [Times -> Open \cup {"none", "sent", "superseded", "discarded"}]
      /\ Idle \in [pc: {"idle", "engine", "supersede"}, at: Stamp] /\ Idle.pc = "idle"
  BY IdleTyped DEF CInv, KInv, RunsTyped, SuggestionsTyped, Idle
<1>3. ASSUME UNCHANGED run
      PROVE  RunsTyped' /\ \A k \in Runs : run'[k].pc # "idle" => run'[k].at \in Times /\ run'[k].at <= clock'
  BY <1>1, <1>3 DEF CInv, KInv, RunsTyped, KnownTimes
<1>4. ASSUME UNCHANGED <<press, reply, texts>>
      PROVE  /\ RepliesOfPresses' /\ LeftIsAnswered'
             /\ \A s \in Staff : press'[s].pc # "idle" => press'[s].at <= clock'
  <2>1. RepliesOfPresses'
    BY <1>4 DEF CInv, KInv, RepliesOfPresses
  <2>2. LeftIsAnswered'
    BY <1>1, <1>4 DEF CInv, KInv, LeftIsAnswered
  <2>3. \A s \in Staff : press[s].at \in Stamp
    BY DEF CInv, SuggestionsTyped
  <2> QED
    BY <1>1, <1>4, <2>1, <2>2, <2>3, IdleTyped DEF CInv, KInv, KnownTimes
<1>5. CASE Conversation \/ (\E h \in Hooks : Heard(h)) \/ UNCHANGED allVars
  <2>1. UNCHANGED <<run, suggestion, press, reply, texts>>
    BY <1>5 DEF Conversation, Heard, HookCount, Write, EscalateRead, EscalateMark, HookInsert, HookCheck,
                allVars, vars, copilot, history
  <2>2. \A t \in Times : suggestion'[t] # "none" => t <= clock'
    BY <1>1, <2>1 DEF CInv, KInv, KnownTimes
  <2> QED
    BY <1>1, <1>3, <1>4, <2>1, <2>2 DEF KInv, KnownTimes
<1>6. ASSUME NEW k \in Runs, RunRead(k) \/ RunSave(k) \/ RunSupersede(k)
      PROVE  KInv'
  <2>1. UNCHANGED <<clock, press, reply, texts>>
    BY <1>6 DEF RunRead, RunSave, RunSupersede, vars, history
  <2>2. PICK q \in [pc: {"idle", "engine", "supersede"}, at: Stamp] :
               /\ run' = [run EXCEPT ![k] = q] /\ (q.pc # "idle" => q.at \in Times /\ q.at <= clock)
               /\ \A t \in Times : suggestion'[t] # "none" => suggestion[t] # "none" \/ t <= clock
    <3>1. CASE RunRead(k) /\ Unanswered # 0 /\ suggestion[Unanswered] = "none"
      <4>1. PICK q : q = [pc |-> "engine", at |-> Unanswered]
        OBVIOUS
      <4>2. Unanswered \in Times /\ Unanswered <= clock
        BY <3>1, UnansweredIs DEF CInv, KInv
      <4>3. q \in [pc: {"idle", "engine", "supersede"}, at: Stamp] /\ q.at = Unanswered
        BY <1>1, <4>1, <4>2
      <4>4. run' = [run EXCEPT ![k] = q] /\ UNCHANGED suggestion
        BY <3>1, <4>1 DEF RunRead
      <4> QED
        BY <4>2, <4>3, <4>4
    <3>2. CASE RunRead(k) /\ ~(Unanswered # 0 /\ suggestion[Unanswered] = "none")
      <4>1. run' = [run EXCEPT ![k] = run[k]] /\ run[k].pc = "idle" /\ UNCHANGED suggestion
        BY <1>2, <3>2 DEF RunRead
      <4>2. run[k] \in [pc: {"idle", "engine", "supersede"}, at: Stamp]
        BY <1>2
      <4> QED
        BY <4>1, <4>2
    <3>3. CASE RunSave(k)
      <4>1. run[k].at \in Times /\ run[k].at <= clock
        BY <3>3 DEF RunSave, CInv, KInv, KnownTimes
      <4>2. PICK q : q = [run[k] EXCEPT !.pc = "supersede"]
        OBVIOUS
      <4>3. q \in [pc: {"idle", "engine", "supersede"}, at: Stamp] /\ q.at = run[k].at
        BY <1>2, <4>2
      <4>4. /\ run' = [run EXCEPT ![k] = q] \/ run' = [run EXCEPT ![k] = Idle]
            /\ \A t \in Times : t # run[k].at => suggestion'[t] = suggestion[t]
        BY <1>2, <3>3, <4>2 DEF RunSave
      <4> QED
        BY <1>2, <4>1, <4>3, <4>4
    <3>4. CASE RunSupersede(k)
      <4>1. run' = [run EXCEPT ![k] = Idle] /\ \A t \in Times : suggestion'[t] # "none" => suggestion[t] # "none"
        BY <1>2, <3>4 DEF RunSupersede, Open
      <4> QED
        BY <1>2, <4>1
    <3> QED
      BY <1>6, <3>1, <3>2, <3>3, <3>4
  <2>3. \A l \in Runs : run'[l] = IF l = k THEN q ELSE run[l]
    BY <1>2, <2>2
  <2>4. RunsTyped' /\ \A l \in Runs : run'[l].pc # "idle" => run'[l].at \in Times /\ run'[l].at <= clock'
    BY <1>2, <2>1, <2>2, <2>3 DEF CInv, KInv, RunsTyped, KnownTimes
  <2>5. \A t \in Times : suggestion'[t] # "none" => t <= clock'
    BY <2>1, <2>2 DEF CInv, KInv, KnownTimes
  <2> QED
    BY <1>1, <1>4, <2>1, <2>4, <2>5 DEF KInv, KnownTimes
<1>7. ASSUME NEW s \in Staff, Person(s)
      PROVE  KInv'
  <2>1. GoesOn(s)
    BY <1>7, PersonGoesOn
  <2>2. \A p \in Staff : press[p].at \in Int /\ (press[p].pc # "idle" => press[p].at <= clock)
    BY IdleTyped DEF CInv, KInv, KnownTimes, SuggestionsTyped
  <2>3. \A t \in Times : suggestion'[t] # "none" => t <= clock'
    BY <1>1, <2>1 DEF GoesOn, CInv, KInv, KnownTimes
  <2>4. \A p \in Staff : press'[p].pc # "idle" => press'[p].at <= clock'
    BY <1>1, <2>1, <2>2 DEF GoesOn
  <2>5. RepliesOfPresses'
    BY <2>1 DEF GoesOn, CInv, KInv, RepliesOfPresses
  <2>6. LeftIsAnswered'
    BY <1>1, <2>1 DEF GoesOn, CInv, KInv, LeftIsAnswered
  <2> QED
    BY <1>1, <1>3, <2>1, <2>3, <2>4, <2>5, <2>6 DEF GoesOn, KInv, KnownTimes
<1> QED
  BY <1>5, <1>6, <1>7 DEF CopilotNext

\* Nobody presses anything: suggestions that are claimed or left do not change.
LEMMA AnalysisCInv ==
    ASSUME CInv, MInv', KInv', UNCHANGED <<press, history, reply>>,
           suggestion' \in [Times -> Open \cup {"none", "sent", "superseded", "discarded"}],
           \A t \in Times : suggestion[t] \in {"sent", "discarded"} => suggestion'[t] = suggestion[t]
    PROVE  CInv'
<1>1. SuggestionsTyped'
  BY DEF CInv, SuggestionsTyped, history
<1>2. PressesHold' /\ ClaimedIsClosed' /\ ClaimedOnce'
  BY DEF CInv, PressesHold, ClaimedIsClosed, ClaimedOnce, Claims
<1>3. LeftOnce'
  BY DEF CInv, LeftOnce, Closed, GivenBack, AboutToClaim, Claims, history
<1> QED
  BY <1>1, <1>2, <1>3 DEF CInv

\* A person who claims nothing goes on to q, claiming nothing nor about to claim what
\* left; suggestions that are claimed or left stay closed.
LEMMA QuietPressCInv ==
    ASSUME CInv, MInv', KInv', NEW s \in Staff, press[s].pc \notin {"send", "restore"},
           NEW q \in [pc: {"idle", "current", "claim", "discard"}, at: Stamp], q.pc # "idle" => q.at \in Times,
           q.pc = "claim" => texts[q.at] = 0,
           press' = [press EXCEPT ![s] = q], UNCHANGED history,
           \A p \in Staff \ {s} : reply'[p] = reply[p],
           suggestion' \in [Times -> Open \cup {"none", "sent", "superseded", "discarded"}],
           \A t \in Times : suggestion[t] \in {"sent", "discarded"} => suggestion'[t] \in {"sent", "discarded"}
    PROVE  CInv'
<1>1. SuggestionsTyped' /\ \A p \in Staff : press'[p] = IF p = s THEN q ELSE press[p]
  BY DEF CInv, SuggestionsTyped, history
<1>2. \A p \in Staff, t \in Times : Claims(p, t)' => p # s /\ Claims(p, t)
  BY <1>1 DEF Claims
<1>3. PressesHold'
  BY <1>1 DEF CInv, PressesHold
<1>4. ClaimedIsClosed' /\ ClaimedOnce'
  BY <1>2 DEF CInv, ClaimedIsClosed, ClaimedOnce
<1>5. ASSUME NEW t \in Times, Closed(t)
      PROVE  Closed(t)'
  BY <1>1, <1>2, <1>5 DEF Closed
<1>6. ASSUME NEW t \in Times, GivenBack(t), texts[t] > 0
      PROVE  GivenBack(t)'
  BY <1>1, <1>2, <1>6 DEF GivenBack, AboutToClaim
<1>7. LeftOnce'
  BY <1>5, <1>6 DEF CInv, LeftOnce, history
<1> QED
  BY <1>1, <1>3, <1>4, <1>7 DEF CInv

\* A person who claims a suggestion sends it, or goes on to give it back: claims are
\* not made nor lost.
LEMMA SendingClaims ==
    ASSUME CInv, NEW s \in Staff, press[s].pc = "send",
           NEW label \in {"send", "restore"}, press' = [press EXCEPT ![s].pc = label], UNCHANGED <<suggestion, doubted>>,
           texts' \in [Times -> 0..2]
    PROVE  /\ SuggestionsTyped' /\ PressesHold' /\ ClaimedIsClosed' /\ ClaimedOnce'
           /\ \A p \in Staff : p # s => press'[p] = press[p]
           /\ press'[s].pc = label /\ press'[s].at = press[s].at
           /\ \A p \in Staff, t \in Times : Claims(p, t)' <=> Claims(p, t)
           /\ \A p \in Staff, t \in Times : AboutToClaim(p, t)' <=> AboutToClaim(p, t)
<1>1. /\ \A p \in Staff : p # s => press'[p] = press[p]
      /\ press'[s].pc = label /\ press'[s].at = press[s].at
  BY DEF CInv, SuggestionsTyped
<1>2. /\ \A p \in Staff, t \in Times : Claims(p, t)' <=> Claims(p, t)
      /\ \A p \in Staff, t \in Times : AboutToClaim(p, t)' <=> AboutToClaim(p, t)
  BY <1>1 DEF Claims, AboutToClaim
<1>3. SuggestionsTyped' /\ PressesHold'
  BY <1>1 DEF CInv, SuggestionsTyped, PressesHold
<1>4. ClaimedIsClosed' /\ ClaimedOnce'
  BY <1>2 DEF CInv, ClaimedIsClosed, ClaimedOnce
<1> QED
  BY <1>1, <1>2, <1>3, <1>4

\* Nothing leaves: what is still to leave, or goes on to be given back.
LEMMA SendingCInv ==
    ASSUME CInv, MInv', KInv', NEW s \in Staff, press[s].pc = "send",
           NEW label \in {"send", "restore"}, press' = [press EXCEPT ![s].pc = label], UNCHANGED <<suggestion, history>>,
           label = "restore" \/ texts[press[s].at] = 0 \/ press[s].at \in doubted,
           \A p \in Staff \ {s} : reply'[p] = reply[p]
    PROVE  CInv'
<1>1. UNCHANGED <<texts, doubted>> /\ texts' \in [Times -> 0..2]
  BY DEF CInv, SuggestionsTyped, history
<1>2. /\ SuggestionsTyped' /\ PressesHold' /\ ClaimedIsClosed' /\ ClaimedOnce'
      /\ \A p \in Staff : p # s => press'[p] = press[p]
      /\ press'[s].pc = label /\ press'[s].at = press[s].at
      /\ \A p \in Staff, t \in Times : Claims(p, t)' <=> Claims(p, t)
      /\ \A p \in Staff, t \in Times : AboutToClaim(p, t)' <=> AboutToClaim(p, t)
  BY <1>1, SendingClaims
<1>3. ASSUME NEW t \in Times, texts[t] > 0, t \notin doubted, Closed(t)
      PROVE  Closed(t)'
  BY <1>2, <1>3 DEF Closed, Claims
<1>4. ASSUME NEW t \in Times, GivenBack(t)
      PROVE  GivenBack(t)'
  BY <1>2, <1>4 DEF GivenBack
<1>5. LeftOnce'
  BY <1>1, <1>3, <1>4 DEF CInv, LeftOnce
<1> QED
  BY <1>2, <1>5 DEF CInv

\* The text leaves, for the first time or with a doubt.
LEMMA LeavingCInv ==
    ASSUME CInv, MInv', KInv', NEW s \in Staff, NEW t \in Times, Claims(s, t), press[s].pc = "send",
           NEW label \in {"send", "restore"}, press' = [press EXCEPT ![s].pc = label], UNCHANGED <<suggestion, doubted>>,
           texts[t] = 0 \/ t \in doubted, Left(t),
           label = "restore" \/ reply'[s].pc = "contact",
           \A p \in Staff \ {s} : reply'[p] = reply[p]
    PROVE  CInv'
<1>1. /\ texts' \in [Times -> 0..2]
      /\ texts[t] = 0 => texts'[t] = 1
      /\ \A u \in Times : u # t => texts'[u] = texts[u]
  BY OneMoreTyped DEF CInv, SuggestionsTyped, Left
<1>2. /\ SuggestionsTyped' /\ PressesHold' /\ ClaimedIsClosed' /\ ClaimedOnce'
      /\ \A p \in Staff : p # s => press'[p] = press[p]
      /\ press'[s].pc = label /\ press'[s].at = press[s].at
      /\ \A p \in Staff, u \in Times : Claims(p, u)' <=> Claims(p, u)
      /\ \A p \in Staff, u \in Times : AboutToClaim(p, u)' <=> AboutToClaim(p, u)
  BY <1>1, SendingClaims
<1>3. \A p \in Staff, u \in Times : Claims(p, u) => (p = s <=> u = t)
  BY DEF CInv, ClaimedOnce, Claims
<1>4. Closed(t)'
  BY <1>2, <1>3 DEF CInv, ClaimedIsClosed, Closed
<1>5. ASSUME NEW u \in Times, u # t, Closed(u)
      PROVE  Closed(u)'
  BY <1>2, <1>3, <1>5 DEF Closed
<1>6. ASSUME NEW u \in Times, GivenBack(u)
      PROVE  GivenBack(u)'
  BY <1>2, <1>6 DEF GivenBack
<1>7. LeftOnce'
  BY <1>1, <1>4, <1>5, <1>6 DEF CInv, LeftOnce
<1> QED
  BY <1>2, <1>7 DEF CInv

\* A person gives up a claim: the suggestion is as it was, or is given back without
\* having left, with a doubt or with nobody about to claim it.
LEMMA ReleaseCInv ==
    ASSUME CInv, MInv', KInv', NEW s \in Staff, NEW t \in Times, Claims(s, t), Released(s), UNCHANGED texts,
           doubted' \in SUBSET Times, doubted \subseteq doubted',
           \A p \in Staff \ {s} : reply'[p] = reply[p],
           \/ UNCHANGED suggestion
           \/ /\ suggestion' = [suggestion EXCEPT ![t] = "pending"]
              /\ texts[t] = 0 \/ t \in doubted' \/ \A p \in Staff : ~AboutToClaim(p, t)
    PROVE  CInv'
<1>1. /\ \A p \in Staff : press'[p] = IF p = s THEN Idle ELSE press[p]
      /\ press' \in [Staff -> [pc: {"idle", "current", "claim", "send", "restore", "discard"}, at: Stamp]]
      /\ Idle.pc = "idle"
  BY IdleTyped DEF CInv, SuggestionsTyped, Released, Idle
<1>2. SuggestionsTyped' /\ \A u \in Times : u # t => suggestion'[u] = suggestion[u]
  BY <1>1 DEF CInv, SuggestionsTyped, Open
<1>3. \A p \in Staff, u \in Times : Claims(p, u)' => p # s /\ u # t /\ Claims(p, u)
  BY <1>1 DEF Claims, CInv, ClaimedOnce
<1>4. PressesHold'
  BY <1>1 DEF CInv, PressesHold
<1>5. ClaimedIsClosed' /\ ClaimedOnce'
  BY <1>2, <1>3 DEF CInv, ClaimedIsClosed, ClaimedOnce
<1>6. \A p \in Staff, u \in Times : AboutToClaim(p, u)' => AboutToClaim(p, u)
  BY <1>1 DEF AboutToClaim
<1>7. ASSUME NEW u \in Times, Closed(u), suggestion'[u] = suggestion[u]
      PROVE  Closed(u)'
  BY <1>1, <1>3, <1>7 DEF Closed
<1>8. ASSUME NEW u \in Times, GivenBack(u)
      PROVE  GivenBack(u)'
  BY <1>3, <1>6, <1>8 DEF GivenBack
<1>9. ASSUME texts[t] > 0, t \notin doubted', ~UNCHANGED suggestion
      PROVE  GivenBack(t)'
  BY <1>3, <1>6, <1>9 DEF CInv, SuggestionsTyped, GivenBack
<1>10. LeftOnce'
  BY <1>2, <1>7, <1>8, <1>9 DEF CInv, LeftOnce
<1> QED
  BY <1>2, <1>4, <1>5, <1>10 DEF CInv

LEMMA RepliesOfOthers ==
    ASSUME CInv, NEW s \in Staff, ReplySave(s) \/ ReplyWork(s)
    PROVE  \A p \in Staff \ {s} : reply'[p] = reply[p]
BY DEF CInv, MInv, TypeOK, ReplySave, ReplyWork, ReplyAccepted, ReplyFailed, ReplyContact, ReplyLost

LEMMA PersonCInv == ASSUME CInv, MInv', KInv', NEW s \in Staff, Person(s) PROVE CInv'
<1>1. /\ press[s].at \in Stamp /\ (press[s].pc # "idle" => press[s].at \in Times)
      /\ suggestion \in [Times -> Open \cup {"none", "sent", "superseded", "discarded"}]
      /\ Idle \in [pc: {"idle", "current", "claim", "discard"}, at: Stamp] /\ Idle.pc = "idle"
  BY IdleTyped DEF CInv, SuggestionsTyped, PressesHold, Idle
<1>2. ASSUME NEW label \in {"current", "discard"}, NEW t \in Times, Pressed(s, label, t), UNCHANGED <<reply, suggestion, history>>
      PROVE  CInv'
  <2>1. PICK q : q = [pc |-> label, at |-> t]
    OBVIOUS
  <2>2. q \in [pc: {"idle", "current", "claim", "discard"}, at: Stamp] /\ q.at = t /\ q.pc = label
    BY <2>1, IdleTyped
  <2>3. press[s].pc = "idle" /\ press' = [press EXCEPT ![s] = q]
    BY <1>2, <2>1 DEF Pressed
  <2> QED
    BY <1>1, <1>2, <2>2, <2>3, QuietPressCInv
<1>3. ASSUME NEW t \in Times, PressRead(s, t) \/ DiscardRead(s, t)
      PROVE  CInv'
  BY <1>2, <1>3 DEF PressRead, DiscardRead, vars
<1>4. CASE PressCurrent(s) /\ Unanswered = press[s].at
  <2>1. PICK q : q = [press[s] EXCEPT !.pc = "claim"]
    OBVIOUS
  <2>2. press' = [press EXCEPT ![s] = q] /\ press[s].pc = "current" /\ UNCHANGED <<reply, suggestion, history>>
    BY <1>4, <2>1 DEF PressCurrent, Step, vars
  <2>3. q \in [pc: {"idle", "current", "claim", "discard"}, at: Stamp] /\ q.at = press[s].at
    BY <2>1 DEF CInv, SuggestionsTyped
  <2>4. Unanswered # 0 /\ press[s].at \in Times
    BY <1>1, <1>4, <2>2, ConstantsAssumption DEF Times
  <2>5. texts[q.at] = 0
    BY <1>4, <2>3, <2>4, UnansweredIs DEF CInv, KInv, LeftIsAnswered, SuggestionsTyped
  <2> QED
    BY <1>1, <2>2, <2>3, <2>5, QuietPressCInv
<1>5. CASE PressCurrent(s) /\ Unanswered # press[s].at
  <2>1. /\ press' = [press EXCEPT ![s] = Idle] /\ press[s].pc = "current" /\ UNCHANGED <<reply, history>>
        /\ suggestion' = IF suggestion[press[s].at] = "pending" THEN [suggestion EXCEPT ![press[s].at] = "superseded"]
                         ELSE suggestion
    BY <1>5 DEF PressCurrent, Released, vars
  <2>2. /\ suggestion' \in [Times -> Open \cup {"none", "sent", "superseded", "discarded"}]
        /\ \A t \in Times : suggestion[t] \in {"sent", "discarded"} => suggestion'[t] \in {"sent", "discarded"}
    BY <1>1, <2>1
  <2>3. PICK q : q = Idle
    OBVIOUS
  <2> QED
    BY <1>1, <2>1, <2>2, <2>3, QuietPressCInv
<1>6. CASE PressClaim(s) /\ suggestion[press[s].at] # "pending"
  <2>1. press' = [press EXCEPT ![s] = Idle] /\ press[s].pc = "claim" /\ UNCHANGED <<reply, suggestion, history>>
    BY <1>6 DEF PressClaim, Released, vars
  <2>2. PICK q : q = Idle
    OBVIOUS
  <2> QED
    BY <1>1, <2>1, <2>2, QuietPressCInv
<1>7. CASE PressClaim(s) /\ suggestion[press[s].at] = "pending"
  <2>1. PICK t \in Times : t = press[s].at
    BY <1>1, <1>7 DEF PressClaim
  <2>2. /\ press[s].pc = "claim" /\ press' = [press EXCEPT ![s].pc = "send"] /\ suggestion[t] = "pending"
        /\ suggestion' = [suggestion EXCEPT ![t] = "sent"] /\ UNCHANGED <<reply, history>>
    BY <1>7, <2>1 DEF PressClaim, Step, vars
  <2>3. /\ texts[t] = 0 \/ t \in doubted
        /\ \A p \in Staff : ~Claims(p, t)
    BY <2>1, <2>2 DEF CInv, SuggestionsTyped, LeftOnce, Closed, GivenBack, AboutToClaim, ClaimedIsClosed
  <2>4. /\ \A p \in Staff : p # s => press'[p] = press[p]
        /\ press'[s].pc = "send" /\ press'[s].at = t
        /\ \A u \in Times : suggestion'[u] = IF u = t THEN "sent" ELSE suggestion[u]
    BY <1>1, <2>1, <2>2 DEF CInv, SuggestionsTyped
  <2>5. SuggestionsTyped'
    BY <2>2 DEF CInv, SuggestionsTyped, history
  <2>6. \A p \in Staff, u \in Times : Claims(p, u)' <=> Claims(p, u) \/ (p = s /\ u = t)
    BY <2>2, <2>4 DEF Claims
  <2>7. PressesHold'
    BY <2>4 DEF CInv, PressesHold
  <2>8. ClaimedIsClosed' /\ ClaimedOnce'
    BY <2>3, <2>4, <2>6 DEF CInv, ClaimedIsClosed, ClaimedOnce
  <2>9. LeftOnce'
    <3>1. ASSUME NEW u \in Times, u # t, Closed(u)
          PROVE  Closed(u)'
      BY <2>2, <2>4, <2>6, <3>1 DEF Closed
    <3>2. ASSUME NEW u \in Times, u # t, GivenBack(u)
          PROVE  GivenBack(u)'
      BY <2>4, <2>6, <3>2 DEF GivenBack, AboutToClaim
    <3> QED
      BY <2>2, <2>3, <3>1, <3>2 DEF CInv, LeftOnce, history
  <2> QED
    BY <2>5, <2>7, <2>8, <2>9 DEF CInv
<1>8. ASSUME press[s].pc = "send", reply[s].pc # "contact"
      PROVE  texts[press[s].at] = 0 \/ press[s].at \in doubted
  BY <1>1, <1>8 DEF CInv, SuggestionsTyped, LeftOnce, Closed, GivenBack, Claims
<1>9. CASE PressSend(s)
  <2>1. press[s].pc = "send" /\ reply[s].pc = "idle" /\ UNCHANGED <<press, suggestion, history>>
    BY <1>9 DEF PressSend, ReplySave, MayReply, copilot
  <2>2. press' = [press EXCEPT ![s].pc = "send"]
    BY <2>1 DEF CInv, SuggestionsTyped
  <2> QED
    BY <1>8, <1>9, <2>1, <2>2, RepliesOfOthers, SendingCInv DEF PressSend
<1>10. CASE PressRefused(s)
  BY <1>10, SendingCInv DEF PressRefused, Step, vars
<1>11. CASE PressFailed(s) /\ UNCHANGED texts
  BY <1>11, RepliesOfOthers, SendingCInv DEF PressFailed, Step, ReplyWork, history
<1>12. CASE (PressFailed(s) /\ Left(press[s].at)) \/ PressAccepted(s)
  <2>1. PICK t \in Times : t = press[s].at
    BY <1>1, <1>12 DEF PressAccepted, PressFailed
  <2>2. /\ press[s].pc = "send" /\ reply[s].pc = "meta" /\ Claims(s, t)
        /\ Left(t) /\ UNCHANGED <<suggestion, doubted>> /\ ReplyWork(s)
    BY <1>12, <2>1 DEF PressAccepted, PressFailed, ReplyAccepted, ReplyFailed, ReplyWork, Claims
  <2>3. texts[t] = 0 \/ t \in doubted
    BY <1>8, <2>1, <2>2
  <2>4. CASE PressAccepted(s)
    <3>1. press' = [press EXCEPT ![s].pc = "send"]
      BY <2>2, <2>4 DEF PressAccepted, CInv, SuggestionsTyped
    <3>2. reply'[s].pc = "contact"
      BY <2>4 DEF PressAccepted, ReplyAccepted, CInv, MInv, TypeOK
    <3> QED
      BY <2>2, <2>3, <3>1, <3>2, RepliesOfOthers, LeavingCInv
  <2>5. CASE PressFailed(s)
    BY <2>2, <2>3, <2>5, RepliesOfOthers, LeavingCInv DEF PressFailed, Step
  <2> QED
    BY <1>12, <2>4, <2>5
<1>17. CASE PressLost(s)
  BY <1>17, RepliesOfOthers, SendingCInv DEF PressLost, Step, ReplyWork
<1>13. CASE PressDone(s)
  <2>1. Claims(s, press[s].at) /\ Released(s) /\ UNCHANGED <<suggestion, texts, doubted>> /\ ReplyWork(s) /\ press[s].pc = "send"
    BY <1>13 DEF PressDone, Claims, ReplyWork, history
  <2>2. doubted' \in SUBSET Times
    BY <2>1 DEF CInv, SuggestionsTyped
  <2> QED
    BY <1>1, <2>1, <2>2, RepliesOfOthers, ReleaseCInv
<1>14. CASE PressRestore(s)
  <2>1. PICK t \in Times : t = press[s].at
    BY <1>1, <1>14 DEF PressRestore
  <2>2. /\ Claims(s, t) /\ Released(s) /\ UNCHANGED <<reply, texts>> /\ press[s].pc = "restore"
        /\ \/ UNCHANGED <<suggestion, doubted>>
           \/ /\ suggestion' = [suggestion EXCEPT ![t] = "pending"]
              /\ doubted' = IF texts[t] > 0 /\ \E p \in Staff : AboutToClaim(p, t) THEN doubted \cup {t} ELSE doubted
    BY <1>14, <2>1 DEF PressRestore, Claims, vars
  <2>3. /\ doubted' \in SUBSET Times /\ doubted \subseteq doubted'
        /\ \/ UNCHANGED suggestion
           \/ /\ suggestion' = [suggestion EXCEPT ![t] = "pending"]
              /\ texts[t] = 0 \/ t \in doubted' \/ \A p \in Staff : ~AboutToClaim(p, t)
    BY <2>2 DEF CInv, SuggestionsTyped
  <2> QED
    BY <2>2, <2>3, ReleaseCInv
<1>15. CASE DiscardUpdate(s)
  <2>1. /\ press' = [press EXCEPT ![s] = Idle] /\ press[s].pc = "discard" /\ UNCHANGED <<reply, history>>
        /\ suggestion' = [suggestion EXCEPT ![press[s].at] = "discarded"]
    BY <1>15 DEF DiscardUpdate, Released, vars
  <2>2. /\ suggestion' \in [Times -> Open \cup {"none", "sent", "superseded", "discarded"}]
        /\ \A t \in Times : suggestion[t] \in {"sent", "discarded"} => suggestion'[t] \in {"sent", "discarded"}
    BY <1>1, <2>1
  <2>3. PICK q : q = Idle
    OBVIOUS
  <2> QED
    BY <1>1, <2>1, <2>2, <2>3, QuietPressCInv
<1>16. CASE Manual(s)
  <2>1. press[s].pc = "idle" /\ (ReplySave(s) \/ ReplyWork(s)) /\ UNCHANGED <<press, suggestion, history>>
    BY <1>16 DEF Manual, copilot
  <2>2. PICK q : q = press[s]
    OBVIOUS
  <2>3. press' = [press EXCEPT ![s] = q] /\ q \in [pc: {"idle", "current", "claim", "discard"}, at: Stamp] /\ q.pc = "idle"
    BY <2>1, <2>2 DEF CInv, SuggestionsTyped
  <2> QED
    BY <1>1, <2>1, <2>3, RepliesOfOthers, QuietPressCInv
<1> QED
  BY <1>3, <1>4, <1>5, <1>6, <1>7, <1>9, <1>10, <1>11, <1>12, <1>13, <1>14, <1>15, <1>16, <1>17
     DEF Person, PressFailed

LEMMA NextCInv == CInv /\ [CopilotNext]_allVars => CInv'
<1> SUFFICES ASSUME CInv, [CopilotNext]_allVars PROVE CInv'
  OBVIOUS
<1>1. MInv' /\ KInv'
  BY StepIsConversation, NextMInv, NextKInv DEF CInv
<1>2. suggestion \in [Times -> Open \cup {"none", "sent", "superseded", "discarded"}]
  BY DEF CInv, SuggestionsTyped
<1>3. CASE Conversation
  BY <1>1, <1>2, <1>3, AnalysisCInv
     DEF Conversation, copilot, Write, EscalateRead, EscalateMark, HookInsert, HookCheck
<1>4. ASSUME NEW h \in Hooks, Heard(h)
      PROVE  CInv'
  BY <1>1, <1>2, <1>4, AnalysisCInv DEF Heard, HookCount
<1>5. ASSUME NEW k \in Runs, RunRead(k)
      PROVE  CInv'
  BY <1>1, <1>2, <1>5, AnalysisCInv DEF RunRead, vars
<1>6. ASSUME NEW k \in Runs, RunSave(k)
      PROVE  CInv'
  <2>1. CASE suggestion[run[k].at] = "none"
    <3>1. PICK status \in Open : suggestion' = [suggestion EXCEPT ![run[k].at] = status]
      BY <1>6, <2>1 DEF RunSave
    <3>2. /\ suggestion' \in [Times -> Open \cup {"none", "sent", "superseded", "discarded"}]
          /\ \A t \in Times : suggestion[t] \in {"sent", "discarded"} => suggestion'[t] = suggestion[t]
      BY <1>2, <2>1, <3>1
    <3> QED
      BY <1>1, <1>6, <3>2, AnalysisCInv DEF RunSave, vars
  <2>2. CASE suggestion[run[k].at] # "none"
    BY <1>1, <1>2, <1>6, <2>2, AnalysisCInv DEF RunSave, vars
  <2> QED
    BY <2>1, <2>2
<1>7. ASSUME NEW k \in Runs, RunSupersede(k)
      PROVE  CInv'
  <2>1. /\ suggestion' \in [Times -> Open \cup {"none", "sent", "superseded", "discarded"}]
        /\ \A t \in Times : suggestion[t] \in {"sent", "discarded"} => suggestion'[t] = suggestion[t]
    BY <1>2, <1>7 DEF RunSupersede, Open
  <2> QED
    BY <1>1, <1>7, <2>1, AnalysisCInv DEF RunSupersede, vars
<1>8. CASE UNCHANGED allVars
  BY <1>1, <1>2, <1>8, AnalysisCInv DEF allVars, vars, copilot
<1> QED
  BY <1>1, <1>3, <1>4, <1>5, <1>6, <1>7, <1>8, PersonCInv DEF CopilotNext

\* "dos personas pulsando a la vez no mandan dos mensajes": any number of persons,
\* whatever is discarded, refused, given back or analysed again meanwhile, send the
\* text of a suggestion at most once, also when sending fails after Meta took it.
\* The exception is what the code does: it is given back after it left while
\* somebody, past assertStillCurrent, is about to claim it.
THEOREM SpecSuggestionSentOnce == CopilotSpec => []SuggestionSentOnce
<1>1. CInv => SuggestionSentOnce
  BY DEF CInv, SuggestionsTyped, LeftOnce, SuggestionSentOnce
<1> QED
  BY <1>1, InitCInv, NextCInv, PTL DEF CopilotSpec
=============================================================================
