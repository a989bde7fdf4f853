------------------------------ MODULE Copilot ------------------------------
(***************************************************************************)
(* The copilot of the WhatsApp inbox beside the conversation of Messaging: *)
(* some seconds after a message it reads the conversation, asks a model    *)
(* for an answer and saves a suggestion, which a person sends or discards. *)
(*                                                                         *)
(* A suggestion is identified by the message that triggered it, which is   *)
(* unique.  What it says is not modelled.                                  *)
(***************************************************************************)
EXTENDS Messaging

CONSTANTS
    Runs    \* analyses under way at the same time

VARIABLES
    timer,       \* is an analysis scheduled?
    run,         \* analyses under way
    suggestion,  \* table wa_suggestions
    press,       \* persons who pressed Send
    texts,       \* how many times the text of each suggestion left, 2 for more
    doubted      \* suggestions given back to a person after their text had left

history == <<texts, doubted>>
copilot == <<timer, run, suggestion, press, history>>
allVars == <<vars, copilot>>

(***************************************************************************)
(* Types.                                                                  *)
(***************************************************************************)
Open == {"pending", "failed"}

CopilotTypeOK ==
    /\ TypeOK
    /\ timer \in BOOLEAN
    /\ run \in [Runs -> [pc: {"idle", "engine", "supersede"}, at: Stamp]]
    /\ suggestion \in [Times -> Open \cup {"none", "sent", "superseded", "discarded"}]
    /\ press \in [Staff -> [pc: {"idle", "current", "claim", "send", "restore", "discard"}, at: Stamp]]
    /\ texts \in [Times -> 0..2]
    /\ doubted \in SUBSET Times

CopilotInit ==
    /\ Init
    /\ timer = FALSE
    /\ run = [k \in Runs |-> Idle]
    /\ suggestion = [t \in Times |-> "none"]
    /\ press = [s \in Staff |-> Idle]
    /\ texts = [t \in Times |-> 0]
    /\ doubted = {}

(***************************************************************************)
(* conversationState: the last message of the client, 0 when there is none *)
(* or a person wrote after it.                                             *)
(***************************************************************************)
Unanswered ==
    LET ins == {t \in Times : message[t] = "in"}
        last == CHOOSE t \in ins : \A u \in ins : u <= t
    IN  IF ins = {} \/ (\E u \in Times : u > last /\ message[u] \in {"out", "failed"}) THEN 0 ELSE last

(***************************************************************************)
(* schedule and run.                                                       *)
(***************************************************************************)
\* The listener of ingestMessage.
Heard(h) ==
    /\ HookCount(h)
    /\ timer' = TRUE
    /\ UNCHANGED <<run, suggestion, press, history>>

RunRead(k) ==
    /\ timer
    /\ run[k].pc = "idle"
    /\ timer' = FALSE
    /\ run' = IF Unanswered # 0 /\ suggestion[Unanswered] = "none"
              THEN [run EXCEPT ![k] = [pc |-> "engine", at |-> Unanswered]] ELSE run
    /\ UNCHANGED <<vars, suggestion, press, history>>

\* The model answers or not; a message has one suggestion.
RunSave(k) ==
    /\ run[k].pc = "engine"
    /\ IF suggestion[run[k].at] = "none"
       THEN /\ \E status \in Open : suggestion' = [suggestion EXCEPT ![run[k].at] = status]
            /\ run' = [run EXCEPT ![k].pc = "supersede"]
       ELSE /\ run' = [run EXCEPT ![k] = Idle]
            /\ UNCHANGED suggestion
    /\ UNCHANGED <<vars, timer, press, history>>

RunSupersede(k) ==
    /\ run[k].pc = "supersede"
    /\ suggestion' = [t \in Times |-> IF t # run[k].at /\ suggestion[t] \in Open THEN "superseded"
                                      ELSE suggestion[t]]
    /\ run' = [run EXCEPT ![k] = Idle]
    /\ UNCHANGED <<vars, timer, press, history>>

(***************************************************************************)
(* send: read, assertStillCurrent, claim, the answer of Messaging, and the *)
(* claim given back when it fails.                                         *)
(***************************************************************************)
\* A person does one thing at a time.
Pressed(s, label, t) ==
    /\ press[s].pc = "idle"
    /\ reply[s].pc = "idle"
    /\ press' = [press EXCEPT ![s] = [pc |-> label, at |-> t]]
Step(s, label) == press' = [press EXCEPT ![s].pc = label]
Released(s) == press' = [press EXCEPT ![s] = Idle]
AboutToClaim(s, t) == press[s].pc = "claim" /\ press[s].at = t

PressRead(s, t) ==
    /\ suggestion[t] = "pending"
    /\ Pressed(s, "current", t)
    /\ UNCHANGED <<vars, timer, run, suggestion, history>>

PressCurrent(s) ==
    LET t == press[s].at
    IN  /\ press[s].pc = "current"
        /\ IF Unanswered = t
           THEN Step(s, "claim") /\ UNCHANGED suggestion
           ELSE /\ Released(s)
                /\ suggestion' = IF suggestion[t] = "pending" THEN [suggestion EXCEPT ![t] = "superseded"]
                                 ELSE suggestion
        /\ UNCHANGED <<vars, timer, run, history>>

\* Faulty variant: the claim is by id.
PressClaimById(s) ==
    LET t == press[s].at
    IN  /\ press[s].pc = "claim"
        /\ suggestion' = [suggestion EXCEPT ![t] = "sent"]
        /\ Step(s, "send")
        /\ UNCHANGED <<vars, timer, run, history>>

PressClaim(s) ==
    LET t == press[s].at
    IN  /\ press[s].pc = "claim"
        /\ IF suggestion[t] = "pending"
           THEN suggestion' = [suggestion EXCEPT ![t] = "sent"] /\ Step(s, "send")
           ELSE Released(s) /\ UNCHANGED suggestion
        /\ UNCHANGED <<vars, timer, run, history>>

\* sendText starts, or refuses (the client wrote too long ago).
PressSend(s) ==
    /\ press[s].pc = "send"
    /\ ReplySave(s)
    /\ UNCHANGED copilot

PressRefused(s) ==
    /\ press[s].pc = "send"
    /\ reply[s].pc = "idle"
    /\ Step(s, "restore")
    /\ UNCHANGED <<vars, timer, run, suggestion, history>>

Left(t) == texts' = [texts EXCEPT ![t] = OneMore(texts[t])]

PressAccepted(s) ==
    /\ press[s].pc = "send"
    /\ ReplyAccepted(s)
    /\ Left(press[s].at)
    /\ UNCHANGED <<timer, run, suggestion, press, doubted>>

\* The text left all the same when Meta took a POST that timed out.
PressFailed(s) ==
    /\ press[s].pc = "send"
    /\ ReplyFailed(s)
    /\ Step(s, "restore")
    /\ Left(press[s].at) \/ UNCHANGED texts
    /\ UNCHANGED <<timer, run, suggestion, doubted>>

\* Meta accepted it and the database fails, in Messaging or in send.
PressLost(s) ==
    /\ press[s].pc = "send"
    /\ ReplyLost(s) \/ ReplyContact(s)
    /\ Step(s, "restore")
    /\ UNCHANGED <<timer, run, suggestion, history>>

PressDone(s) ==
    /\ press[s].pc = "send"
    /\ ReplyContact(s)
    /\ Released(s)
    /\ UNCHANGED <<timer, run, suggestion, history>>

\* By id: the claim may have been discarded meanwhile.  Somebody who passed
\* assertStillCurrent may claim it now.  It stays "sent" if that fails too.
PressRestore(s) ==
    LET t == press[s].at
    IN  /\ press[s].pc = "restore"
        /\ \/ /\ suggestion' = [suggestion EXCEPT ![t] = "pending"]
              /\ doubted' = IF texts[t] > 0 /\ \E p \in Staff : AboutToClaim(p, t) THEN doubted \cup {t}
                            ELSE doubted
           \/ UNCHANGED <<suggestion, doubted>>
        /\ Released(s)
        /\ UNCHANGED <<vars, timer, run, texts>>

\* discard: read, then updated by id.
DiscardRead(s, t) ==
    /\ suggestion[t] \in Open
    /\ Pressed(s, "discard", t)
    /\ UNCHANGED <<vars, timer, run, suggestion, history>>

DiscardUpdate(s) ==
    /\ press[s].pc = "discard"
    /\ suggestion' = [suggestion EXCEPT ![press[s].at] = "discarded"]
    /\ Released(s)
    /\ UNCHANGED <<vars, timer, run, history>>

\* An answer of the staff that is not a suggestion.
Manual(s) ==
    /\ press[s].pc = "idle"
    /\ ReplySave(s) \/ ReplyWork(s)
    /\ UNCHANGED copilot

Person(s) ==
    \/ \E t \in Times : PressRead(s, t) \/ DiscardRead(s, t)
    \/ PressCurrent(s) \/ PressClaim(s) \/ PressSend(s) \/ PressRefused(s) \/ PressAccepted(s)
    \/ PressFailed(s) \/ PressLost(s) \/ PressDone(s) \/ PressRestore(s) \/ DiscardUpdate(s) \/ Manual(s)

Conversation ==
    /\ \/ Write \/ EscalateRead \/ EscalateMark
       \/ \E h \in Hooks : HookInsert(h) \/ \E t \in Times : HookCheck(h, t)
    /\ UNCHANGED copilot

CopilotNext ==
    \/ Conversation
    \/ \E h \in Hooks : Heard(h)
    \/ \E k \in Runs : RunRead(k) \/ RunSave(k) \/ RunSupersede(k)
    \/ \E s \in Staff : Person(s)

CopilotSpec == CopilotInit /\ [][CopilotNext]_allVars

(***************************************************************************)
(* Safety.                                                                 *)
(***************************************************************************)
\* "dos personas pulsando a la vez no mandan dos mensajes": the text of a
\* suggestion leaves once, whatever is discarded, refused, analysed again or given
\* back while it is sent, and given back after it left nobody sends it who looks at
\* it then.  The exception is what the code does: a sending fails after Meta took
\* the text, and the suggestion is given back while somebody else, past
\* assertStillCurrent, is about to claim it.
SuggestionSentOnce == \A t \in Times : texts[t] > 1 => t \in doubted
=============================================================================
