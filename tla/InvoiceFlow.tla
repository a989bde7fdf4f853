----------------------------- MODULE InvoiceFlow -----------------------------
(***************************************************************************)
(* Supplier invoices by WhatsApp: one colleague sends the photo of an      *)
(* invoice, the flow reads it, asks for a destination and registers it     *)
(* when the colleague confirms.  The conversation is in memory; several    *)
(* webhooks of the colleague are handled at once.                          *)
(*                                                                         *)
(* A photo is one invoice and may come any number of times (sent again, or *)
(* delivered again).  What was read, the search of a project and the       *)
(* photo's file are not modelled.                                          *)
(***************************************************************************)
EXTENDS Naturals

CONSTANTS
    Photos, NoPhoto,   \* invoices
    Convs, NoConv,     \* Session objects
    Dests, NoDest,     \* a project, general or none
    Handlers,          \* webhooks handled at the same time
    Overlap            \* may another message come while a destination is looked for,
                       \* and an old Guardar be pressed?

ASSUME ConstantsAssumption ==
    /\ NoPhoto \notin Photos
    /\ NoConv \notin Convs
    /\ NoDest \notin Dests
    /\ Overlap \in BOOLEAN

VARIABLES
    session,     \* the entry of `sessions` for this colleague
    conv,        \* Session objects, those no longer in `sessions` too
    processing,  \* is the colleague in `processing`?
    failed,      \* the entry of `failedMedia`
    work,        \* handlers under way
    shown,       \* the last question of the chat, if it is "Confirmas?"
    registered,  \* table fiscal_invoices: the destination of each invoice
    calls        \* how many times each conversation was registered, 2 for more

vars == <<session, conv, processing, failed, work, shown, registered, calls>>

(***************************************************************************)
(* Types.                                                                  *)
(***************************************************************************)
Session == [photo: Photos \cup {NoPhoto}, dest: Dests \cup {NoDest}]
Handler ==
    [pc: {"idle", "tell"}, photo: {NoPhoto}, conv: {NoConv}, dest: {NoDest}]
        \cup [pc: {"read"}, photo: Photos, conv: {NoConv}, dest: {NoDest}]
        \cup [pc: {"resolve", "create"}, photo: {NoPhoto}, conv: Convs, dest: Dests]

TypeOK ==
    /\ session \in Convs \cup {NoConv}
    /\ conv \in [Convs -> Session]
    /\ processing \in BOOLEAN
    /\ failed \in Photos \cup {NoPhoto}
    /\ work \in [Handlers -> Handler]
    /\ shown \in Session
    /\ registered \in [Photos -> Dests \cup {NoDest}]
    /\ calls \in [Convs -> 0..2]

FreeSession == [photo |-> NoPhoto, dest |-> NoDest]
Idle == [pc |-> "idle", photo |-> NoPhoto, conv |-> NoConv, dest |-> NoDest]
NoQuestion == FreeSession

Init ==
    /\ session = NoConv
    /\ conv = [c \in Convs |-> FreeSession]
    /\ processing = FALSE
    /\ failed = NoPhoto
    /\ work = [h \in Handlers |-> Idle]
    /\ shown = NoQuestion
    /\ registered = [p \in Photos |-> NoDest]
    /\ calls = [c \in Convs |-> 0]

At(h, label) == work[h].pc = label
Goto(h, w) == work' = [work EXCEPT ![h] = w]
Finish(h) == Goto(h, Idle)
table == <<registered, calls>>

\* A message comes: the colleague waits for the destination to be looked for.
Begin(h) ==
    /\ At(h, "idle")
    /\ Overlap \/ \A g \in Handlers : ~At(g, "resolve")

(***************************************************************************)
(* onFile and the "reintentar" of onText.                                  *)
(***************************************************************************)
Reading(h, p) ==
    /\ processing' = TRUE
    /\ Goto(h, [Idle EXCEPT !.pc = "read", !.photo = p])
    /\ UNCHANGED <<session, conv, failed, shown, table>>

File(h, p) ==
    /\ Begin(h)
    /\ ~processing
    /\ session = NoConv
    /\ Reading(h, p)

\* Faulty variant: a retry does not look at the conversation under way.
RetryAnyway(h) ==
    /\ Begin(h)
    /\ failed # NoPhoto
    /\ ~processing
    /\ Reading(h, failed)

Retry(h) ==
    /\ Begin(h)
    /\ failed # NoPhoto
    /\ session = NoConv
    /\ ~processing
    /\ Reading(h, failed)

(***************************************************************************)
(* processFile and processScan: the QR of the photo, or scanWithRetry.     *)
(***************************************************************************)
\* Nothing legible, registered already, or an error: the AI may have read it.
ReadNothing(h) ==
    /\ At(h, "read")
    /\ failed' \in {failed, NoPhoto}
    /\ Goto(h, [Idle EXCEPT !.pc = "tell"])
    /\ UNCHANGED <<session, conv, processing, shown, table>>

\* The four tries failed and the photo is kept.
ReadSaturated(h) ==
    /\ At(h, "read")
    /\ failed' = work[h].photo
    /\ Goto(h, [Idle EXCEPT !.pc = "tell"])
    /\ UNCHANGED <<session, conv, processing, shown, table>>

\* By its QR, or by the AI, which forgets the photo kept.
ReadFound(h, c) ==
    /\ At(h, "read")
    /\ conv[c] = FreeSession
    /\ registered[work[h].photo] = NoDest
    /\ session' = c
    /\ conv' = [conv EXCEPT ![c].photo = work[h].photo]
    /\ failed' \in {failed, NoPhoto}
    /\ shown' = NoQuestion
    /\ Goto(h, [Idle EXCEPT !.pc = "tell"])
    /\ UNCHANGED <<processing, table>>

\* Faulty variant: nothing ends the reading.
ToldForgets(h) ==
    /\ At(h, "tell")
    /\ Finish(h)
    /\ UNCHANGED <<session, conv, processing, failed, shown, table>>

\* The answers were sent: finally.
Told(h) ==
    /\ At(h, "tell")
    /\ processing' = FALSE
    /\ Finish(h)
    /\ UNCHANGED <<session, conv, failed, shown, table>>

(***************************************************************************)
(* onText and onChoice.                                                    *)
(***************************************************************************)
Cancel(h) ==
    /\ Begin(h)
    /\ session' = NoConv
    /\ UNCHANGED <<conv, processing, failed, work, shown, table>>

\* A search, or "Cambiar destino".
Change(h) ==
    /\ Begin(h)
    /\ session # NoConv
    /\ conv' = [conv EXCEPT ![session].dest = NoDest]
    /\ shown' = NoQuestion
    /\ UNCHANGED <<session, processing, failed, work, table>>

\* "Un proyecto" and "Ver mas": a list, the destination stays.
Browse(h) ==
    /\ Begin(h)
    /\ session # NoConv
    /\ shown' = NoQuestion
    /\ UNCHANGED <<session, conv, processing, failed, work, table>>

Choose(h, d) ==
    /\ Begin(h)
    /\ session # NoConv
    /\ Goto(h, [Idle EXCEPT !.pc = "resolve", !.conv = session, !.dest = d])
    /\ UNCHANGED <<session, conv, processing, failed, shown, table>>

\* Faulty variant: the first destination stays.
ChosenFirst(h) ==
    LET c == work[h].conv
        d == work[h].dest
    IN  /\ At(h, "resolve")
        /\ conv' = IF conv[c].dest = NoDest THEN [conv EXCEPT ![c].dest = d] ELSE conv
        /\ shown' = [photo |-> conv[c].photo, dest |-> d]
        /\ Finish(h)
        /\ UNCHANGED <<session, processing, failed, table>>

\* The object found before the await, which may no longer be the session.
Chosen(h) ==
    LET c == work[h].conv
        d == work[h].dest
    IN  /\ At(h, "resolve")
        /\ conv' = [conv EXCEPT ![c].dest = d]
        /\ shown' = [photo |-> conv[c].photo, dest |-> d]
        /\ Finish(h)
        /\ UNCHANGED <<session, processing, failed, table>>

NotFound(h) ==
    /\ At(h, "resolve")
    /\ shown' = NoQuestion
    /\ Finish(h)
    /\ UNCHANGED <<session, conv, processing, failed, table>>

(***************************************************************************)
(* save.                                                                   *)
(***************************************************************************)
OneMore(n) == IF n < 2 THEN n + 1 ELSE 2

\* Faulty variant: the conversation is forgotten after the invoice is saved.
SaveKeeps(h) ==
    /\ Begin(h)
    /\ Overlap \/ shown # NoQuestion
    /\ session # NoConv
    /\ conv[session].dest # NoDest
    /\ Goto(h, [Idle EXCEPT !.pc = "create", !.conv = session, !.dest = conv[session].dest])
    /\ calls' = [calls EXCEPT ![session] = OneMore(calls[session])]
    /\ UNCHANGED <<session, conv, processing, failed, shown, registered>>

Save(h) ==
    /\ Begin(h)
    /\ Overlap \/ shown # NoQuestion
    /\ session # NoConv
    /\ conv[session].dest # NoDest
    /\ session' = NoConv
    /\ Goto(h, [Idle EXCEPT !.pc = "create", !.conv = session, !.dest = conv[session].dest])
    /\ calls' = [calls EXCEPT ![session] = OneMore(calls[session])]
    /\ UNCHANGED <<conv, processing, failed, shown, registered>>

\* An invoice is registered once; whatever fails is told.
Registered(h) ==
    LET p == conv[work[h].conv].photo
    IN  /\ At(h, "create")
        /\ \/ UNCHANGED registered
           \/ registered[p] = NoDest /\ registered' = [registered EXCEPT ![p] = work[h].dest]
        /\ Finish(h)
        /\ UNCHANGED <<session, conv, processing, failed, shown, calls>>

(***************************************************************************)
(* Twenty minutes or six hours pass; the process restarts.                 *)
(***************************************************************************)
Expire ==
    /\ session # NoConv
    /\ session' = NoConv
    /\ UNCHANGED <<conv, processing, failed, work, shown, table>>

ExpirePhoto ==
    /\ failed # NoPhoto
    /\ failed' = NoPhoto
    /\ UNCHANGED <<session, conv, processing, work, shown, table>>

Restart ==
    /\ session' = NoConv
    /\ processing' = FALSE
    /\ failed' = NoPhoto
    /\ work' = [h \in Handlers |-> Idle]
    /\ UNCHANGED <<conv, shown, table>>

Message(h) ==
    \/ \E p \in Photos : File(h, p)
    \/ Retry(h) \/ Cancel(h) \/ Change(h) \/ Browse(h) \/ Save(h)
    \/ \E d \in Dests : Choose(h, d)

Continue(h) ==
    \/ ReadNothing(h) \/ ReadSaturated(h) \/ Told(h) \/ Chosen(h) \/ NotFound(h) \/ Registered(h)
    \/ \E c \in Convs : ReadFound(h, c)

Next ==
    \/ \E h \in Handlers : Message(h) \/ Continue(h)
    \/ Expire \/ ExpirePhoto \/ Restart

Spec == Init /\ [][Next]_vars
FairSpec == Spec /\ \A h \in Handlers : WF_vars(Continue(h))

(***************************************************************************)
(* Properties.                                                             *)
(***************************************************************************)
\* "Se borra antes de guardar: un doble toque en Guardar no puede registrar dos
\* veces": a conversation is handed to the register at most once.
SavedOnce == \A c \in Convs : calls[c] <= 1

\* "Una factura a la vez por persona": a conversation is never replaced by
\* another, whatever photos and retries come while it waits or is being read.
OneAtATime == [][session # NoConv => session' \in {session, NoConv}]_session

\* "Nunca guarda sin que la persona confirme": what is handed to the register is
\* the invoice and the destination of the last question, if the colleague waits for
\* answers and presses no old button.
SavedAsShown == [][\A c \in Convs : calls'[c] # calls[c] => shown = conv[c]]_vars

\* onFile, finally: the colleague is not told for ever that a photo is being read.
ReadingEnds == processing ~> ~processing
=============================================================================
