-------------------------- MODULE InvoiceFlowProofs --------------------------
(***************************************************************************)
(* Theorems about InvoiceFlow, for any sets of photos, conversations,      *)
(* destinations and handlers.                                              *)
(***************************************************************************)
EXTENDS InvoiceFlow, TLAPS

(***************************************************************************)
(* The inductive invariant.                                                *)
(***************************************************************************)
\* One photo is read at a time, while `processing` says so, and no conversation
\* is under way meanwhile.
ReadsAlone ==
    /\ \A h \in Handlers : work[h].pc \in {"read", "tell"} => processing
    /\ \A g, h \in Handlers : work[g].pc \in {"read", "tell"} /\ work[h].pc \in {"read", "tell"} => g = h
    /\ \A h \in Handlers : work[h].pc = "read" => session = NoConv

\* The conversation under way has its photo and was not registered, and one that
\* was registered had its photo.
SessionIsNew ==
    /\ session # NoConv => conv[session].photo # NoPhoto /\ calls[session] = 0
    /\ \A c \in Convs : calls[c] # 0 => calls[c] = 1 /\ conv[c].photo # NoPhoto

IInv == TypeOK /\ ReadsAlone /\ SessionIsNew

(***************************************************************************)
(* What a step does to the handlers.                                       *)
(***************************************************************************)
LEMMA IdleTyped == Idle \in Handler /\ FreeSession \in Session
  BY DEF Idle, Handler, FreeSession, Session

LEMMA InitIInv == Init => IInv
<1> SUFFICES ASSUME Init PROVE IInv
  OBVIOUS
<1>1. TypeOK
  <2>1. Idle \in Handler /\ FreeSession \in Session /\ NoQuestion = FreeSession
    BY IdleTyped DEF NoQuestion
  <2>2. calls \in [Convs -> 0..2] /\ registered \in [Photos -> Dests \cup {NoDest}]
    BY DEF Init
  <2>3. conv \in [Convs -> Session] /\ work \in [Handlers -> Handler]
    BY <2>1 DEF Init
  <2> QED
    BY <2>1, <2>2, <2>3 DEF Init, TypeOK
<1>2. ReadsAlone /\ SessionIsNew
  BY DEF Init, ReadsAlone, SessionIsNew, Idle
<1> QED
  BY <1>1, <1>2 DEF IInv

\* A photo begins to be read.
LEMMA ReadingIInv ==
    ASSUME IInv, NEW h \in Handlers, NEW p \in Photos, Reading(h, p), ~processing, session = NoConv
    PROVE  IInv'
<1> DEFINE w == [Idle EXCEPT !.pc = "read", !.photo = p]
<1>1. w \in Handler /\ w.pc = "read"
  BY DEF Idle, Handler
<1> HIDE DEF w
<1>2. work' = [work EXCEPT ![h] = w] /\ processing' = TRUE /\ UNCHANGED <<session, conv, failed, shown, table>>
  BY DEF Reading, Goto, w
<1>3. TypeOK'
  BY <1>1, <1>2 DEF IInv, TypeOK, table
<1>4. ReadsAlone'
  BY <1>1, <1>2 DEF IInv, TypeOK, ReadsAlone, table
<1>5. SessionIsNew'
  BY <1>2 DEF IInv, TypeOK, SessionIsNew, table
<1> QED
  BY <1>3, <1>4, <1>5 DEF IInv

\* A handler that goes on without reading, or that stops: nobody else's turn
\* changes.
LEMMA AsideEffect ==
    ASSUME IInv, NEW h \in Handlers, NEW w \in Handler, work' = [work EXCEPT ![h] = w],
           \/ w.pc \in {"idle", "resolve", "create"}
           \/ w.pc = "tell" /\ work[h].pc = "read",
           processing' = processing \/ (processing' = FALSE /\ work[h].pc = "tell" /\ w.pc = "idle"),
           session' \in {session, NoConv} \/ work[h].pc = "read"
    PROVE  work' \in [Handlers -> Handler] /\ processing' \in BOOLEAN /\ ReadsAlone'
<1>1. work' \in [Handlers -> Handler] /\ processing' \in BOOLEAN
  BY DEF IInv, TypeOK
<1>2. \A g \in Handlers : work'[g] = IF g = h THEN w ELSE work[g]
  BY DEF IInv, TypeOK
<1>3. ReadsAlone'
  BY <1>1, <1>2 DEF IInv, ReadsAlone
<1> QED
  BY <1>1, <1>3

\* What may be said again of conversations that do not change.
LEMMA SessionKept ==
    ASSUME IInv, session' \in {session, NoConv}, UNCHANGED calls, conv' \in [Convs -> Session],
           \A c \in Convs : conv'[c].photo = conv[c].photo
    PROVE  SessionIsNew'
BY DEF IInv, TypeOK, SessionIsNew

(***************************************************************************)
(* The steps of a handler.                                                 *)
(***************************************************************************)
LEMMA ContinueIInv ==
    ASSUME IInv, NEW h \in Handlers, Continue(h)
    PROVE  IInv'
<1> USE DEF IInv
<1> DEFINE tell == [Idle EXCEPT !.pc = "tell"]
<1>1. tell \in Handler /\ tell.pc = "tell" /\ Idle \in Handler /\ Idle.pc = "idle"
  BY DEF Idle, Handler
<1>2. \A g \in Handlers : work[g] \in Handler
  BY DEF TypeOK
<1> HIDE DEF tell
<1>3. CASE ReadNothing(h)
  <2>1. work' = [work EXCEPT ![h] = tell] /\ At(h, "read") /\ UNCHANGED <<session, conv, processing, shown, table>>
    BY <1>3 DEF ReadNothing, Goto, tell
  <2>2. work' \in [Handlers -> Handler] /\ ReadsAlone'
    BY <1>1, <2>1, AsideEffect DEF At
  <2>3. failed' \in Photos \cup {NoPhoto}
    BY <1>3 DEF ReadNothing, TypeOK
  <2>4. SessionIsNew'
    BY <2>1, SessionKept DEF table, TypeOK
  <2> QED
    BY <2>1, <2>2, <2>3, <2>4 DEF TypeOK, table
<1>4. CASE ReadSaturated(h)
  <2>1. work' = [work EXCEPT ![h] = tell] /\ At(h, "read") /\ UNCHANGED <<session, conv, processing, shown, table>>
    BY <1>4 DEF ReadSaturated, Goto, tell
  <2>2. work' \in [Handlers -> Handler] /\ ReadsAlone'
    BY <1>1, <2>1, AsideEffect DEF At
  <2>3. failed' \in Photos \cup {NoPhoto}
    BY <1>2, <1>4 DEF ReadSaturated, At, Handler
  <2>4. SessionIsNew'
    BY <2>1, SessionKept DEF table, TypeOK
  <2> QED
    BY <2>1, <2>2, <2>3, <2>4 DEF TypeOK, table
<1>5. ASSUME NEW c \in Convs, ReadFound(h, c)
      PROVE  IInv'
  <2>1. /\ work' = [work EXCEPT ![h] = tell] /\ At(h, "read")
        /\ session' = c /\ conv' = [conv EXCEPT ![c].photo = work[h].photo]
        /\ conv[c] = FreeSession
        /\ failed' \in {failed, NoPhoto} /\ shown' = NoQuestion /\ UNCHANGED <<processing, table>>
    BY <1>5 DEF ReadFound, Goto, tell
  <2>2. work' \in [Handlers -> Handler] /\ ReadsAlone'
    BY <1>1, <2>1, AsideEffect DEF At
  <2>3. work[h].photo \in Photos
    BY <1>2, <2>1 DEF At, Handler
  <2>4. conv' \in [Convs -> Session] /\ conv'[c].photo = work[h].photo
        /\ \A d \in Convs \ {c} : conv'[d] = conv[d]
    BY <2>1, <2>3 DEF TypeOK, Session
  <2>5. calls[c] = 0
    BY <2>1 DEF SessionIsNew, FreeSession
  <2>6. SessionIsNew'
    BY <2>1, <2>3, <2>4, <2>5, ConstantsAssumption DEF SessionIsNew, table
  <2> QED
    BY <2>1, <2>2, <2>4, <2>6, IdleTyped DEF TypeOK, table, NoQuestion
<1>6. CASE Told(h)
  <2>1. /\ work' = [work EXCEPT ![h] = Idle] /\ At(h, "tell") /\ processing' = FALSE
        /\ UNCHANGED <<session, conv, failed, shown, table>>
    BY <1>6 DEF Told, Finish, Goto
  <2>2. work' \in [Handlers -> Handler] /\ ReadsAlone'
    BY <1>1, <2>1, AsideEffect DEF At
  <2>3. SessionIsNew'
    BY <2>1, SessionKept DEF table, TypeOK
  <2> QED
    BY <2>1, <2>2, <2>3 DEF TypeOK, table
<1>7. CASE Chosen(h)
  <2> DEFINE c == work[h].conv
             d == work[h].dest
  <2>1. /\ work' = [work EXCEPT ![h] = Idle] /\ At(h, "resolve")
        /\ conv' = [conv EXCEPT ![c].dest = d] /\ shown' = [photo |-> conv[c].photo, dest |-> d]
        /\ UNCHANGED <<session, processing, failed, table>>
    BY <1>7 DEF Chosen, Finish, Goto
  <2>2. work' \in [Handlers -> Handler] /\ ReadsAlone'
    BY <1>1, <2>1, AsideEffect
  <2>3. c \in Convs /\ d \in Dests
    BY <1>2, <2>1 DEF At, Handler
  <2> HIDE DEF c, d
  <2>4. conv' \in [Convs -> Session] /\ \A e \in Convs : conv'[e].photo = conv[e].photo
    BY <2>1, <2>3 DEF TypeOK, Session
  <2>5. shown' \in Session
    BY <2>1, <2>3 DEF TypeOK, Session
  <2>6. SessionIsNew'
    BY <2>1, <2>4, SessionKept DEF table
  <2> QED
    BY <2>1, <2>2, <2>4, <2>5, <2>6 DEF TypeOK, table
<1>8. CASE NotFound(h)
  <2>1. /\ work' = [work EXCEPT ![h] = Idle] /\ At(h, "resolve") /\ shown' = NoQuestion
        /\ UNCHANGED <<session, conv, processing, failed, table>>
    BY <1>8 DEF NotFound, Finish, Goto
  <2>2. work' \in [Handlers -> Handler] /\ ReadsAlone'
    BY <1>1, <2>1, AsideEffect
  <2>3. SessionIsNew'
    BY <2>1, SessionKept DEF table, TypeOK
  <2> QED
    BY <2>1, <2>2, <2>3, IdleTyped DEF TypeOK, table, NoQuestion
<1>9. CASE Registered(h)
  <2>1. /\ work' = [work EXCEPT ![h] = Idle] /\ At(h, "create")
        /\ UNCHANGED <<session, conv, processing, failed, shown, calls>>
    BY <1>9 DEF Registered, Finish, Goto
  <2>2. work' \in [Handlers -> Handler] /\ ReadsAlone'
    BY <1>1, <2>1, AsideEffect
  <2>3. work[h].conv \in Convs /\ work[h].dest \in Dests
    BY <1>2, <2>1 DEF At, Handler
  <2>4. registered' \in [Photos -> Dests \cup {NoDest}]
    BY <1>9, <2>3 DEF Registered, TypeOK
  <2>5. SessionIsNew'
    BY <2>1, SessionKept DEF TypeOK
  <2> QED
    BY <2>1, <2>2, <2>4, <2>5 DEF TypeOK
<1> QED
  BY <1>3, <1>4, <1>5, <1>6, <1>7, <1>8, <1>9 DEF Continue

(***************************************************************************)
(* A message of the colleague.                                             *)
(***************************************************************************)
LEMMA MessageIInv ==
    ASSUME IInv, NEW h \in Handlers, Message(h)
    PROVE  IInv'
<1> USE DEF IInv
<1>1. ASSUME NEW p \in Photos, File(h, p)
      PROVE  IInv'
  BY <1>1, ReadingIInv DEF File
<1>2. CASE Retry(h)
  <2>1. failed \in Photos
    BY <1>2 DEF Retry, TypeOK
  <2> QED
    BY <1>2, <2>1, ReadingIInv DEF Retry
<1>3. CASE Cancel(h)
  BY <1>3 DEF Cancel, TypeOK, ReadsAlone, SessionIsNew, table
<1>4. CASE Change(h)
  <2>1. /\ session \in Convs
        /\ conv' = [conv EXCEPT ![session].dest = NoDest] /\ shown' = NoQuestion
        /\ UNCHANGED <<session, processing, failed, work, table>>
    BY <1>4 DEF Change, TypeOK
  <2>2. conv' \in [Convs -> Session] /\ \A e \in Convs : conv'[e].photo = conv[e].photo
    BY <2>1 DEF TypeOK, Session
  <2>3. SessionIsNew'
    BY <2>1, <2>2, SessionKept DEF table
  <2> QED
    BY <2>1, <2>2, <2>3, IdleTyped DEF TypeOK, ReadsAlone, table, NoQuestion
<1>5. CASE Browse(h)
  BY <1>5, IdleTyped DEF Browse, TypeOK, ReadsAlone, SessionIsNew, table, NoQuestion
<1>6. ASSUME NEW d \in Dests, Choose(h, d)
      PROVE  IInv'
  <2> DEFINE w == [Idle EXCEPT !.pc = "resolve", !.conv = session, !.dest = d]
  <2>1. session \in Convs
    BY <1>6 DEF Choose, TypeOK
  <2>2. w \in Handler /\ w.pc = "resolve"
    BY <2>1 DEF Idle, Handler
  <2>3. work' = [work EXCEPT ![h] = w] /\ UNCHANGED <<session, conv, processing, failed, shown, table>>
    BY <1>6 DEF Choose, Goto
  <2> HIDE DEF w
  <2>4. work' \in [Handlers -> Handler] /\ ReadsAlone'
    BY <2>2, <2>3, AsideEffect
  <2>5. SessionIsNew'
    BY <2>3, SessionKept DEF table, TypeOK
  <2> QED
    BY <2>3, <2>4, <2>5 DEF TypeOK, table
<1>7. CASE Save(h)
  <2> DEFINE w == [Idle EXCEPT !.pc = "create", !.conv = session, !.dest = conv[session].dest]
  <2>1. /\ session \in Convs /\ session # NoConv /\ conv[session].dest \in Dests /\ session' = NoConv
        /\ calls' = [calls EXCEPT ![session] = OneMore(calls[session])]
        /\ UNCHANGED <<conv, processing, failed, shown, registered>>
    BY <1>7 DEF Save, TypeOK, Session
  <2>2. w \in Handler /\ w.pc = "create"
    BY <2>1 DEF Idle, Handler
  <2>3. work' = [work EXCEPT ![h] = w]
    BY <1>7 DEF Save, Goto
  <2> HIDE DEF w
  <2>4. work' \in [Handlers -> Handler] /\ ReadsAlone'
    BY <2>1, <2>2, <2>3, AsideEffect
  <2>5. calls' = [calls EXCEPT ![session] = 1] /\ conv[session].photo # NoPhoto
    <3>1. calls[session] = 0 /\ conv[session].photo # NoPhoto
      BY <2>1 DEF SessionIsNew
    <3>2. OneMore(calls[session]) = 1
      BY <3>1 DEF OneMore
    <3> QED
      BY <2>1, <3>1, <3>2
  <2>6. SessionIsNew' /\ calls' \in [Convs -> 0..2]
    BY <2>1, <2>5 DEF SessionIsNew, TypeOK
  <2> QED
    BY <2>1, <2>4, <2>6 DEF TypeOK
<1> QED
  BY <1>1, <1>2, <1>3, <1>4, <1>5, <1>6, <1>7 DEF Message

LEMMA NextIInv ==
    ASSUME IInv, [Next]_vars
    PROVE  IInv'
<1> USE DEF IInv
<1>1. ASSUME NEW h \in Handlers, Message(h) \/ Continue(h)
      PROVE  IInv'
  BY <1>1, MessageIInv, ContinueIInv
<1>2. CASE Expire \/ ExpirePhoto
  BY <1>2 DEF Expire, ExpirePhoto, TypeOK, ReadsAlone, SessionIsNew, table
<1>3. CASE Restart
  <2>1. work' \in [Handlers -> Handler] /\ \A h \in Handlers : work'[h].pc = "idle"
    BY <1>3, IdleTyped DEF Restart, Idle
  <2> QED
    BY <1>3, <2>1 DEF Restart, TypeOK, ReadsAlone, SessionIsNew, table
<1>4. CASE UNCHANGED vars
  BY <1>4 DEF vars, TypeOK, ReadsAlone, SessionIsNew
<1> QED
  BY <1>1, <1>2, <1>3, <1>4 DEF Next

THEOREM SpecIInv == Spec => []IInv
<1>1. Init => IInv
  BY InitIInv
<1>2. IInv /\ [Next]_vars => IInv'
  BY NextIInv
<1> QED
  BY <1>1, <1>2, PTL DEF Spec

\* Every state is well typed: handlers and conversations refer to each other as
\* the flow assumes.
THEOREM SpecTypeOK == Spec => []TypeOK
<1>1. IInv => TypeOK
  BY DEF IInv
<1> QED
  BY <1>1, SpecIInv, PTL

\* A conversation is handed to the register at most once, whatever buttons are
\* pressed together: the session is forgotten before the first await of save.
THEOREM SpecSavedOnce == Spec => []SavedOnce
<1>1. IInv => SavedOnce
  BY DEF IInv, TypeOK, SessionIsNew, SavedOnce
<1> QED
  BY <1>1, SpecIInv, PTL

\* A conversation is never replaced by another: nobody reads while it is there.
THEOREM SpecOneAtATime == Spec => OneAtATime
<1>1. IInv /\ [Next]_vars => [session # NoConv => session' \in {session, NoConv}]_session
  <2> SUFFICES ASSUME IInv, [Next]_vars
               PROVE  session # NoConv => session' \in {session, NoConv}
    OBVIOUS
  <2>1. ASSUME NEW h \in Handlers, Message(h)
        PROVE  session' \in {session, NoConv}
    BY <2>1 DEF Message, File, Reading, Retry, Cancel, Change, Browse, Choose, Save
  <2>2. ASSUME NEW h \in Handlers, NEW c \in Convs, ReadFound(h, c)
        PROVE  session = NoConv
    BY <2>2 DEF ReadFound, At, IInv, ReadsAlone
  <2>3. ASSUME NEW h \in Handlers,
               \/ ReadNothing(h) \/ ReadSaturated(h) \/ Told(h)
               \/ Chosen(h) \/ NotFound(h) \/ Registered(h)
        PROVE  session' = session
    BY <2>3 DEF ReadNothing, ReadSaturated, Told, Chosen, NotFound, Registered
  <2>4. ASSUME Expire \/ ExpirePhoto \/ Restart \/ UNCHANGED vars
        PROVE  session' \in {session, NoConv}
    BY <2>4 DEF Expire, ExpirePhoto, Restart, vars
  <2> QED
    BY <2>1, <2>2, <2>3, <2>4 DEF Next, Continue
<1> QED
  BY <1>1, SpecIInv, PTL DEF Spec, OneAtATime

(***************************************************************************)
(* What is saved was shown, if the colleague waits for the answers.        *)
(***************************************************************************)
\* While a destination is looked for the conversation stays or ends, and nothing
\* is read; the last question is about the conversation under way.
ShownIsSession ==
    /\ \A h \in Handlers : work[h].pc = "resolve" =>
          /\ session \in {work[h].conv, NoConv}
          /\ \A g \in Handlers : work[g].pc # "read" /\ (work[g].pc = "resolve" => g = h)
    /\ shown # NoQuestion /\ session # NoConv => shown = conv[session]

\* A step after which no handler looks for a destination that did not before, and
\* the question and the conversation stay or are forgotten.
LEMMA ShownKept ==
    ASSUME ShownIsSession,
           \A h \in Handlers :
              /\ work'[h].pc = "resolve" => work[h].pc = "resolve" /\ work'[h].conv = work[h].conv
              /\ work'[h].pc = "read" => work[h].pc = "read",
           session' \in {session, NoConv},
           shown' = NoQuestion \/ (shown' = shown /\ UNCHANGED conv)
    PROVE  ShownIsSession'
<1>1. NoQuestion' = NoQuestion
  BY DEF NoQuestion, FreeSession
<1> QED
  BY <1>1 DEF ShownIsSession

LEMMA ContinueShown ==
    ASSUME IInv, IInv', ShownIsSession, NEW h \in Handlers, Continue(h)
    PROVE  ShownIsSession'
<1> DEFINE tell == [Idle EXCEPT !.pc = "tell"]
<1>1. tell.pc = "tell" /\ Idle.pc = "idle"
  BY DEF Idle
<1>2. work \in [Handlers -> Handler] /\ conv \in [Convs -> Session]
  BY DEF IInv, TypeOK
<1> HIDE DEF tell
<1>3. ASSUME \/ ReadNothing(h) \/ ReadSaturated(h) \/ Told(h) \/ NotFound(h) \/ Registered(h)
      PROVE  ShownIsSession'
  <2>1. work' = [work EXCEPT ![h] = tell] \/ work' = [work EXCEPT ![h] = Idle]
    BY <1>3 DEF ReadNothing, ReadSaturated, Told, NotFound, Registered, Finish, Goto, tell
  <2>2. session' = session /\ UNCHANGED conv /\ (shown' = NoQuestion \/ shown' = shown)
    BY <1>3 DEF ReadNothing, ReadSaturated, Told, NotFound, Registered
  <2> QED
    BY <1>1, <1>2, <2>1, <2>2, ShownKept
<1>4. ASSUME NEW c \in Convs, ReadFound(h, c)
      PROVE  ShownIsSession'
  <2>1. work' = [work EXCEPT ![h] = tell] /\ work[h].pc = "read" /\ shown' = NoQuestion
    BY <1>4 DEF ReadFound, Goto, At, tell
  <2>2. \A g \in Handlers : work'[g].pc # "resolve"
    BY <1>1, <1>2, <2>1 DEF ShownIsSession
  <2>3. NoQuestion' = NoQuestion
    BY DEF NoQuestion, FreeSession
  <2> QED
    BY <2>1, <2>2, <2>3 DEF ShownIsSession
<1>5. CASE Chosen(h)
  <2> DEFINE c == work[h].conv
             d == work[h].dest
  <2>1. /\ work' = [work EXCEPT ![h] = Idle] /\ work[h].pc = "resolve" /\ session' = session
        /\ conv' = [conv EXCEPT ![c].dest = d] /\ shown' = [photo |-> conv[c].photo, dest |-> d]
    BY <1>5 DEF Chosen, Finish, Goto, At
  <2>2. session \in {c, NoConv} /\ c \in Convs
    <3>1. work[h] \in Handler
      BY <1>2
    <3> QED
      BY <2>1, <3>1 DEF ShownIsSession, Handler
  <2>3. \A g \in Handlers : work'[g].pc # "resolve"
    BY <1>1, <1>2, <2>1 DEF ShownIsSession
  <2> HIDE DEF c, d
  <2>4. shown' = conv'[c]
    BY <1>2, <2>1, <2>2 DEF Session
  <2> QED
    BY <2>1, <2>2, <2>3, <2>4 DEF ShownIsSession
<1> QED
  BY <1>3, <1>4, <1>5 DEF Continue

LEMMA MessageShown ==
    ASSUME ~Overlap, IInv, ShownIsSession, NEW h \in Handlers, Message(h)
    PROVE  ShownIsSession'
<1>1. work \in [Handlers -> Handler]
  BY DEF IInv, TypeOK
<1>2. NoQuestion' = NoQuestion
  BY DEF NoQuestion, FreeSession
<1>3. ASSUME NEW p, Reading(h, p), Begin(h), session = NoConv
      PROVE  ShownIsSession'
  <2>1. \A g \in Handlers : work[g].pc # "resolve"
    BY <1>3 DEF Begin, At
  <2>2. work' = [work EXCEPT ![h] = [Idle EXCEPT !.pc = "read", !.photo = p]] /\ session' = session
    BY <1>3 DEF Reading, Goto
  <2>3. \A g \in Handlers : work'[g].pc # "resolve"
    BY <1>1, <2>1, <2>2 DEF Idle
  <2> QED
    BY <1>3, <2>2, <2>3 DEF ShownIsSession
<1>4. ASSUME NEW p \in Photos, File(h, p)
      PROVE  ShownIsSession'
  BY <1>3, <1>4 DEF File
<1>5. CASE Retry(h)
  BY <1>3, <1>5 DEF Retry
<1>6. CASE Cancel(h)
  BY <1>6, ShownKept DEF Cancel
<1>7. CASE Change(h) \/ Browse(h)
  BY <1>7, ShownKept DEF Change, Browse
<1>8. ASSUME NEW d \in Dests, Choose(h, d)
      PROVE  ShownIsSession'
  <2> DEFINE w == [Idle EXCEPT !.pc = "resolve", !.conv = session, !.dest = d]
  <2>1. /\ work' = [work EXCEPT ![h] = w] /\ session # NoConv /\ UNCHANGED <<session, conv, shown>>
        /\ \A g \in Handlers : work[g].pc # "resolve"
    BY <1>8 DEF Choose, Goto, Begin, At
  <2>2. w.pc = "resolve" /\ w.conv = session
    BY DEF Idle
  <2> HIDE DEF w
  <2>3. \A g \in Handlers : work[g].pc # "read"
    BY <2>1 DEF IInv, ReadsAlone
  <2> QED
    BY <1>1, <1>2, <2>1, <2>2, <2>3 DEF ShownIsSession
<1>9. CASE Save(h)
  <2> DEFINE w == [Idle EXCEPT !.pc = "create", !.conv = session, !.dest = conv[session].dest]
  <2>1. work' = [work EXCEPT ![h] = w] /\ session' = NoConv /\ UNCHANGED <<conv, shown>>
    BY <1>9 DEF Save, Goto
  <2>2. w.pc = "create"
    BY DEF Idle
  <2> HIDE DEF w
  <2> QED
    BY <1>1, <2>1, <2>2, ShownKept
<1> QED
  BY <1>4, <1>5, <1>6, <1>7, <1>8, <1>9 DEF Message

LEMMA NextShown ==
    ASSUME ~Overlap, IInv, ShownIsSession, [Next]_vars
    PROVE  ShownIsSession'
<1>1. ASSUME NEW h \in Handlers, Message(h) \/ Continue(h)
      PROVE  ShownIsSession'
  BY <1>1, MessageShown, ContinueShown, NextIInv
<1>2. CASE Expire \/ ExpirePhoto \/ UNCHANGED vars
  BY <1>2, ShownKept DEF Expire, ExpirePhoto, vars
<1>3. CASE Restart
  <2>1. \A h \in Handlers : work'[h].pc = "idle"
    BY <1>3 DEF Restart, Idle
  <2> QED
    BY <1>3, <2>1, ShownKept DEF Restart
<1> QED
  BY <1>1, <1>2, <1>3 DEF Next

\* If the colleague waits for the answers and presses no old button, what is handed
\* to the register is the invoice and the destination of the last question.
THEOREM SpecSavedAsShown ==
    ASSUME ~Overlap
    PROVE  Spec => SavedAsShown
<1>1. Init => ShownIsSession
  BY DEF Init, ShownIsSession, Idle
<1>2. IInv /\ ShownIsSession /\ [Next]_vars => ShownIsSession'
  BY NextShown
<1>3. IInv /\ ShownIsSession /\ [Next]_vars
         => [\A c \in Convs : calls'[c] # calls[c] => shown = conv[c]]_vars
  <2> SUFFICES ASSUME IInv, ShownIsSession, Next, NEW c \in Convs, calls'[c] # calls[c]
               PROVE  shown = conv[c]
    OBVIOUS
  <2>1. ASSUME NEW h \in Handlers, Save(h)
        PROVE  shown = conv[c]
    <3>1. shown # NoQuestion /\ session # NoConv /\ calls' = [calls EXCEPT ![session] = OneMore(calls[session])]
      BY <2>1 DEF Save
    <3>2. c = session
      BY <3>1 DEF IInv, TypeOK
    <3> QED
      BY <3>1, <3>2 DEF ShownIsSession
  <2>2. ASSUME NEW h \in Handlers, Continue(h)
        PROVE  UNCHANGED calls
    BY <2>2 DEF Continue, ReadNothing, ReadSaturated, ReadFound, Told, Chosen, NotFound, Registered, table
  <2>3. ASSUME NEW h \in Handlers, Message(h), ~Save(h)
        PROVE  UNCHANGED calls
    BY <2>3 DEF Message, File, Reading, Retry, Cancel, Change, Browse, Choose, table
  <2>4. ASSUME Expire \/ ExpirePhoto \/ Restart
        PROVE  UNCHANGED calls
    BY <2>4 DEF Expire, ExpirePhoto, Restart, table
  <2> QED
    BY <2>1, <2>2, <2>3, <2>4 DEF Next
<1> QED
  BY <1>1, <1>2, <1>3, SpecIInv, PTL DEF Spec, SavedAsShown
=============================================================================
