-------------------------- MODULE FiscalDocuments --------------------------
(***************************************************************************)
(* What stp-api promises about its sales documents, with nothing of how    *)
(* requests interleave: a document is created as a draft, reserved by one  *)
(* emission at a time, given back or issued with a receipt that no other   *)
(* document has, and once issued it keeps its receipt.  A credit note is   *)
(* created only for an issued invoice, which cannot disappear before it.   *)
(*                                                                         *)
(* A document may be deleted in any phase: that is what the DELETE of the  *)
(* code, conditional on nothing, amounts to.                               *)
(***************************************************************************)
EXTENDS FiniteSets

CONSTANTS Docs, Ecfs, NoDoc, NoEcf

VARIABLES
    phase,     \* "none", "draft", "emitting", "issued" or "deleted"
    related,   \* the invoice a credit note modifies
    receipt    \* the receipt of an issued document

docVars == <<phase, related, receipt>>

Present == {"draft", "emitting", "issued"}

Init ==
    /\ phase = [d \in Docs |-> "none"]
    /\ related = [d \in Docs |-> NoDoc]
    /\ receipt = [d \in Docs |-> NoEcf]

NewDraft(d, orig) ==
    /\ phase[d] = "none"
    /\ orig # NoDoc => phase[orig] = "issued"
    /\ phase' = [phase EXCEPT ![d] = "draft"]
    /\ related' = [related EXCEPT ![d] = orig]
    /\ UNCHANGED receipt

Reserve(d) ==
    /\ phase[d] = "draft"
    /\ phase' = [phase EXCEPT ![d] = "emitting"]
    /\ UNCHANGED <<related, receipt>>

GiveBack(d) ==
    /\ phase[d] = "emitting"
    /\ phase' = [phase EXCEPT ![d] = "draft"]
    /\ UNCHANGED <<related, receipt>>

Issue(d, e) ==
    /\ phase[d] = "emitting"
    /\ \A c \in Docs : receipt[c] # e
    /\ phase' = [phase EXCEPT ![d] = "issued"]
    /\ receipt' = [receipt EXCEPT ![d] = e]
    /\ UNCHANGED related

Delete(d) ==
    /\ phase[d] \in Present
    /\ \A c \in Docs : phase[c] \in Present => related[c] # d
    /\ phase' = [phase EXCEPT ![d] = "deleted"]
    /\ related' = [related EXCEPT ![d] = NoDoc]
    /\ receipt' = [receipt EXCEPT ![d] = NoEcf]

Next ==
    \E d \in Docs :
        \/ \E orig \in Docs \cup {NoDoc} : NewDraft(d, orig)
        \/ Reserve(d)
        \/ GiveBack(d)
        \/ \E e \in Ecfs : Issue(d, e)
        \/ Delete(d)

Spec == Init /\ [][Next]_docVars
=============================================================================
