---------------------------- MODULE MCMessaging ----------------------------
(***************************************************************************)
(* Instances of Messaging for TLC.  No symmetry: the properties checked    *)
(* are temporal.                                                           *)
(***************************************************************************)
EXTENDS Messaging
=============================================================================
