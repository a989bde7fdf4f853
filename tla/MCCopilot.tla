----------------------------- MODULE MCCopilot -----------------------------
(***************************************************************************)
(* Instances of Copilot for TLC.                                           *)
(***************************************************************************)
EXTENDS Copilot, TLC

\* Webhooks, persons and analyses are interchangeable.
Symmetry == Permutations(Hooks) \cup Permutations(Staff) \cup Permutations(Runs)
=============================================================================
