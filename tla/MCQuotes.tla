------------------------------ MODULE MCQuotes ------------------------------
(***************************************************************************)
(* Instances of Quotes for TLC.                                            *)
(***************************************************************************)
EXTENDS Quotes, TLC

\* Rows and requests are interchangeable.
Symmetry == Permutations(Quotes) \cup Permutations(Families) \cup Permutations(Clients)
=============================================================================
