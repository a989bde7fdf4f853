--------------------------- MODULE MCReceivables ---------------------------
(***************************************************************************)
(* Instances of Receivables for TLC.                                       *)
(***************************************************************************)
EXTENDS Receivables, TLC

\* Rows and requests are interchangeable.
Symmetry ==
    Permutations(Invoices) \cup Permutations(Payments) \cup Permutations(Quotes) \cup Permutations(Reqs)
=============================================================================
