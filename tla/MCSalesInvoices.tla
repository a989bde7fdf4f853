-------------------------- MODULE MCSalesInvoices --------------------------
(***************************************************************************)
(* Instances of SalesInvoices for TLC.                                     *)
(***************************************************************************)
EXTENDS SalesInvoices, TLC

\* Documents, receipts and requests are interchangeable.
Symmetry == Permutations(Docs) \cup Permutations(Ecfs) \cup Permutations(Reqs)
=============================================================================
