----------------------------- MODULE MCPayroll -----------------------------
(***************************************************************************)
(* Instances of Payroll for TLC.                                           *)
(***************************************************************************)
EXTENDS Payroll, TLC

\* Requests, payments and expenses are interchangeable.
Symmetry == Permutations(Entries) \cup Permutations(Expenses) \cup Permutations(Reqs)
=============================================================================
