-------------------------------- MODULE Sums --------------------------------
(***************************************************************************)
(* The sum of a column over some of the rows of a table: what SUM(...) and *)
(* the reduce of the services compute.                                     *)
(***************************************************************************)
EXTENDS Integers, FiniteSetsExt

\* The sum of the weights of the elements of S.
SumOver(weight, S) == MapThenSumSet(LAMBDA x : weight[x], S)
=============================================================================
