--------------------------- MODULE MCPriceImports ---------------------------
(***************************************************************************)
(* Instances of PriceImports for TLC.                                      *)
(***************************************************************************)
EXTENDS PriceImports, TLC

\* Rows, places in the queue and requests are interchangeable.
Symmetry ==
    Permutations(Lines) \cup Permutations(Prices) \cup Permutations(Materials)
        \cup Permutations(Jobs) \cup Permutations(Reqs)
=============================================================================
