--------------------------- MODULE MCCachecache ---------------------------
(* Values of the constants of Cachecache for TLC. *)
EXTENDS Cachecache, TLC

\* The estimates of the percentiles, of which p2 is never asked for.
MCEstimates == [i \in 0..2 |-> IF i = 0 THEN {0, 1} ELSE {1}]

Symmetry == Permutations(Keys) \cup Permutations(Slots)
=============================================================================
