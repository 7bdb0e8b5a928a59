----------------------------- MODULE MCService -----------------------------
(* Values of the constants of Service for TLC. *)
EXTENDS Service

\* The estimates of the percentiles, of which p2 is never asked for.
MCEstimates == [i \in 0..2 |-> IF i = 0 THEN {0, 1} ELSE {1}]
=============================================================================
