--------------------------- MODULE MCPercentile ---------------------------
(* Values of the constants of Percentile for TLC. *)
EXTENDS Percentile

MCValues == {0, 1, 10}
=============================================================================
