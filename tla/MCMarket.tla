------------------------------ MODULE MCMarket ------------------------------
(* Values of the constants of Market for TLC. *)
EXTENDS Market

\* One slab and a half.
MCRequested == [c \in Caches |-> 3]
=============================================================================
