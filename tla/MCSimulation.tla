---------------------------- MODULE MCSimulation ----------------------------
(* Values of the constants of Simulation for TLC. *)
EXTENDS Simulation

\* What the engine gives: a machine that starts at once and ends before the
\* next one starts, and others when draws are mixed up.
MCStartOf == [n \in 0..(Period - 1) |-> <<0, 0, 2, 2, 0>>[n + 1]]
MCLengthOf == [n \in 0..(Period - 1) |-> <<1, 1, 1, 2, 1>>[n + 1]]
=============================================================================
