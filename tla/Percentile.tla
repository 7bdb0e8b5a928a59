---------------------------- MODULE Percentile ----------------------------
(***************************************************************************)
(* The estimator of a percentile (cachecache/src/service/percentile.cc):   *)
(* the P2 algorithm, which keeps five markers instead of the values it is  *)
(* given.  Marker i has a position n[i], the number of values it believes  *)
(* to be below it, and a height q[i], its estimate of the value there; the *)
(* height of the middle one is the estimation that clean goes by.          *)
(*                                                                         *)
(* Doubles are exact rationals here: rounding is left out.                 *)
(***************************************************************************)
EXTENDS Integers, Rational

CONSTANTS
    Values,         \* the values given to the estimator: deltas between two requests
    Percent, Scale, \* _p is Percent / Scale
    MaxCount        \* bound on the number of values

ASSUME ValuesAssumption == Values \subseteq Nat
ASSUME PercentAssumption == /\ Scale \in Nat \ {0}
                            /\ Percent \in 0..Scale
ASSUME CountAssumption == MaxCount \in Nat

VARIABLES
    n,      \* _n: the positions of the markers
    q,      \* _q: their heights, or the values themselves while they are fewer than 5
    count,  \* _count
    seen    \* history: the values so far

vars == <<n, q, count, seen>>

Markers == 0..4
Inner == 1..3

\* reset()
Init ==
    /\ n = [i \in Markers |-> 0]
    /\ q = [i \in Markers |-> Whole(0)]
    /\ count = 0
    /\ seen = {}

---------------------------------------------------------------------------
(* The first five values *)

Orders == {f \in [Markers -> Markers] : \A j \in Markers : \E i \in Markers : f[i] = j}

\* std::sort puts the five values in one of the orders in which they ascend.
Sorted(h) ==
    {g \in {[i \in Markers |-> h[f[i]]] : f \in Orders} :
        \A i \in Inner \cup {4} : g[i - 1] \preceq g[i]}

Collect(v) ==
    LET h == [q EXCEPT ![count] = Whole(v)]
    IN  /\ count < 5
        /\ count' = count + 1
        /\ IF count = 4
           THEN /\ q' \in Sorted(h)
                /\ n' = [i \in Markers |-> i]
           ELSE /\ q' = h
                /\ UNCHANGED n

---------------------------------------------------------------------------
(* The values after them *)

\* The marker that v falls behind, which the code calls k.
Cell(v) ==
    IF Whole(v) \prec q[0] THEN 0
    ELSE CHOOSE k \in 0..3 :
            /\ k = 3 \/ Whole(v) \prec q[k + 1]
            /\ \A j \in 1..k : ~(Whole(v) \prec q[j])

\* A largest value that does not count as one.
CountedBelow(v) ==
    [n |-> [i \in Markers |-> IF i > Cell(v) THEN n[i] + 1 ELSE n[i]],
     q |-> [i \in Markers |-> IF i = 0 /\ Whole(v) \prec q[0] THEN Whole(v) ELSE q[i]]]

\* The markers once v has been counted, before any of them is adjusted: the
\* outer ones are the extremes.
Counted(v) ==
    [n |-> [i \in Markers |-> IF i > Cell(v) THEN n[i] + 1 ELSE n[i]],
     q |-> [i \in Markers |->
              IF \/ i = 0 /\ Whole(v) \prec q[0]
                 \/ i = 4 /\ \A j \in Markers : ~(Whole(v) \prec q[j])
              THEN Whole(v) ELSE q[i]]]

\* 2 * Scale times the desired position of marker i among count values.
Desired(i) == CASE i = 1 -> count * Percent
                [] i = 2 -> 2 * count * Percent
                [] i = 3 -> count * (Scale + Percent)

\* A move that does not look whether there is room.
DirectionAnyway(m, i) ==
    LET off == Desired(i) - 2 * Scale * m.n[i]
    IN  IF off >= 2 * Scale THEN 1 ELSE IF off <= -(2 * Scale) THEN -1 ELSE 0

\* Away from the desired position.
DirectionAway(m, i) ==
    LET off == m.n[i] - Desired(i) \div (2 * Scale)
    IN  IF off >= 1 THEN 1 ELSE IF off <= -1 THEN -1 ELSE 0

\* Which way marker i of m has to move: it is off by one at least, and the
\* next marker leaves it room.
Direction(m, i) ==
    LET off == Desired(i) - 2 * Scale * m.n[i]
    IN  IF off >= 2 * Scale /\ m.n[i + 1] - m.n[i] > 1 THEN 1
        ELSE IF off <= -(2 * Scale) /\ m.n[i - 1] - m.n[i] < -1 THEN -1
        ELSE 0

Slope(m, i, j) == (m.q[i] \ominus m.q[j]) \oslash Whole(m.n[i] - m.n[j])

Parabolic(m, i, d) ==
    m.q[i] \oplus
        (Ratio(d, m.n[i + 1] - m.n[i - 1]) \odot
            ((Whole(m.n[i] - m.n[i - 1] + d) \odot Slope(m, i + 1, i)) \oplus
             (Whole(m.n[i + 1] - m.n[i] - d) \odot Slope(m, i, i - 1))))

Linear(m, i, d) ==
    m.q[i] \oplus ((Whole(d) \odot (m.q[i + d] \ominus m.q[i])) \oslash Whole(m.n[i + d] + m.n[i]))

\* A height that is the parabola's in any case.
HeightOfParabola(m, i, d) == Parabolic(m, i, d)

\* The height of marker i of m after a move in direction d.
Height(m, i, d) ==
    LET qs == Parabolic(m, i, d)
    IN  IF m.q[i - 1] \prec qs /\ qs \prec m.q[i + 1] THEN qs ELSE Linear(m, i, d)

Adjusted(m, i) ==
    LET d == Direction(m, i)
    IN  IF d = 0 THEN m
        ELSE [n |-> [m.n EXCEPT ![i] = @ + d],
              q |-> [m.q EXCEPT ![i] = Height(m, i, d)]]

Adapt(v) ==
    LET m == Adjusted(Adjusted(Adjusted(Counted(v), 1), 2), 3)
    IN  /\ count >= 5
        /\ n' = m.n
        /\ q' = m.q
        /\ count' = count + 1

---------------------------------------------------------------------------

addValue(v) ==
    /\ count < MaxCount
    /\ Collect(v) \/ Adapt(v)
    /\ seen' = seen \cup {v}

Next == \E v \in Values : addValue(v)

Spec == Init /\ [][Next]_vars

---------------------------------------------------------------------------
(* Properties *)

Estimation == q[2]

\* No height is ever the outcome of a division by zero.
TypeOK ==
    /\ n \in [Markers -> Nat]
    /\ q \in [Markers -> Fraction]
    /\ count \in 0..MaxCount
    /\ seen \subseteq Values

\* The positions of markers that have been given c values.
Apart(p, c) ==
    /\ p[0] = 0
    /\ p[4] = c - 1
    /\ \A i \in Inner \cup {4} : p[i - 1] < p[i]

\* The markers never meet or pass each other, which is what keeps the
\* denominators of parabolic and linear above zero; the outer ones are at the
\* first and at the last value (percentile.cc addValue).
MarkersInOrder == count >= 5 => Apart(n, count)

\* The heights ascend, which the search for the cell of a value relies on: a
\* height that parabolic would put out of order is left to linear.
HeightsAscend ==
    count >= 5 => \A i \in Inner \cup {4} : q[i - 1] \preceq q[i]

\* The outer markers are the smallest and the largest value so far, although
\* the largest is only updated when no marker is above the value.
ExtremesAreExact ==
    count >= 5 => /\ \E v \in seen : q[0] = Whole(v)
                  /\ \E v \in seen : q[4] = Whole(v)
                  /\ \A v \in seen : q[0] \preceq Whole(v) /\ Whole(v) \preceq q[4]

---------------------------------------------------------------------------
(* What the header says the code is, and the code is not *)

\* "P^2 algo": a height only goes up with the position of its marker.  linear
\* divides by the sum of two positions where the algorithm has the difference,
\* which has the wrong sign for a marker that moves down.
HeightsFollowPositions ==
    [][\A i \in Inner : count >= 5 /\ n'[i] <= n[i] => q'[i] \preceq q[i]]_vars
=============================================================================
