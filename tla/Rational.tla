----------------------------- MODULE Rational -----------------------------
(***************************************************************************)
(* Exact rational numbers, in which the doubles of the code are modelled.  *)
(* A denominator of zero stands for what a division by zero makes of a     *)
(* double: an infinity or NaN.                                             *)
(***************************************************************************)
EXTENDS Integers

Abs(a) == IF a < 0 THEN -a ELSE a

Gcd[p \in Nat \X Nat] == IF p[2] = 0 THEN p[1] ELSE Gcd[<<p[2], p[1] % p[2]>>]

Fraction == [num : Int, den : Nat \ {0}]

\* a / b in lowest terms, with a positive denominator unless b is zero.
Ratio(a, b) ==
    LET g == Gcd[<<Abs(a), Abs(b)>>]
        s == IF b < 0 THEN -1 ELSE 1
    IN  IF b = 0 THEN [num |-> a, den |-> 0]
        ELSE [num |-> (s * a) \div g, den |-> (s * b) \div g]

Whole(a) == [num |-> a, den |-> 1]

x \oplus y  == Ratio(x.num * y.den + y.num * x.den, x.den * y.den)
x \ominus y == Ratio(x.num * y.den - y.num * x.den, x.den * y.den)
x \odot y   == Ratio(x.num * y.num, x.den * y.den)
x \oslash y == Ratio(x.num * y.den, x.den * y.num)

x \prec y   == x.num * y.den < y.num * x.den
x \preceq y == x.num * y.den <= y.num * x.den
=============================================================================
