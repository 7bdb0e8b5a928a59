-------------------------- MODULE PercentileProofs --------------------------
(***************************************************************************)
(* Proofs about Percentile, for every percentile and every sequence of     *)
(* values: the markers keep apart, the heights are numbers that ascend     *)
(* between the smallest and the largest value, and a marker that moves up  *)
(* is never lowered.                                                       *)
(*                                                                         *)
(* What is known of the positions (Inductive) depends on the heights only  *)
(* through the cell of a value; what is known of the heights (Ordered)     *)
(* needs the positions for the denominators.  The heights are fractions in *)
(* lowest terms: Is(f, p, w) says that f is the number p / w, whatever has *)
(* been divided out, so that the operators of Rational can be computed     *)
(* with as numerators over a common denominator.                           *)
(***************************************************************************)
EXTENDS Percentile, WellFoundedInduction, TLAPS

---------------------------------------------------------------------------
(* Natural numbers *)

\* There is a smallest one in each set of natural numbers.
LEMMA Smallest ==
    ASSUME NEW S \in SUBSET Nat, S # {}
    PROVE  \E m \in S : \A k \in S : m <= k
<1>1. IsWellFoundedOn(OpToRel(<, Nat), Nat)
  BY NatLessThanWellFounded
<1>2. \E m \in S : \A k \in S : <<k, m>> \notin OpToRel(<, Nat)
  <2> HIDE DEF OpToRel
  <2> QED BY <1>1, WFMin
<1>3. PICK m \in S : \A k \in S : <<k, m>> \notin OpToRel(<, Nat)
  BY <1>2
<1>4. \A k \in S : ~(k < m)
  BY <1>3, Zenon DEF OpToRel
<1>5. \A k \in S : m <= k
  BY <1>4
<1> QED BY <1>5

\* A factor that is not zero can be left out.
LEMMA Cancel ==
    ASSUME NEW x \in Int, NEW y \in Int, NEW c \in Int, c > 0
    PROVE  /\ c * x = c * y => x = y
           /\ c * x <= c * y => x <= y
           /\ c * x < c * y => x < y
           /\ x <= y => c * x <= c * y
           /\ x < y => c * x < c * y
<1>1. x <= y => c * x <= c * y
  OBVIOUS
<1>2. x < y => c * x < c * y
  OBVIOUS
<1>3. y < x => c * y < c * x
  OBVIOUS
<1> QED BY <1>1, <1>2, <1>3

\* A number is its quotient times the divisor, plus the rest.
LEMMA Rest ==
    ASSUME NEW a \in Nat, NEW b \in Nat \ {0}
    PROVE  /\ a \div b \in Nat /\ a % b \in Nat /\ a % b < b
           /\ a = b * (a \div b) + (a % b)
<1>1. a \div b \in Nat /\ a % b \in Nat /\ a % b < b
  OBVIOUS
<1>2. a = b * (a \div b) + (a % b)
  BY Z3
<1> QED BY <1>1, <1>2

---------------------------------------------------------------------------
(* The greatest common divisor *)

\* d is a factor of a.
Divides(d, a) == \E k \in Nat : a = d * k

CommonDivisors(a, b) == {d \in Nat : Divides(d, a) /\ Divides(d, b)}

\* Euclid: a division leaves the common divisors as they are.
LEMMA SameDivisors ==
    ASSUME NEW a \in Nat, NEW b \in Nat \ {0}
    PROVE  CommonDivisors(a, b) = CommonDivisors(b, a % b)
<1> DEFINE c == a \div b
           r == a % b
<1>1. c \in Nat /\ r \in Nat /\ a = b * c + r
  BY Rest
<1> HIDE DEF c, r
<1>2. ASSUME NEW d \in Nat, Divides(d, a), Divides(d, b) PROVE Divides(d, r)
  <2>1. PICK k \in Nat : b = d * k
    BY <1>2 DEF Divides
  <2>2. PICK l \in Nat : a = d * l
    BY <1>2 DEF Divides
  <2>3. d * (l - k * c) = d * l - (d * k) * c
    BY <1>1
  <2>4. r = d * (l - k * c)
    BY <1>1, <2>1, <2>2, <2>3
  <2>5. d > 0
    BY <2>1
  <2>6. k * c \in Nat
    BY <1>1
  <2>7. l - k * c \in Nat
    <3>1. d * 0 <= d * (l - k * c)
      BY <1>1, <2>4
    <3> QED BY <2>5, <2>6, <3>1, Cancel
  <2> QED BY <2>4, <2>7 DEF Divides
<1>3. ASSUME NEW d \in Nat, Divides(d, r), Divides(d, b) PROVE Divides(d, a)
  <2>1. PICK k \in Nat : b = d * k
    BY <1>3 DEF Divides
  <2>2. PICK l \in Nat : r = d * l
    BY <1>3 DEF Divides
  <2>3. d * (k * c + l) = (d * k) * c + d * l
    BY <1>1
  <2>4. k * c + l \in Nat
    BY <1>1
  <2> QED BY <1>1, <2>1, <2>2, <2>3, <2>4 DEF Divides
<1>4. CommonDivisors(a, b) = CommonDivisors(b, r)
  BY <1>2, <1>3 DEF CommonDivisors
<1> QED BY <1>4 DEF r

\* The one that all the others divide.
Greatest(S) == CHOOSE d \in S : \A e \in S : Divides(e, d)

\* Every number divides itself, and zero.
LEMMA DividesSelf ==
    ASSUME NEW a \in Nat
    PROVE  Divides(a, a) /\ Divides(a, 0)
<1>1. a = a * 1 /\ 0 = a * 0
  OBVIOUS
<1> QED BY <1>1 DEF Divides

\* The greatest common divisor of a number and zero is the number.
LEMMA GreatestWithZero ==
    ASSUME NEW a \in Nat
    PROVE  Greatest(CommonDivisors(a, 0)) = a
<1>1. Divides(a, a) /\ Divides(a, 0)
  BY DividesSelf
<1>2. a \in CommonDivisors(a, 0) /\ \A e \in CommonDivisors(a, 0) : Divides(e, a)
  BY <1>1 DEF CommonDivisors
<1>3. ASSUME NEW d \in CommonDivisors(a, 0), \A e \in CommonDivisors(a, 0) : Divides(e, d)
      PROVE  d = a
  <2>1. PICK k \in Nat : d = a * k
    BY <1>2, <1>3 DEF Divides
  <2>2. PICK l \in Nat : a = d * l
    BY <1>3 DEF CommonDivisors, Divides
  <2>3. d \in Nat
    BY DEF CommonDivisors
  <2>4. CASE a = 0
    BY <2>1, <2>4
  <2>5. CASE a > 0
    <3>1. d > 0 /\ k > 0 /\ l > 0
      <4>1. d # 0
        BY <2>2, <2>5
      <4>2. k # 0 /\ l # 0
        BY <2>1, <2>2, <2>3, <2>5, <4>1
      <4> QED BY <2>3, <4>1, <4>2
    <3>2. a <= d
      <4>1. a * 1 <= a * k
        BY <2>5, <3>1, Cancel
      <4> QED BY <2>1, <4>1
    <3>3. d <= a
      <4>1. d * 1 <= d * l
        BY <2>3, <3>1, Cancel
      <4> QED BY <2>2, <2>3, <4>1
    <3> QED BY <2>3, <3>2, <3>3
  <2> QED BY <2>4, <2>5
<1> QED BY <1>2, <1>3 DEF Greatest

\* There is a function with the recursion of Gcd: the greatest common divisor.
LEMMA GcdUnfolds ==
    ASSUME NEW a \in Nat, NEW b \in Nat
    PROVE  Gcd[<<a, b>>] = IF b = 0 THEN a ELSE Gcd[<<b, a % b>>]
<1> DEFINE G == [p \in Nat \X Nat |-> Greatest(CommonDivisors(p[1], p[2]))]
           Recursive(g) ==
              g = [p \in Nat \X Nat |-> IF p[2] = 0 THEN p[1] ELSE g[<<p[2], p[1] % p[2]>>]]
<1>1. ASSUME NEW p \in Nat \X Nat
      PROVE  Greatest(CommonDivisors(p[1], p[2]))
                = IF p[2] = 0 THEN p[1] ELSE G[<<p[2], p[1] % p[2]>>]
  <2>0. p[1] \in Nat /\ p[2] \in Nat
    OBVIOUS
  <2>1. CASE p[2] = 0
    BY <2>0, <2>1, GreatestWithZero
  <2>2. CASE p[2] # 0
    <3>1. <<p[2], p[1] % p[2]>> \in Nat \X Nat
      BY <2>0, <2>2, Rest
    <3> HIDE DEF Greatest
    <3>2. G[<<p[2], p[1] % p[2]>>] = Greatest(CommonDivisors(p[2], p[1] % p[2]))
      BY <3>1
    <3>3. CommonDivisors(p[1], p[2]) = CommonDivisors(p[2], p[1] % p[2])
      BY <2>0, <2>2, SameDivisors
    <3> QED BY <2>2, <3>2, <3>3
  <2> QED BY <2>1, <2>2
<1>2. Recursive(G)
  <2> HIDE DEF Greatest
  <2> QED BY <1>1
<1>3. Gcd = CHOOSE g : Recursive(g)
  BY DEF Gcd
<1> HIDE DEF G
<1>4. Recursive(Gcd)
  <2> HIDE DEF Recursive
  <2> QED BY <1>2, <1>3
<1>5. <<a, b>> \in Nat \X Nat
  OBVIOUS
<1> QED BY <1>4, <1>5

\* Euclid's algorithm ends in a common divisor: there is no smallest second
\* number for which it does not.
LEMMA GcdDivides ==
    ASSUME NEW a \in Nat, NEW b \in Nat
    PROVE  Gcd[<<a, b>>] \in CommonDivisors(a, b)
<1> DEFINE Right(c, d) == Gcd[<<c, d>>] \in CommonDivisors(c, d)
           Wrong == {d \in Nat : \E c \in Nat : ~Right(c, d)}
<1>1. Wrong = {}
  <2> SUFFICES ASSUME Wrong # {} PROVE FALSE
    OBVIOUS
  <2>0. Wrong \in SUBSET Nat
    OBVIOUS
  <2>1. PICK d \in Wrong : \A k \in Wrong : d <= k
    <3> HIDE DEF Wrong
    <3> QED BY <2>0, Smallest
  <2>2. PICK c \in Nat : ~Right(c, d)
    BY <2>1
  <2>3. CASE d = 0
    <3>1. Gcd[<<c, d>>] = c
      BY <2>3, GcdUnfolds
    <3>2. Divides(c, c) /\ Divides(c, 0)
      BY DividesSelf
    <3>3. c \in CommonDivisors(c, d)
      BY <2>3, <3>2 DEF CommonDivisors
    <3> QED BY <2>2, <3>1, <3>3
  <2>4. CASE d # 0
    <3>1. d \in Nat \ {0} /\ c % d \in Nat /\ c % d < d
      BY <2>4, Rest
    <3>2. Gcd[<<c, d>>] = Gcd[<<d, c % d>>]
      BY <2>4, GcdUnfolds
    <3>3. c % d \notin Wrong
      <4> HIDE DEF Wrong
      <4> QED BY <2>1, <3>1
    <3>4. Gcd[<<d, c % d>>] \in CommonDivisors(d, c % d)
      BY <3>1, <3>3
    <3>5. CommonDivisors(d, c % d) = CommonDivisors(c, d)
      BY <3>1, SameDivisors
    <3> QED BY <2>2, <3>2, <3>4, <3>5
  <2> QED BY <2>3, <2>4
<1> QED BY <1>1

---------------------------------------------------------------------------
(* Fractions *)

\* What was multiplied is divided out.
LEMMA Quotient ==
    ASSUME NEW k \in Int, NEW g \in Nat \ {0}
    PROVE  (g * k) \div g = k
<1> DEFINE c == (g * k) \div g
<1>1. c \in Int /\ g * c <= g * k /\ g * k < g * c + g
  OBVIOUS
<1> HIDE DEF c
<1>2. g * k < g * (c + 1)
  BY <1>1
<1>3. c <= k /\ k < c + 1
  BY <1>1, <1>2, Cancel
<1> QED BY <1>1, <1>3 DEF c

\* f is the number p / w.
Is(f, p, w) ==
    /\ f \in Fraction
    /\ p \in Int
    /\ w \in Nat \ {0}
    /\ f.num * w = p * f.den

\* A ratio in lowest terms is the number it is the ratio of.
LEMMA RatioIs ==
    ASSUME NEW a \in Int, NEW b \in Nat \ {0}
    PROVE  Is(Ratio(a, b), a, b)
<1> DEFINE g == Gcd[<<Abs(a), Abs(b)>>]
<1>1. Abs(a) \in Nat /\ Abs(b) = b
  BY DEF Abs
<1>2. g \in CommonDivisors(Abs(a), b)
  BY <1>1, GcdDivides
<1>3. Ratio(a, b) = [num |-> (1 * a) \div g, den |-> (1 * b) \div g]
  BY DEF Ratio
<1> HIDE DEF g
<1>4. PICK k \in Nat : b = g * k
  BY <1>2 DEF CommonDivisors, Divides
<1>5. PICK l \in Nat : Abs(a) = g * l
  BY <1>2 DEF CommonDivisors, Divides
<1>6. g \in Nat \ {0} /\ k # 0
  BY <1>2, <1>4 DEF CommonDivisors
<1>7. PICK m \in Int : a = g * m
  <2>1. CASE a >= 0
    BY <1>5, <2>1 DEF Abs
  <2>2. CASE a < 0
    <3>1. a = g * (-l)
      BY <1>5, <1>6, <2>2 DEF Abs
    <3> QED BY <3>1
  <2> QED BY <2>1, <2>2
<1>8. (1 * a) \div g = m /\ (1 * b) \div g = k
  BY <1>4, <1>6, <1>7, Quotient
<1>9. m * b = a * k
  <2>1. m * (g * k) = (g * m) * k
    BY <1>6
  <2> QED BY <1>4, <1>7, <2>1
<1> QED BY <1>3, <1>6, <1>8, <1>9 DEF Is, Fraction

\* The same number over other denominators.
LEMMA SameNumber ==
    ASSUME NEW f, NEW p \in Int, NEW w \in Nat \ {0}, NEW r \in Int, NEW v \in Nat \ {0},
           Is(f, p, w), r * w = p * v
    PROVE  Is(f, r, v)
<1> DEFINE x == f.num
           y == f.den
<1>1. f \in Fraction /\ x \in Int /\ y \in Nat \ {0} /\ x * w = p * y
  BY DEF Is, Fraction
<1> HIDE DEF x, y
<1>2. w * (x * v) = w * (r * y)
  <2>1. w * (x * v) = (x * w) * v
    BY <1>1
  <2>2. (p * y) * v = (p * v) * y
    BY <1>1
  <2>3. (r * w) * y = w * (r * y)
    BY <1>1
  <2> QED BY <1>1, <2>1, <2>2, <2>3
<1>3. x * v = r * y
  BY <1>1, <1>2, Cancel
<1> QED BY <1>1, <1>3 DEF Is, x, y

\* A whole number is itself over one.
LEMMA WholeIs ==
    ASSUME NEW k \in Int
    PROVE  Is(Whole(k), k, 1)
  BY DEF Is, Whole, Fraction

\* A sum over one denominator.
LEMMA SumIs ==
    ASSUME NEW f, NEW g, NEW p \in Int, NEW r \in Int, NEW w \in Nat \ {0},
           Is(f, p, w), Is(g, r, w)
    PROVE  Is(f \oplus g, p + r, w)
<1> DEFINE a == f.num
           b == f.den
           c == g.num
           d == g.den
<1>1. /\ a \in Int /\ c \in Int /\ b \in Nat \ {0} /\ d \in Nat \ {0}
      /\ a * w = p * b /\ c * w = r * d
  BY DEF Is, Fraction
<1>2. f \oplus g = Ratio(a * d + c * b, b * d)
  BY DEF \oplus
<1> HIDE DEF a, b, c, d
<1>3. b * d \in Nat \ {0} /\ a * d + c * b \in Int
  BY <1>1
<1>4. Is(f \oplus g, a * d + c * b, b * d)
  BY <1>2, <1>3, RatioIs
<1>5. (p + r) * (b * d) = (a * d + c * b) * w
  <2>1. (p + r) * (b * d) = (p * b) * d + (r * d) * b
    BY <1>1
  <2>2. (a * d + c * b) * w = (a * w) * d + (c * w) * b
    BY <1>1
  <2> QED BY <1>1, <2>1, <2>2
<1>6. p + r \in Int
  OBVIOUS
<1> QED BY <1>3, <1>4, <1>5, <1>6, SameNumber

\* A difference over one denominator.
LEMMA DifferenceIs ==
    ASSUME NEW f, NEW g, NEW p \in Int, NEW r \in Int, NEW w \in Nat \ {0},
           Is(f, p, w), Is(g, r, w)
    PROVE  Is(f \ominus g, p - r, w)
<1> DEFINE a == f.num
           b == f.den
           c == g.num
           d == g.den
<1>1. /\ a \in Int /\ c \in Int /\ b \in Nat \ {0} /\ d \in Nat \ {0}
      /\ a * w = p * b /\ c * w = r * d
  BY DEF Is, Fraction
<1>2. f \ominus g = Ratio(a * d - c * b, b * d)
  BY DEF \ominus
<1> HIDE DEF a, b, c, d
<1>3. b * d \in Nat \ {0} /\ a * d - c * b \in Int
  BY <1>1
<1>4. Is(f \ominus g, a * d - c * b, b * d)
  BY <1>2, <1>3, RatioIs
<1>5. (p - r) * (b * d) = (a * d - c * b) * w
  <2>1. (p - r) * (b * d) = (p * b) * d - (r * d) * b
    BY <1>1
  <2>2. (a * d - c * b) * w = (a * w) * d - (c * w) * b
    BY <1>1
  <2> QED BY <1>1, <2>1, <2>2
<1>6. p - r \in Int
  OBVIOUS
<1> QED BY <1>3, <1>4, <1>5, <1>6, SameNumber

\* A product.
LEMMA ProductIs ==
    ASSUME NEW f, NEW g, NEW p \in Int, NEW r \in Int, NEW v \in Nat \ {0}, NEW w \in Nat \ {0},
           Is(f, p, v), Is(g, r, w)
    PROVE  Is(f \odot g, p * r, v * w)
<1> DEFINE a == f.num
           b == f.den
           c == g.num
           d == g.den
<1>1. /\ a \in Int /\ c \in Int /\ b \in Nat \ {0} /\ d \in Nat \ {0}
      /\ a * v = p * b /\ c * w = r * d
  BY DEF Is, Fraction
<1>2. f \odot g = Ratio(a * c, b * d)
  BY DEF \odot
<1> HIDE DEF a, b, c, d
<1>3. b * d \in Nat \ {0} /\ a * c \in Int /\ v * w \in Nat \ {0} /\ p * r \in Int
  BY <1>1
<1>4. Is(f \odot g, a * c, b * d)
  BY <1>2, <1>3, RatioIs
<1>5. (p * r) * (b * d) = (a * c) * (v * w)
  <2>1. (p * r) * (b * d) = (p * b) * (r * d)
    BY <1>1
  <2>2. (a * c) * (v * w) = (a * v) * (c * w)
    BY <1>1
  <2> QED BY <1>1, <2>1, <2>2
<1> QED BY <1>3, <1>4, <1>5, SameNumber

\* A division by a whole number.
LEMMA PartIs ==
    ASSUME NEW f, NEW k \in Nat \ {0}, NEW p \in Int, NEW w \in Nat \ {0}, Is(f, p, w)
    PROVE  Is(f \oslash Whole(k), p, w * k)
<1> DEFINE a == f.num
           b == f.den
<1>1. a \in Int /\ b \in Nat \ {0} /\ a * w = p * b
  BY DEF Is, Fraction
<1>2. f \oslash Whole(k) = Ratio(a * 1, b * k)
  BY DEF \oslash, Whole
<1> HIDE DEF a, b
<1>3. b * k \in Nat \ {0} /\ a * 1 = a /\ w * k \in Nat \ {0}
  BY <1>1
<1>4. Is(f \oslash Whole(k), a, b * k)
  BY <1>1, <1>2, <1>3, RatioIs
<1>5. p * (b * k) = a * (w * k)
  <2>1. p * (b * k) = (p * b) * k
    BY <1>1
  <2>2. a * (w * k) = (a * w) * k
    BY <1>1
  <2> QED BY <1>1, <2>1, <2>2
<1> QED BY <1>1, <1>3, <1>4, <1>5, SameNumber

\* Numbers over one denominator compare as their numerators do.
LEMMA Compare ==
    ASSUME NEW f, NEW g, NEW p \in Int, NEW r \in Int, NEW w \in Nat \ {0},
           Is(f, p, w), Is(g, r, w)
    PROVE  /\ f \prec g <=> p < r
           /\ f \preceq g <=> p <= r
<1> DEFINE a == f.num
           b == f.den
           c == g.num
           d == g.den
<1>1. /\ a \in Int /\ c \in Int /\ b \in Nat \ {0} /\ d \in Nat \ {0}
      /\ a * w = p * b /\ c * w = r * d
  BY DEF Is, Fraction
<1>2. /\ f \prec g <=> a * d < c * b
      /\ f \preceq g <=> a * d <= c * b
  BY DEF \prec, \preceq
<1> HIDE DEF a, b, c, d
<1> DEFINE e == b * d
<1>3. e \in Nat \ {0}
  BY <1>1
<1>4. w * (a * d) = e * p /\ w * (c * b) = e * r
  <2>1. w * (a * d) = (a * w) * d /\ w * (c * b) = (c * w) * b
    BY <1>1
  <2>2. (p * b) * d = e * p /\ (r * d) * b = e * r
    BY <1>1
  <2> QED BY <1>1, <2>1, <2>2
<1> HIDE DEF e
<1>5. a * d \in Int /\ c * b \in Int
  BY <1>1
<1>6. a * d < c * b <=> p < r
  <2>1. a * d < c * b <=> w * (a * d) < w * (c * b)
    BY <1>5, Cancel
  <2>2. p < r <=> e * p < e * r
    BY <1>3, Cancel
  <2> QED BY <1>4, <2>1, <2>2
<1>7. a * d <= c * b <=> p <= r
  <2>1. a * d <= c * b <=> w * (a * d) <= w * (c * b)
    BY <1>5, Cancel
  <2>2. p <= r <=> e * p <= e * r
    BY <1>3, Cancel
  <2> QED BY <1>4, <2>1, <2>2
<1> QED BY <1>2, <1>6, <1>7

\* Three numbers have a common denominator.
LEMMA CommonDenominator ==
    ASSUME NEW f \in Fraction, NEW g \in Fraction, NEW h \in Fraction
    PROVE  \E x, y, z \in Int : \E w \in Nat \ {0} : Is(f, x, w) /\ Is(g, y, w) /\ Is(h, z, w)
<1> DEFINE a == f.num
           b == f.den
           c == g.num
           d == g.den
           k == h.num
           l == h.den
<1>1. /\ a \in Int /\ c \in Int /\ k \in Int
      /\ b \in Nat \ {0} /\ d \in Nat \ {0} /\ l \in Nat \ {0}
  BY DEF Fraction
<1> HIDE DEF a, b, c, d, k, l
<1>2. /\ b * d * l \in Nat \ {0}
      /\ a * d * l \in Int /\ c * b * l \in Int /\ k * b * d \in Int
  BY <1>1
<1>3. /\ a * (b * d * l) = (a * d * l) * b
      /\ c * (b * d * l) = (c * b * l) * d
      /\ k * (b * d * l) = (k * b * d) * l
  BY <1>1
<1>4. Is(f, a * d * l, b * d * l) /\ Is(g, c * b * l, b * d * l) /\ Is(h, k * b * d, b * d * l)
  BY <1>2, <1>3 DEF Is, a, b, c, d, k, l
<1> QED BY <1>2, <1>4

\* The order of the numbers.
LEMMA Transitive ==
    ASSUME NEW f \in Fraction, NEW g \in Fraction, NEW h \in Fraction
    PROVE  /\ f \preceq g /\ g \preceq h => f \preceq h
           /\ f \prec g => f \preceq g
           /\ ~(f \prec g) => g \preceq f
           /\ f \preceq f
<1>1. PICK x, y, z \in Int : \E w \in Nat \ {0} : Is(f, x, w) /\ Is(g, y, w) /\ Is(h, z, w)
  BY CommonDenominator
<1>2. PICK w \in Nat \ {0} : Is(f, x, w) /\ Is(g, y, w) /\ Is(h, z, w)
  BY <1>1
<1>3. /\ f \prec g <=> x < y
      /\ f \preceq g <=> x <= y
      /\ g \preceq f <=> y <= x
      /\ g \preceq h <=> y <= z
      /\ f \preceq h <=> x <= z
      /\ f \preceq f <=> x <= x
  BY <1>2, Compare
<1> QED BY <1>3

---------------------------------------------------------------------------
(* One move of a marker *)

\* The parabola through three heights X / e, Y / e and Z / e, one position to
\* the side d of the middle one, which is l above the first and r below the last.
LEMMA ParabolicIs ==
    ASSUME NEW m, NEW i, NEW d \in {-1, 1}, NEW X \in Int, NEW Y \in Int, NEW Z \in Int,
           NEW e \in Nat \ {0}, NEW l \in Nat \ {0}, NEW r \in Nat \ {0},
           Is(m.q[i - 1], X, e), Is(m.q[i], Y, e), Is(m.q[i + 1], Z, e),
           m.n[i] - m.n[i - 1] = l, m.n[i + 1] - m.n[i] = r, m.n[i + 1] - m.n[i - 1] = l + r
    PROVE  Is(Parabolic(m, i, d),
              Y * ((l * r) * (l + r)) + d * (((l + d) * (Z - Y)) * l + ((r - d) * (Y - X)) * r),
              e * ((l * r) * (l + r)))
<1> DEFINE ahead == Slope(m, i + 1, i)
           behind == Slope(m, i, i - 1)
           left == Whole(l + d) \odot ahead
           right == Whole(r - d) \odot behind
           A == (l + d) * (Z - Y)
           B == (r - d) * (Y - X)
           C == A * l + B * r
           w == l * r
           v == w * (l + r)
<1>1. Is(ahead, Z - Y, e * r)
  <2>1. Is(m.q[i + 1] \ominus m.q[i], Z - Y, e)
    BY DifferenceIs
  <2> QED BY <2>1, PartIs DEF Slope
<1>2. Is(behind, Y - X, e * l)
  <2>1. Is(m.q[i] \ominus m.q[i - 1], Y - X, e)
    BY DifferenceIs
  <2> QED BY <2>1, PartIs DEF Slope
<1>3. Parabolic(m, i, d) = m.q[i] \oplus (Ratio(d, l + r) \odot (left \oplus right))
  BY DEF Parabolic
<1> HIDE DEF ahead, behind
<1>4. l + d \in Int /\ r - d \in Int /\ Z - Y \in Int /\ Y - X \in Int
  OBVIOUS
<1>5. e * r \in Nat \ {0} /\ e * l \in Nat \ {0} /\ w \in Nat \ {0} /\ l + r \in Nat \ {0}
  OBVIOUS
<1>6. A \in Int /\ B \in Int
  BY <1>4
<1>7. Is(left, A, 1 * (e * r))
  BY <1>1, <1>4, <1>5, WholeIs, ProductIs
<1>8. Is(right, B, 1 * (e * l))
  BY <1>2, <1>4, <1>5, WholeIs, ProductIs
<1> HIDE DEF A, B, left, right
<1>9. /\ A * l \in Int /\ B * r \in Int /\ e * w \in Nat \ {0}
      /\ 1 * (e * r) = e * r /\ 1 * (e * l) = e * l
  BY <1>5, <1>6
<1>10. (A * l) * (e * r) = A * (e * w) /\ (B * r) * (e * l) = B * (e * w)
  BY <1>6
<1>11. Is(left, A * l, e * w)
  <2>1. Is(left, A, e * r)
    BY <1>7, <1>9
  <2> QED BY <2>1, <1>5, <1>6, <1>9, <1>10, SameNumber
<1>12. Is(right, B * r, e * w)
  <2>1. Is(right, B, e * l)
    BY <1>8, <1>9
  <2> QED BY <2>1, <1>5, <1>6, <1>9, <1>10, SameNumber
<1>13. Is(left \oplus right, C, e * w) /\ C \in Int
  <2> DEFINE x == A * l
             y == B * r
             z == e * w
  <2>1. x \in Int /\ y \in Int /\ z \in Nat \ {0} /\ Is(left, x, z) /\ Is(right, y, z)
    BY <1>9, <1>11, <1>12
  <2> HIDE DEF x, y, z
  <2>2. Is(left \oplus right, x + y, z) /\ x + y \in Int
    BY <2>1, SumIs
  <2> QED BY <2>2 DEF x, y, z
<1> HIDE DEF C
<1> DEFINE move == Ratio(d, l + r) \odot (left \oplus right)
<1>14. Is(Ratio(d, l + r), d, l + r)
  BY <1>5, RatioIs
<1>15. Is(move, d * C, (l + r) * (e * w))
  BY <1>5, <1>9, <1>13, <1>14, ProductIs
<1> HIDE DEF move, w
<1>16. /\ (l + r) * (e * w) = e * v /\ e * v \in Nat \ {0} /\ d * C \in Int
       /\ Y * v \in Int /\ (Y * v) * e = Y * (e * v)
  BY <1>5, <1>13
<1>17. Is(move, d * C, e * v)
  BY <1>15, <1>16
<1>18. Is(m.q[i], Y * v, e * v)
  BY <1>16, SameNumber
<1>19. Is(m.q[i] \oplus move, Y * v + d * C, e * v)
  BY <1>16, <1>17, <1>18, SumIs
<1> QED BY <1>3, <1>19 DEF move, C, A, B, w

\* What linear makes of a height Y / e next to T / e, where s is the sum of the
\* two positions.
LEMMA LinearIs ==
    ASSUME NEW m, NEW i, NEW d \in {-1, 1}, NEW Y \in Int, NEW T \in Int, NEW e \in Nat \ {0},
           NEW s \in Nat \ {0}, Is(m.q[i], Y, e), Is(m.q[i + d], T, e), m.n[i + d] + m.n[i] = s
    PROVE  Is(Linear(m, i, d), Y * s + d * (T - Y), e * s)
<1> DEFINE off == m.q[i + d] \ominus m.q[i]
           move == Whole(d) \odot off
<1>1. Linear(m, i, d) = m.q[i] \oplus (move \oslash Whole(s))
  BY DEF Linear
<1>2. Is(off, T - Y, e) /\ T - Y \in Int
  BY DifferenceIs
<1> HIDE DEF off
<1>3. Is(move, d * (T - Y), 1 * e)
  BY <1>2, WholeIs, ProductIs
<1> HIDE DEF move
<1>4. 1 * e = e /\ d * (T - Y) \in Int /\ e * s \in Nat \ {0} /\ Y * s \in Int
      /\ (Y * s) * e = Y * (e * s)
  OBVIOUS
<1>5. Is(move, d * (T - Y), e)
  BY <1>3, <1>4
<1>6. Is(move \oslash Whole(s), d * (T - Y), e * s)
  BY <1>4, <1>5, PartIs
<1>7. Is(m.q[i], Y * s, e * s)
  BY <1>4, SameNumber
<1> QED BY <1>1, <1>4, <1>6, <1>7, SumIs

\* No sign comes out of two numbers that are not negative.
LEMMA Product ==
    ASSUME NEW a \in Int, NEW b \in Int, a >= 0, b >= 0
    PROVE  a * b \in Int /\ a * b >= 0
  OBVIOUS

\* Where the parabola is not above the lower neighbour, the upper one is as far
\* away as the lower one at least.
LEMMA Steep ==
    ASSUME NEW l \in Nat, NEW r \in Nat, l >= 2, r >= 1, NEW A \in Nat, NEW B \in Nat,
           A * ((l * r) * (l + r)) <= ((l - 1) * B) * l + ((r + 1) * A) * r
    PROVE  A <= B
<1> SUFFICES ASSUME B < A PROVE FALSE
  OBVIOUS
<1> DEFINE a == (l - 1) * l
           b == (r + 1) * r
           w == (l * r) * (l + r)
<1>1. a \in Int /\ b \in Int /\ w \in Int /\ a > 0 /\ b >= 0
  OBVIOUS
<1>2. ((l - 1) * B) * l = a * B /\ ((r + 1) * A) * r = A * b
  OBVIOUS
<1>3. a + b <= w
  <2>1. w = (l * l) * r + l * (r * r)
    OBVIOUS
  <2> DEFINE x == l * l
             y == r * r
  <2>2. x \in Nat /\ y \in Nat /\ y >= r
    <3>1. r * 1 <= r * r
      BY Cancel
    <3> QED BY <3>1
  <2>3. a = x - l /\ b = y + r
    OBVIOUS
  <2>4. w = x * r + l * y
    BY <2>1
  <2> HIDE DEF x, y, w, a, b
  <2>5. x * 1 <= x * r /\ 2 * y <= l * y
    <3>1. 0 <= x * (r - 1) /\ 0 <= (l - 2) * y
      BY <2>2, Product
    <3> QED BY <2>2, <3>1
  <2> QED BY <1>1, <2>2, <2>3, <2>4, <2>5
<1>4. A * w <= a * B + A * b
  BY <1>2
<1> HIDE DEF a, b, w
<1>5. a * (B + 1) <= a * A
  BY <1>1, Cancel
<1>6. A * (a + b) <= A * w
  BY <1>1, <1>3, Cancel
<1>7. a * B < a * A
  BY <1>1, Cancel
<1>8. A * (a + b) = a * A + A * b
  BY <1>1
<1>9. a * B \in Int /\ a * A \in Int /\ A * b \in Int /\ A * w \in Int
  BY <1>1
<1> QED BY <1>4, <1>6, <1>7, <1>8, <1>9

\* The height of a marker that moves stays between those of its neighbours:
\* linear can err only upwards, and has room there when it is called.
LEMMA HeightStaysBetween ==
    ASSUME NEW m, NEW i \in Int, NEW d \in {-1, 1}, NEW l \in Nat \ {0}, NEW r \in Nat \ {0},
           m.q[i - 1] \in Fraction, m.q[i] \in Fraction, m.q[i + 1] \in Fraction,
           m.q[i - 1] \preceq m.q[i], m.q[i] \preceq m.q[i + 1],
           m.n[i - 1] \in Nat, m.n[i] = m.n[i - 1] + l, m.n[i + 1] = m.n[i - 1] + l + r,
           d = -1 => l >= 2
    PROVE  /\ Height(m, i, d) \in Fraction
           /\ m.q[i - 1] \preceq Height(m, i, d)
           /\ Height(m, i, d) \preceq m.q[i + 1]
<1> DEFINE qs == Parabolic(m, i, d)
           f == m.q[i - 1]
           g == m.q[i]
           h == m.q[i + 1]
           w == (l * r) * (l + r)
<1>1. PICK X, Y, Z \in Int : \E e \in Nat \ {0} : Is(f, X, e) /\ Is(g, Y, e) /\ Is(h, Z, e)
  BY CommonDenominator
<1>2. PICK e \in Nat \ {0} : Is(f, X, e) /\ Is(g, Y, e) /\ Is(h, Z, e)
  BY <1>1
<1>3. X <= Y /\ Y <= Z
  BY <1>2, Compare
<1> DEFINE C == ((l + d) * (Z - Y)) * l + ((r - d) * (Y - X)) * r
<1>4. Is(qs, Y * w + d * C, e * w)
  <2>1. /\ m.n[i] - m.n[i - 1] = l /\ m.n[i + 1] - m.n[i] = r
        /\ m.n[i + 1] - m.n[i - 1] = l + r
    OBVIOUS
  <2> QED BY <1>2, <2>1, ParabolicIs
<1>5. qs \in Fraction
  BY <1>4 DEF Is
<1>6. CASE f \prec qs /\ qs \prec h
  BY <1>5, <1>6, Transitive DEF Height
<1>7. CASE ~(f \prec qs /\ qs \prec h)
  <2>1. Height(m, i, d) = Linear(m, i, d)
    BY <1>7 DEF Height
  <2>2. ASSUME NEW s \in Nat \ {0}, NEW L \in Int, X * s <= L, L <= Z * s,
               Is(Linear(m, i, d), L, e * s)
        PROVE  /\ Linear(m, i, d) \in Fraction
               /\ f \preceq Linear(m, i, d)
               /\ Linear(m, i, d) \preceq h
    <3>1. X * s \in Int /\ Z * s \in Int /\ e * s \in Nat \ {0}
          /\ (X * s) * e = X * (e * s) /\ (Z * s) * e = Z * (e * s)
      OBVIOUS
    <3>2. Is(f, X * s, e * s) /\ Is(h, Z * s, e * s)
      BY <1>2, <3>1, SameNumber
    <3>3. f \preceq Linear(m, i, d) <=> X * s <= L
      BY <2>2, <3>1, <3>2, Compare
    <3>4. Linear(m, i, d) \preceq h <=> L <= Z * s
      BY <2>2, <3>1, <3>2, Compare
    <3> QED BY <2>2, <3>3, <3>4 DEF Is
  <2>3. CASE d = 1
    <3> DEFINE s == m.n[i + 1] + m.n[i]
               L == Y * s + 1 * (Z - Y)
    <3>1. s \in Nat \ {0}
      OBVIOUS
    <3>2. Is(Linear(m, i, d), L, e * s)
      BY <1>2, <2>3, <3>1, LinearIs
    <3> HIDE DEF s
    <3>3. L \in Int
      BY <3>1
    <3>4. X * s <= Y * s /\ (Z - Y) * 1 <= (Z - Y) * s
      <4>1. 0 <= (Y - X) * s /\ 0 <= (Z - Y) * (s - 1)
        BY <1>3, <3>1, Product
      <4> QED BY <3>1, <4>1
    <3>5. X * s <= L /\ L <= Z * s
      <4>1. Z * s = Y * s + (Z - Y) * s
        BY <3>1
      <4>2. X * s \in Int /\ Y * s \in Int /\ (Z - Y) * s \in Int
        BY <3>1
      <4> QED BY <1>3, <3>4, <4>1, <4>2
    <3> QED BY <2>1, <2>2, <3>1, <3>2, <3>3, <3>5
  <2>4. CASE d = -1
    <3> DEFINE A == Y - X
               B == Z - Y
               P == ((l - 1) * B) * l + ((r + 1) * A) * r
    <3>0. A \in Nat /\ B \in Nat /\ l >= 2
      BY <1>3, <2>4
    <3>1. C = P
      BY <2>4
    <3>2. Is(qs, Y * w - P, e * w)
      <4> HIDE DEF C, w, qs
      <4>1. Y * w + d * C = Y * w - C
        BY <2>4 DEF C, w
      <4> QED BY <1>4, <3>1, <4>1
    <3>3. w \in Nat \ {0} /\ P \in Nat
      <4>1. w \in Nat \ {0}
        OBVIOUS
      <4>2. (l - 1) * B \in Nat /\ (r + 1) * A \in Nat
        BY <3>0
      <4> QED BY <4>1, <4>2
    <3>4. A <= B
      <4> HIDE DEF P, w, qs
      <4>1. X * w \in Int /\ Y * w \in Int /\ Z * w \in Int /\ e * w \in Nat \ {0}
            /\ (X * w) * e = X * (e * w) /\ (Z * w) * e = Z * (e * w)
            /\ Y * w - P \in Int
        BY <3>3
      <4>2. Is(f, X * w, e * w) /\ Is(h, Z * w, e * w)
        BY <1>2, <4>1, SameNumber
      <4>3. f \prec qs <=> X * w < Y * w - P
        BY <3>2, <4>1, <4>2, Compare
      <4>4. qs \prec h <=> Y * w - P < Z * w
        BY <3>2, <4>1, <4>2, Compare
      <4>5. CASE ~(f \prec qs)
        <5>1. A * w = Y * w - X * w
          BY <3>3
        <5>2. A * w <= P
          BY <3>3, <4>1, <4>3, <4>5, <5>1
        <5> QED BY <3>0, <5>2, Steep DEF P, w
      <4>6. CASE ~(qs \prec h)
        <5>1. B * w = Z * w - Y * w /\ B * w >= 0
          BY <3>0, <3>3, Product
        <5>2. P = 0
          BY <3>3, <4>1, <4>4, <4>6, <5>1
        <5>3. A = 0
          <6>1. ((l - 1) * B) * l \in Nat
            <7>1. (l - 1) * B \in Nat
              BY <3>0
            <7> QED BY <7>1
          <6>2. ((r + 1) * A) * r = A * ((r + 1) * r)
            OBVIOUS
          <6>3. (r + 1) * r \in Nat \ {0}
            OBVIOUS
          <6> DEFINE b == (r + 1) * r
          <6> HIDE DEF b
          <6>4. A * b \in Nat /\ A * b = 0 /\ b \in Nat \ {0}
            BY <3>0, <5>2, <6>1, <6>2, <6>3, Product DEF P, b
          <6> QED BY <3>0, <6>4
        <5> QED BY <3>0, <5>3
      <4> QED BY <1>7, <4>5, <4>6
    <3> DEFINE s == m.n[i - 1] + m.n[i]
               L == Y * s + (-1) * (X - Y)
    <3>5. s \in Nat \ {0} /\ i + d = i - 1
      BY <2>4
    <3>6. Is(Linear(m, i, d), L, e * s)
      BY <1>2, <2>4, <3>5, LinearIs
    <3> HIDE DEF s
    <3>7. L \in Int /\ L = Y * s + A
      BY <3>5
    <3>8. X * s <= Y * s /\ B * 1 <= B * s
      <4>1. 0 <= A * s /\ 0 <= B * (s - 1)
        BY <3>0, <3>5, Product
      <4> QED BY <3>5, <4>1
    <3>9. X * s <= L /\ L <= Z * s
      <4>1. Z * s = Y * s + B * s
        BY <3>5
      <4>2. X * s \in Int /\ Y * s \in Int /\ B * s \in Int
        BY <3>5
      <4> QED BY <3>0, <3>4, <3>7, <3>8, <4>1, <4>2
    <3> QED BY <2>1, <2>2, <3>5, <3>6, <3>7, <3>9
  <2> QED BY <2>3, <2>4
<1> QED BY <1>6, <1>7

---------------------------------------------------------------------------
(* The positions *)

Positions == [Markers -> Int]

Counts ==
    /\ count \in Nat
    /\ n \in Positions

\* The inductive invariant: before the fifth value there is nothing to keep in order.
Inductive == Counts /\ MarkersInOrder

\* The markers, one by one.
LEMMA InnerMarkers == Inner = {1, 2, 3} /\ Markers = {0, 1, 2, 3, 4}
  BY DEF Inner, Markers

\* Every value has a cell: the first one above it, or the last (percentile.cc addValue).
LEMMA CellOfAValue ==
    ASSUME NEW v
    PROVE  Cell(v) \in 0..3
<1> DEFINE Below(j) == Whole(v) \prec q[j]
<1> DEFINE Fits(k) == /\ k = 3 \/ Below(k + 1)
                      /\ \A j \in 1..k : ~Below(j)
<1>1. CASE Below(0)
  BY <1>1 DEF Cell
<1>2. CASE ~Below(0)
  <2>1. \E k \in 0..3 : Fits(k)
    <3> HIDE DEF Below
    <3>1. CASE Below(1)
      <4>1. Fits(0)
        BY <3>1
      <4> QED BY <4>1
    <3>2. CASE ~Below(1) /\ Below(2)
      <4>1. Fits(1)
        BY <3>2
      <4> QED BY <4>1
    <3>3. CASE ~Below(1) /\ ~Below(2) /\ Below(3)
      <4>1. Fits(2)
        BY <3>3
      <4> QED BY <4>1
    <3>4. CASE ~Below(1) /\ ~Below(2) /\ ~Below(3)
      <4>1. Fits(3)
        BY <3>4
      <4> QED BY <4>1
    <3> QED BY <3>1, <3>2, <3>3, <3>4
  <2>2. Cell(v) = CHOOSE k \in 0..3 : Fits(k)
    BY <1>2 DEF Cell
  <2> HIDE DEF Fits
  <2> QED BY <2>1, <2>2
<1> QED BY <1>1, <1>2

\* Counting a value moves the last marker on, never the first, and no marker
\* away from the ones behind it only (percentile.cc addValue).
LEMMA CountingKeepsApart ==
    ASSUME NEW v, n \in Positions, NEW c \in Int, Apart(n, c)
    PROVE  Counted(v).n \in Positions /\ Apart(Counted(v).n, c + 1)
<1> DEFINE k == Cell(v)
<1>1. k \in 0..3
  BY CellOfAValue
<1>2. Counted(v).n = [i \in Markers |-> IF i > k THEN n[i] + 1 ELSE n[i]]
  BY DEF Counted
<1> HIDE DEF k
<1>3. Counted(v).n \in Positions
  BY <1>1, <1>2 DEF Positions, Markers
<1>4. Apart(Counted(v).n, c + 1)
  BY <1>1, <1>2 DEF Apart, Positions, Markers, Inner
<1> QED BY <1>3, <1>4

\* A marker only moves into room it has.
LEMMA Room ==
    ASSUME NEW m, m.n \in Positions, NEW i \in Inner
    PROVE  /\ Direction(m, i) \in {-1, 0, 1}
           /\ Direction(m, i) = 1 => m.n[i + 1] - m.n[i] > 1
           /\ Direction(m, i) = -1 => m.n[i - 1] - m.n[i] < -1
  BY DEF Direction

\* A marker that moves does not meet its neighbours.
LEMMA AdjustingKeepsApart ==
    ASSUME NEW m, m.n \in Positions, NEW c \in Int, Apart(m.n, c), NEW i \in Inner
    PROVE  Adjusted(m, i).n \in Positions /\ Apart(Adjusted(m, i).n, c)
<1> DEFINE d == Direction(m, i)
           p == [m.n EXCEPT ![i] = @ + d]
<1>1. /\ d \in {-1, 0, 1}
      /\ d = 1 => m.n[i + 1] - m.n[i] > 1
      /\ d = -1 => m.n[i - 1] - m.n[i] < -1
  BY Room
<1>2. CASE d = 0
  BY <1>2 DEF Adjusted
<1>3. CASE d # 0
  <2>1. Adjusted(m, i).n = p
    BY <1>3 DEF Adjusted
  <2> HIDE DEF d
  <2>2. /\ p \in Positions
        /\ p[i] = m.n[i] + d
        /\ \A j \in Markers \ {i} : p[j] = m.n[j]
    BY <1>1 DEF Positions, Markers, Inner
  <2> HIDE DEF p
  <2>3. Apart(p, c)
    BY <1>1, <2>2 DEF Apart, Positions, Markers, Inner
  <2> QED BY <2>1, <2>2, <2>3
<1> QED BY <1>2, <1>3

\* Before the first value there is nothing to keep apart.
LEMMA InitInductive == Init => Inductive
  BY DEF Init, Inductive, Counts, MarkersInOrder, Positions, Markers

\* The fifth value puts the markers at their positions.
LEMMA CollectInductive ==
    ASSUME Inductive, NEW v, Collect(v)
    PROVE  Inductive'
<1>1. CASE count = 4
  BY <1>1 DEF Collect, Inductive, Counts, MarkersInOrder, Apart, Positions, Markers, Inner
<1>2. CASE count # 4
  BY <1>2 DEF Collect, Inductive, Counts, MarkersInOrder
<1> QED BY <1>1, <1>2

\* A later value keeps them apart, through all three moves.
LEMMA AdaptInductive ==
    ASSUME Inductive, NEW v, Adapt(v)
    PROVE  Inductive'
<1> DEFINE m0 == Counted(v)
           m1 == Adjusted(m0, 1)
           m2 == Adjusted(m1, 2)
           m3 == Adjusted(m2, 3)
<1>0. count \in Nat /\ n \in Positions /\ Apart(n, count)
  BY DEF Adapt, Inductive, Counts, MarkersInOrder
<1>1. n' = m3.n /\ count' = count + 1
  BY DEF Adapt
<1>2. m0.n \in Positions /\ Apart(m0.n, count + 1)
  BY <1>0, CountingKeepsApart
<1> HIDE DEF m0
<1>3. m1.n \in Positions /\ Apart(m1.n, count + 1)
  BY <1>0, <1>2, InnerMarkers, AdjustingKeepsApart
<1> HIDE DEF m1
<1>4. m2.n \in Positions /\ Apart(m2.n, count + 1)
  BY <1>0, <1>3, InnerMarkers, AdjustingKeepsApart
<1> HIDE DEF m2
<1>5. m3.n \in Positions /\ Apart(m3.n, count + 1)
  BY <1>0, <1>4, InnerMarkers, AdjustingKeepsApart
<1> HIDE DEF m3
<1> QED BY <1>0, <1>1, <1>5 DEF Inductive, Counts, MarkersInOrder

\* The markers never meet, whatever the percentile and the values: the
\* denominators of parabolic and linear are never zero, and the last marker is
\* at the last value (percentile.cc addValue).
THEOREM MarkersStayApart == Spec => []MarkersInOrder
<1>1. Inductive /\ [Next]_vars => Inductive'
  <2> SUFFICES ASSUME Inductive, [Next]_vars
               PROVE  Inductive'
    OBVIOUS
  <2>1. CASE UNCHANGED vars
    BY <2>1 DEF vars, Inductive, Counts, MarkersInOrder, Apart
  <2>2. CASE Next
    <3>1. PICK v \in Values : Collect(v) \/ Adapt(v)
      BY <2>2 DEF Next, addValue
    <3> QED BY <3>1, CollectInductive, AdaptInductive
  <2> QED BY <2>1, <2>2
<1>2. Inductive => MarkersInOrder
  BY DEF Inductive
<1> QED BY InitInductive, <1>1, <1>2, PTL DEF Spec
---------------------------------------------------------------------------
(* The heights *)

\* Heights that are numbers, and that ascend.
Heights == [Markers -> Fraction]

Ascending(h) == \A i \in Inner \cup {4} : h[i - 1] \preceq h[i]

\* Heights that ascend step by step ascend.
LEMMA AscendingIsMonotone ==
    ASSUME NEW h \in Heights, Ascending(h)
    PROVE  \A i, j \in Markers : i <= j => h[i] \preceq h[j]
<1>1. /\ h[0] \in Fraction /\ h[1] \in Fraction /\ h[2] \in Fraction
      /\ h[3] \in Fraction /\ h[4] \in Fraction
  BY InnerMarkers DEF Heights
<1>2. h[0] \preceq h[1] /\ h[1] \preceq h[2] /\ h[2] \preceq h[3] /\ h[3] \preceq h[4]
  BY InnerMarkers DEF Ascending
<1>3. h[0] \preceq h[2] /\ h[1] \preceq h[3] /\ h[2] \preceq h[4]
  BY <1>1, <1>2, Transitive
<1>4. h[0] \preceq h[3] /\ h[1] \preceq h[4] /\ h[0] \preceq h[4]
  BY <1>1, <1>2, <1>3, Transitive
<1>5. \A i \in Markers : h[i] \preceq h[i]
  BY Transitive DEF Heights
<1> QED BY <1>2, <1>3, <1>4, <1>5, InnerMarkers

\* A value is a number.
LEMMA WholeIsFraction == \A v \in Int : Whole(v) \in Fraction
  BY DEF Whole, Fraction

\* The extremes among the heights are those of the values in S.
Extremes(h, S) ==
    /\ \E v \in S : h[0] = Whole(v)
    /\ \E v \in S : h[4] = Whole(v)
    /\ \A v \in S : h[0] \preceq Whole(v) /\ Whole(v) \preceq h[4]

\* Counting a value only takes the outer heights further out, to the value.
LEMMA CountingKeepsOrder ==
    ASSUME q \in Heights, Ascending(q), NEW S \in SUBSET Nat, Extremes(q, S), NEW v \in Nat
    PROVE  /\ Counted(v).q \in Heights
           /\ Ascending(Counted(v).q)
           /\ Extremes(Counted(v).q, S \cup {v})
<1> DEFINE h == Counted(v).q
           low == Whole(v) \prec q[0]
           high == \A j \in Markers : ~(Whole(v) \prec q[j])
           H(i) == (i = 0 /\ low) \/ (i = 4 /\ high)
<1>1. h = [i \in Markers |-> IF H(i) THEN Whole(v) ELSE q[i]]
  BY DEF Counted
<1>2. /\ h[0] = IF low THEN Whole(v) ELSE q[0]
      /\ h[4] = IF high THEN Whole(v) ELSE q[4]
      /\ h[1] = q[1] /\ h[2] = q[2] /\ h[3] = q[3]
  <2>1. /\ H(0) <=> low
        /\ H(4) <=> high
        /\ ~H(1) /\ ~H(2) /\ ~H(3)
    <3> HIDE DEF low, high
    <3> QED OBVIOUS
  <2> HIDE DEF low, high, h, H
  <2> QED BY <1>1, <2>1, InnerMarkers
<1>3. Whole(v) \in Fraction /\ \A u \in S : Whole(u) \in Fraction
  BY WholeIsFraction
<1>4. h \in Heights
  BY <1>1, <1>3 DEF Heights
<1> HIDE DEF h
<1>5. /\ q[0] \in Fraction /\ q[1] \in Fraction /\ q[2] \in Fraction
      /\ q[3] \in Fraction /\ q[4] \in Fraction
  BY InnerMarkers DEF Heights
<1>6. low => Whole(v) \preceq q[0]
  BY <1>3, <1>5, Transitive
<1>7. ~low => q[0] \preceq Whole(v)
  BY <1>3, <1>5, Transitive
<1>8. high => q[4] \preceq Whole(v)
  BY <1>3, <1>5, InnerMarkers, Transitive
<1>9. ~high => Whole(v) \preceq q[4]
  <2>1. SUFFICES ASSUME NEW j \in Markers, Whole(v) \prec q[j] PROVE Whole(v) \preceq q[4]
    OBVIOUS
  <2>2. q[j] \in Fraction /\ q[j] \preceq q[4]
    BY AscendingIsMonotone, InnerMarkers DEF Heights
  <2>3. Whole(v) \preceq q[j]
    BY <1>3, <2>1, <2>2, Transitive
  <2> QED BY <1>3, <1>5, <2>2, <2>3, Transitive
<1> HIDE DEF low, high
<1>10. q[0] \preceq q[1] /\ q[1] \preceq q[2] /\ q[2] \preceq q[3] /\ q[3] \preceq q[4]
  BY InnerMarkers DEF Ascending
<1>11. h[0] \preceq q[0] /\ h[0] \preceq Whole(v)
  BY <1>2, <1>3, <1>5, <1>6, <1>7, Transitive
<1>12. q[4] \preceq h[4] /\ Whole(v) \preceq h[4]
  BY <1>2, <1>3, <1>5, <1>8, <1>9, Transitive
<1>13. h[0] \in Fraction /\ h[4] \in Fraction
  BY <1>2, <1>3, <1>5
<1>14. Ascending(h)
  <2>1. h[0] \preceq h[1]
    BY <1>2, <1>5, <1>10, <1>11, <1>13, Transitive
  <2>2. h[3] \preceq h[4]
    BY <1>2, <1>5, <1>10, <1>12, <1>13, Transitive
  <2> QED BY <1>2, <1>10, <2>1, <2>2, InnerMarkers DEF Ascending
<1>15. Extremes(h, S \cup {v})
  <2>1. \A u \in S : h[0] \preceq Whole(u) /\ Whole(u) \preceq h[4]
    BY <1>3, <1>5, <1>11, <1>12, <1>13, Transitive DEF Extremes
  <2> QED BY <1>2, <1>11, <1>12, <2>1 DEF Extremes
<1> QED BY <1>4, <1>14, <1>15 DEF h

\* Moving a marker keeps its height between those of its neighbours, and leaves
\* the outer ones alone.
LEMMA AdjustingKeepsOrder ==
    ASSUME NEW m, m.n \in Positions, NEW c \in Int, Apart(m.n, c), NEW i \in Inner,
           m.q \in Heights, Ascending(m.q), NEW S \in SUBSET Nat, Extremes(m.q, S)
    PROVE  /\ Adjusted(m, i).q \in Heights
           /\ Ascending(Adjusted(m, i).q)
           /\ Extremes(Adjusted(m, i).q, S)
<1> DEFINE d == Direction(m, i)
           x == Height(m, i, d)
           h == [m.q EXCEPT ![i] = x]
<1>1. CASE d = 0
  BY <1>1 DEF Adjusted
<1>2. CASE d # 0
  <2>1. Adjusted(m, i).q = h
    BY <1>2 DEF Adjusted
  <2>2. d \in {-1, 1} /\ (d = -1 => m.n[i - 1] - m.n[i] < -1)
    BY <1>2, Room
  <2> HIDE DEF d
  <2>3. i \in Int /\ i - 1 \in Markers /\ i \in Markers /\ i + 1 \in Markers
    BY InnerMarkers
  <2>4. m.q[i - 1] \in Fraction /\ m.q[i] \in Fraction /\ m.q[i + 1] \in Fraction
    BY <2>3 DEF Heights
  <2>5. m.q[i - 1] \preceq m.q[i] /\ m.q[i] \preceq m.q[i + 1]
    BY InnerMarkers, AscendingIsMonotone, <2>3
  <2>6. m.n[i - 1] \in Nat /\ m.n[i - 1] < m.n[i] /\ m.n[i] < m.n[i + 1]
    BY InnerMarkers DEF Apart, Positions
  <2>7. m.n[i - 1] \in Int /\ m.n[i] \in Int /\ m.n[i + 1] \in Int
    BY <2>3 DEF Positions
  <2> DEFINE l == m.n[i] - m.n[i - 1]
             r == m.n[i + 1] - m.n[i]
  <2>8. /\ l \in Nat \ {0} /\ r \in Nat \ {0}
        /\ m.n[i] = m.n[i - 1] + l /\ m.n[i + 1] = m.n[i - 1] + l + r
        /\ d = -1 => l >= 2
    BY <2>2, <2>6, <2>7
  <2> HIDE DEF l, r
  <2>9. x \in Fraction /\ m.q[i - 1] \preceq x /\ x \preceq m.q[i + 1]
    BY <2>2, <2>3, <2>4, <2>5, <2>6, <2>8, HeightStaysBetween
  <2> HIDE DEF x
  <2>10. /\ h \in Heights /\ h[i] = x
         /\ \A j \in Markers \ {i} : h[j] = m.q[j]
    BY <2>3, <2>9 DEF Heights
  <2> HIDE DEF h
  <2>11. h[0] = m.q[0] /\ h[4] = m.q[4]
    BY <2>10, InnerMarkers
  <2>12. Ascending(h)
    <3>1. ASSUME NEW j \in Inner \cup {4} PROVE h[j - 1] \preceq h[j]
      <4>1. CASE j = i
        BY <2>3, <2>9, <2>10, <4>1, InnerMarkers
      <4>2. CASE j = i + 1
        BY <2>3, <2>9, <2>10, <4>2, InnerMarkers
      <4>3. CASE j # i /\ j # i + 1
        <5>1. j \in Markers \ {i} /\ j - 1 \in Markers \ {i}
          BY <4>3, InnerMarkers
        <5> QED BY <2>10, <5>1 DEF Ascending
      <4> QED BY <4>1, <4>2, <4>3
    <3> QED BY <3>1 DEF Ascending
  <2>13. Extremes(h, S)
    BY <2>11 DEF Extremes
  <2> QED BY <2>1, <2>10, <2>12, <2>13
<1> QED BY <1>1, <1>2

\* Before the fifth value the heights are the values themselves; after it they
\* ascend between the extremes.
Ordered ==
    /\ q \in Heights
    /\ seen \subseteq Values
    /\ count <= 4 =>
          /\ \A i \in Markers : n[i] = 0
          /\ \A v \in seen : \E i \in Markers : i < count /\ q[i] = Whole(v)
          /\ \A i \in Markers : i < count => \E v \in seen : q[i] = Whole(v)
    /\ count >= 5 => Ascending(q) /\ Extremes(q, seen)

\* Before the first value there is nothing to put in order.
LEMMA InitOrdered == Init => Ordered
  BY WholeIsFraction DEF Init, Ordered, Heights, Markers

\* The first five values are kept, and sorted when they are all there.
LEMMA CollectOrdered ==
    ASSUME Inductive, Ordered, NEW v \in Values, Collect(v), seen' = seen \cup {v}
    PROVE  Ordered'
<1> DEFINE h == [q EXCEPT ![count] = Whole(v)]
<1>1. count \in Markers /\ count <= 4 /\ count' = count + 1 /\ count \in Nat
  BY InnerMarkers DEF Collect, Inductive, Counts
<1>2. Whole(v) \in Fraction /\ \A u \in seen' : Whole(u) \in Fraction
  BY WholeIsFraction, ValuesAssumption DEF Ordered
<1>3. h \in Heights /\ h[count] = Whole(v) /\ \A i \in Markers \ {count} : h[i] = q[i]
  BY <1>1, <1>2 DEF Ordered, Heights
<1>4. CASE count # 4
  <2>1. q' = h
    BY <1>4 DEF Collect
  <2> HIDE DEF h
  <2>2. \A u \in seen' : \E i \in Markers : i < count' /\ q'[i] = Whole(u)
    <3> SUFFICES ASSUME NEW u \in seen' PROVE \E i \in Markers : i < count' /\ q'[i] = Whole(u)
      OBVIOUS
    <3>1. CASE u = v
      BY <1>1, <1>3, <2>1, <3>1
    <3>2. CASE u # v
      <4>1. PICK i \in Markers : i < count /\ q[i] = Whole(u)
        BY <1>1, <3>2 DEF Ordered
      <4>2. i # count /\ i < count'
        BY <1>1, <4>1, InnerMarkers
      <4> QED BY <1>3, <2>1, <4>1, <4>2
    <3> QED BY <3>1, <3>2
  <2>3. ASSUME NEW i \in Markers, i < count' PROVE \E u \in seen' : q'[i] = Whole(u)
    <3>1. CASE i = count
      BY <1>3, <2>1, <3>1
    <3>2. CASE i # count
      <4>1. i < count
        BY <1>1, <2>3, <3>2, InnerMarkers
      <4> QED BY <1>1, <1>3, <2>1, <3>2, <4>1 DEF Ordered
    <3> QED BY <3>1, <3>2
  <2>4. ~(count' >= 5)
    BY <1>1, <1>4
  <2>5. \A i \in Markers : n'[i] = 0
    BY <1>1, <1>4 DEF Collect, Ordered
  <2>6. seen' \subseteq Values
    BY DEF Ordered
  <2> QED BY <1>3, <2>1, <2>2, <2>3, <2>4, <2>5, <2>6 DEF Ordered
<1>5. CASE count = 4
  <2>1. q' \in Sorted(h)
    BY <1>5 DEF Collect
  <2> HIDE DEF h
  <2>2. PICK f \in Orders : q' = [i \in Markers |-> h[f[i]]]
    BY <2>1 DEF Sorted
  <2>3. Ascending(q')
    BY <2>1 DEF Sorted, Ascending
  <2>4. f \in [Markers -> Markers] /\ \A j \in Markers : \E i \in Markers : f[i] = j
    BY <2>2 DEF Orders
  <2>5. q' \in Heights
    BY <1>3, <2>2, <2>4 DEF Heights
  <2>6. ASSUME NEW u \in seen' PROVE \E i \in Markers : q'[i] = Whole(u)
    <3>1. PICK j \in Markers : h[j] = Whole(u)
      <4>1. CASE u = v
        BY <1>1, <1>3, <4>1
      <4>2. CASE u # v
        <5>1. PICK j \in Markers : j < count /\ q[j] = Whole(u)
          BY <1>1, <4>2 DEF Ordered
        <5>2. j # count
          BY <1>1, <5>1, InnerMarkers
        <5> QED BY <1>3, <5>1, <5>2
      <4> QED BY <4>1, <4>2
    <3>2. PICK i \in Markers : f[i] = j
      BY <2>4
    <3> QED BY <2>2, <3>1, <3>2
  <2>7. ASSUME NEW i \in Markers PROVE \E u \in seen' : q'[i] = Whole(u)
    <3>1. f[i] \in Markers /\ q'[i] = h[f[i]]
      BY <2>2, <2>4
    <3>2. CASE f[i] = count
      BY <1>3, <3>1, <3>2
    <3>3. CASE f[i] # count
      <4>1. f[i] < count
        BY <1>5, <3>1, <3>3, InnerMarkers
      <4>2. h[f[i]] = q[f[i]]
        BY <1>3, <3>1, <3>3
      <4>3. \E u \in seen : q[f[i]] = Whole(u)
        BY <1>1, <3>1, <4>1 DEF Ordered
      <4> QED BY <3>1, <4>2, <4>3
    <3> QED BY <3>2, <3>3
  <2>8. \A i \in Markers : q'[0] \preceq q'[i] /\ q'[i] \preceq q'[4]
    BY <2>3, <2>5, AscendingIsMonotone, InnerMarkers
  <2>9. Extremes(q', seen')
    BY <2>6, <2>7, <2>8, InnerMarkers DEF Extremes
  <2>10. ~(count' <= 4)
    BY <1>1, <1>5
  <2> QED BY <2>3, <2>5, <2>9, <2>10 DEF Ordered
<1> QED BY <1>4, <1>5

\* A later value keeps the heights in order, through all three moves.
LEMMA AdaptOrdered ==
    ASSUME Inductive, Ordered, NEW v \in Values, Adapt(v), seen' = seen \cup {v}
    PROVE  Ordered'
<1> DEFINE m0 == Counted(v)
           m1 == Adjusted(m0, 1)
           m2 == Adjusted(m1, 2)
           m3 == Adjusted(m2, 3)
           In(m) == /\ m.n \in Positions /\ Apart(m.n, count + 1)
                    /\ m.q \in Heights /\ Ascending(m.q) /\ Extremes(m.q, seen')
<1>0. /\ count \in Nat /\ count >= 5 /\ n \in Positions /\ Apart(n, count)
      /\ count + 1 \in Int /\ v \in Nat
      /\ seen \in SUBSET Nat /\ seen' \in SUBSET Nat
      /\ q \in Heights /\ Ascending(q) /\ Extremes(q, seen)
  BY ValuesAssumption DEF Adapt, Inductive, Counts, MarkersInOrder, Ordered
<1>1. q' = m3.q /\ count' = count + 1
  BY DEF Adapt
<1>2. In(m0)
  <2>1. m0.n \in Positions /\ Apart(m0.n, count + 1)
    BY <1>0, CountingKeepsApart
  <2>2. m0.q \in Heights /\ Ascending(m0.q) /\ Extremes(m0.q, seen \cup {v})
    BY <1>0, CountingKeepsOrder
  <2> HIDE DEF m0
  <2> QED BY <2>1, <2>2
<1>3. ASSUME NEW m, In(m), NEW i \in Inner PROVE In(Adjusted(m, i))
  BY <1>0, <1>3, AdjustingKeepsApart, AdjustingKeepsOrder
<1> HIDE DEF m0, In
<1>4. In(m1)
  BY <1>2, <1>3, InnerMarkers
<1> HIDE DEF m1
<1>5. In(m2)
  BY <1>3, <1>4, InnerMarkers
<1> HIDE DEF m2
<1>6. In(m3)
  BY <1>3, <1>5, InnerMarkers
<1> HIDE DEF m3
<1>7. ~(count' <= 4) /\ seen' \subseteq Values
  BY <1>0, <1>1 DEF Ordered
<1> QED BY <1>1, <1>6, <1>7 DEF Ordered, In

\* The heights are in order in every state.
THEOREM HeightsInvariance == Spec => [](Inductive /\ Ordered /\ count <= MaxCount)
<1>1. Inductive /\ Ordered /\ count <= MaxCount /\ [Next]_vars
      => (Inductive /\ Ordered /\ count <= MaxCount)'
  <2> SUFFICES ASSUME Inductive, Ordered, count <= MaxCount, [Next]_vars
               PROVE  (Inductive /\ Ordered /\ count <= MaxCount)'
    OBVIOUS
  <2>1. CASE UNCHANGED vars
    BY <2>1 DEF vars, Inductive, Counts, MarkersInOrder, Apart, Ordered, Extremes, Ascending
  <2>2. CASE Next
    <3>1. PICK v \in Values : addValue(v)
      BY <2>2 DEF Next
    <3>2. seen' = seen \cup {v} /\ (Collect(v) \/ Adapt(v)) /\ count < MaxCount
      BY <3>1 DEF addValue
    <3>3. count' = count + 1
      BY <3>2 DEF Collect, Adapt
    <3>4. count' <= MaxCount
      BY <3>2, <3>3, CountAssumption DEF Inductive, Counts
    <3> QED BY <3>2, <3>4, CollectInductive, AdaptInductive, CollectOrdered, AdaptOrdered
  <2> QED BY <2>1, <2>2
<1>2. Init => count <= MaxCount
  BY CountAssumption DEF Init
<1> QED BY InitInductive, InitOrdered, <1>1, <1>2, PTL DEF Spec

\* No height is the outcome of a division by zero, for any values and any
\* percentile (percentile.cc parabolic, linear).
THEOREM HeightsAreNumbers == Spec => []TypeOK
<1>1. Inductive /\ Ordered /\ count <= MaxCount => TypeOK
  <2> SUFFICES ASSUME Inductive, Ordered, count <= MaxCount PROVE TypeOK
    OBVIOUS
  <2>1. q \in [Markers -> Fraction] /\ seen \subseteq Values /\ count \in 0..MaxCount
    BY CountAssumption DEF Ordered, Heights, Inductive, Counts
  <2>2. ASSUME NEW i \in Markers PROVE n[i] \in Nat
    <3>1. CASE count <= 4
      BY <3>1 DEF Ordered
    <3>2. CASE count >= 5
      BY <3>2, InnerMarkers DEF Inductive, Counts, MarkersInOrder, Apart, Positions
    <3> QED BY <3>1, <3>2 DEF Inductive, Counts
  <2>3. n \in [Markers -> Nat]
    BY <2>2 DEF Inductive, Counts, Positions
  <2> QED BY <2>1, <2>3 DEF TypeOK
<1> QED BY HeightsInvariance, <1>1, PTL

\* The heights ascend after every value, for any percentile, although linear
\* divides by the wrong sum: it then moves a height the wrong way, but by no
\* more than there is room (percentile.cc addValue, linear).
THEOREM HeightsStayInOrder == Spec => []HeightsAscend
<1>1. Ordered => HeightsAscend
  BY DEF Ordered, Ascending, HeightsAscend
<1> QED BY HeightsInvariance, <1>1, PTL

\* The outer heights are the smallest and the largest value given so far, for
\* any number of values (percentile.cc addValue).
THEOREM ExtremesStayExact == Spec => []ExtremesAreExact
<1>1. Ordered => ExtremesAreExact
  BY DEF Ordered, Extremes, ExtremesAreExact
<1> QED BY HeightsInvariance, <1>1, PTL

\* The estimation that clean goes by never leaves the range of the values it is
\* made from: there are values on both sides of it (percentile.cc getValue).
EstimationIsBetween ==
    count >= 5 => \E u, w \in seen : Whole(u) \preceq Estimation /\ Estimation \preceq Whole(w)

THEOREM EstimationStaysBetween == Spec => []EstimationIsBetween
<1>1. Ordered => EstimationIsBetween
  <2> SUFFICES ASSUME Ordered, count >= 5
               PROVE  \E u, w \in seen : Whole(u) \preceq q[2] /\ q[2] \preceq Whole(w)
    BY DEF EstimationIsBetween, Estimation
  <2>1. q \in Heights /\ Ascending(q) /\ Extremes(q, seen)
    BY DEF Ordered
  <2>2. q[0] \preceq q[2] /\ q[2] \preceq q[4]
    BY <2>1, AscendingIsMonotone, InnerMarkers
  <2>3. PICK u \in seen : q[0] = Whole(u)
    BY <2>1 DEF Extremes
  <2>4. PICK w \in seen : q[4] = Whole(w)
    BY <2>1 DEF Extremes
  <2> QED BY <2>2, <2>3, <2>4
<1> QED BY HeightsInvariance, <1>1, PTL

---------------------------------------------------------------------------
(* Which way the heights go *)

\* A marker that moves up is never lowered, neither by the parabola nor by
\* linear: upwards, dividing by the wrong sum only shortens the move.
LEMMA MovingUpRaises ==
    ASSUME NEW m, NEW i \in Int, NEW l \in Nat \ {0}, NEW r \in Nat \ {0},
           m.q[i - 1] \in Fraction, m.q[i] \in Fraction, m.q[i + 1] \in Fraction,
           m.q[i - 1] \preceq m.q[i], m.q[i] \preceq m.q[i + 1],
           m.n[i - 1] \in Nat, m.n[i] = m.n[i - 1] + l, m.n[i + 1] = m.n[i - 1] + l + r
    PROVE  m.q[i] \preceq Height(m, i, 1)
<1> DEFINE f == m.q[i - 1]
           g == m.q[i]
           h == m.q[i + 1]
           w == (l * r) * (l + r)
<1>1. PICK X, Y, Z \in Int : \E e \in Nat \ {0} : Is(f, X, e) /\ Is(g, Y, e) /\ Is(h, Z, e)
  BY CommonDenominator
<1>2. PICK e \in Nat \ {0} : Is(f, X, e) /\ Is(g, Y, e) /\ Is(h, Z, e)
  BY <1>1
<1>3. X <= Y /\ Y <= Z
  BY <1>2, Compare
<1> DEFINE C == ((l + 1) * (Z - Y)) * l + ((r - 1) * (Y - X)) * r
<1>4. Is(Parabolic(m, i, 1), Y * w + 1 * C, e * w)
  <2>1. /\ m.n[i] - m.n[i - 1] = l /\ m.n[i + 1] - m.n[i] = r
        /\ m.n[i + 1] - m.n[i - 1] = l + r
    OBVIOUS
  <2> QED BY <1>2, <2>1, ParabolicIs
<1>5. C \in Int /\ C >= 0
  <2>1. (l + 1) * (Z - Y) \in Int /\ (l + 1) * (Z - Y) >= 0
    BY <1>3, Product
  <2>2. (r - 1) * (Y - X) \in Int /\ (r - 1) * (Y - X) >= 0
    BY <1>3, Product
  <2>3. ((l + 1) * (Z - Y)) * l \in Int /\ ((l + 1) * (Z - Y)) * l >= 0
    BY <2>1, Product
  <2>4. ((r - 1) * (Y - X)) * r \in Int /\ ((r - 1) * (Y - X)) * r >= 0
    BY <2>2, Product
  <2> QED BY <2>3, <2>4
<1>6. w \in Nat \ {0}
  OBVIOUS
<1>7. g \preceq Parabolic(m, i, 1)
  <2> HIDE DEF C, w
  <2>1. Y * w \in Int /\ Y * w + 1 * C \in Int /\ e * w \in Nat \ {0}
        /\ (Y * w) * e = Y * (e * w)
    BY <1>5, <1>6
  <2>2. Is(g, Y * w, e * w)
    BY <1>2, <2>1, SameNumber
  <2>3. Y * w <= Y * w + 1 * C
    BY <1>5, <2>1
  <2> QED BY <1>4, <2>1, <2>2, <2>3, Compare
<1>8. g \preceq Linear(m, i, 1)
  <2> DEFINE s == m.n[i + 1] + m.n[i]
             L == Y * s + 1 * (Z - Y)
  <2>1. s \in Nat \ {0}
    OBVIOUS
  <2>2. Is(Linear(m, i, 1), L, e * s)
    BY <1>2, <2>1, LinearIs
  <2> HIDE DEF s
  <2>3. /\ L \in Int /\ Y * s \in Int /\ e * s \in Nat \ {0}
        /\ (Y * s) * e = Y * (e * s) /\ Y * s <= L
    BY <1>3, <2>1
  <2>4. Is(g, Y * s, e * s)
    BY <1>2, <2>3, SameNumber
  <2> QED BY <2>2, <2>3, <2>4, Compare
<1> QED BY <1>7, <1>8 DEF Height

\* A marker that moves down is not raised by the parabola: whatever goes wrong
\* downwards is the work of linear (percentile.cc parabolic).
LEMMA ParabolaFollowsDown ==
    ASSUME NEW m, NEW i \in Int, NEW l \in Nat \ {0}, NEW r \in Nat \ {0},
           m.q[i - 1] \in Fraction, m.q[i] \in Fraction, m.q[i + 1] \in Fraction,
           m.q[i - 1] \preceq m.q[i], m.q[i] \preceq m.q[i + 1],
           m.n[i - 1] \in Nat, m.n[i] = m.n[i - 1] + l, m.n[i + 1] = m.n[i - 1] + l + r
    PROVE  Parabolic(m, i, -1) \preceq m.q[i]
<1> DEFINE f == m.q[i - 1]
           g == m.q[i]
           h == m.q[i + 1]
           w == (l * r) * (l + r)
<1>1. PICK X, Y, Z \in Int : \E e \in Nat \ {0} : Is(f, X, e) /\ Is(g, Y, e) /\ Is(h, Z, e)
  BY CommonDenominator
<1>2. PICK e \in Nat \ {0} : Is(f, X, e) /\ Is(g, Y, e) /\ Is(h, Z, e)
  BY <1>1
<1>3. X <= Y /\ Y <= Z
  BY <1>2, Compare
<1> DEFINE C == ((l + (-1)) * (Z - Y)) * l + ((r - (-1)) * (Y - X)) * r
<1>4. Is(Parabolic(m, i, -1), Y * w + (-1) * C, e * w)
  <2>1. /\ m.n[i] - m.n[i - 1] = l /\ m.n[i + 1] - m.n[i] = r
        /\ m.n[i + 1] - m.n[i - 1] = l + r
    OBVIOUS
  <2> QED BY <1>2, <2>1, ParabolicIs
<1>5. C \in Int /\ C >= 0
  <2>1. l + (-1) \in Int /\ l + (-1) >= 0 /\ r - (-1) \in Int /\ r - (-1) >= 0
    OBVIOUS
  <2>2. (l + (-1)) * (Z - Y) \in Int /\ (l + (-1)) * (Z - Y) >= 0
    BY <1>3, <2>1, Product
  <2>3. (r - (-1)) * (Y - X) \in Int /\ (r - (-1)) * (Y - X) >= 0
    BY <1>3, <2>1, Product
  <2>4. ((l + (-1)) * (Z - Y)) * l \in Int /\ ((l + (-1)) * (Z - Y)) * l >= 0
    BY <2>2, Product
  <2>5. ((r - (-1)) * (Y - X)) * r \in Int /\ ((r - (-1)) * (Y - X)) * r >= 0
    BY <2>3, Product
  <2> QED BY <2>4, <2>5
<1>6. w \in Nat \ {0}
  OBVIOUS
<1> HIDE DEF C, w
<1>7. /\ Y * w \in Int /\ Y * w + (-1) * C \in Int /\ e * w \in Nat \ {0}
      /\ (Y * w) * e = Y * (e * w)
  BY <1>5, <1>6
<1>8. Is(g, Y * w, e * w)
  BY <1>2, <1>7, SameNumber
<1>9. Y * w + (-1) * C <= Y * w
  BY <1>5, <1>7
<1> QED BY <1>4, <1>7, <1>8, <1>9, Compare

\* What adjusting marker i does to the markers of m: its height goes where its
\* position goes, unless it moves down by linear, which divides by the wrong sum
\* (percentile.cc addValue).
THEOREM OnlyLinearDownwardsErrs ==
    ASSUME NEW m, m.n \in Positions, NEW c \in Int, Apart(m.n, c), NEW i \in Inner,
           m.q \in Heights, Ascending(m.q)
    PROVE  /\ \A j \in Markers \ {i} : /\ Adjusted(m, i).n[j] = m.n[j]
                                       /\ Adjusted(m, i).q[j] = m.q[j]
           /\ Adjusted(m, i).n[i] < m.n[i] =>
                 \/ Adjusted(m, i).q[i] \preceq m.q[i]
                 \/ Adjusted(m, i).q[i] = Linear(m, i, -1)
           /\ Adjusted(m, i).n[i] < m.n[i] \/ m.q[i] \preceq Adjusted(m, i).q[i]
<1> DEFINE d == Direction(m, i)
<1>1. i \in Int /\ i - 1 \in Markers /\ i \in Markers /\ i + 1 \in Markers
  BY InnerMarkers
<1>2. m.q[i - 1] \in Fraction /\ m.q[i] \in Fraction /\ m.q[i + 1] \in Fraction
  BY <1>1 DEF Heights
<1>3. m.n[i - 1] \in Int /\ m.n[i] \in Int /\ m.n[i + 1] \in Int
  BY <1>1 DEF Positions
<1>4. CASE d = 0
  <2>1. Adjusted(m, i) = m
    BY <1>4 DEF Adjusted
  <2> QED BY <1>2, <1>3, <2>1, Transitive
<1>5. CASE d # 0
  <2>1. d \in {-1, 1}
    BY <1>5, Room
  <2>2. /\ Adjusted(m, i).n = [m.n EXCEPT ![i] = @ + d]
        /\ Adjusted(m, i).q = [m.q EXCEPT ![i] = Height(m, i, d)]
    BY <1>5 DEF Adjusted
  <2> HIDE DEF d
  <2>3. /\ Adjusted(m, i).n[i] = m.n[i] + d
        /\ Adjusted(m, i).q[i] = Height(m, i, d)
        /\ \A j \in Markers \ {i} : /\ Adjusted(m, i).n[j] = m.n[j]
                                    /\ Adjusted(m, i).q[j] = m.q[j]
    BY <1>1, <2>2 DEF Positions, Heights
  <2>4. m.q[i - 1] \preceq m.q[i] /\ m.q[i] \preceq m.q[i + 1]
    BY <1>1, InnerMarkers, AscendingIsMonotone
  <2>5. m.n[i - 1] \in Nat /\ m.n[i - 1] < m.n[i] /\ m.n[i] < m.n[i + 1]
    BY InnerMarkers DEF Apart, Positions
  <2> DEFINE l == m.n[i] - m.n[i - 1]
             r == m.n[i + 1] - m.n[i]
  <2>6. /\ l \in Nat \ {0} /\ r \in Nat \ {0}
        /\ m.n[i] = m.n[i - 1] + l /\ m.n[i + 1] = m.n[i - 1] + l + r
    BY <1>3, <2>5
  <2> HIDE DEF l, r
  <2>7. CASE d = -1
    <3>1. Parabolic(m, i, -1) \preceq m.q[i]
      BY <1>1, <1>2, <2>4, <2>5, <2>6, ParabolaFollowsDown
    <3> QED BY <1>3, <2>3, <2>7, <3>1 DEF Height
  <2>8. CASE d = 1
    <3>1. m.q[i] \preceq Height(m, i, 1)
      BY <1>1, <1>2, <2>4, <2>5, <2>6, MovingUpRaises
    <3> QED BY <1>3, <2>3, <2>8, <3>1
  <2> QED BY <2>1, <2>7, <2>8
<1> QED BY <1>4, <1>5

\* A marker that ends up further on is never lower than before: of the moves
\* that HeightsFollowPositions is about, only those downwards go wrong
\* (percentile.cc addValue, linear).
HeightsRise ==
    [][\A i \in Inner : count >= 5 /\ n'[i] > n[i] => q[i] \preceq q'[i]]_vars

THEOREM UpwardMovesRaise == Spec => HeightsRise
<1> DEFINE Rise == \A i \in Inner : count >= 5 /\ n'[i] > n[i] => q[i] \preceq q'[i]
<1>1. Inductive /\ Ordered /\ [Next]_vars => [Rise]_vars
  <2> SUFFICES ASSUME Inductive, Ordered, Next, count >= 5
               PROVE  Rise
    OBVIOUS
  <2>1. PICK v \in Values : Adapt(v)
    BY DEF Next, addValue, Collect, Inductive, Counts
  <2> DEFINE m0 == Counted(v)
             m1 == Adjusted(m0, 1)
             m2 == Adjusted(m1, 2)
             m3 == Adjusted(m2, 3)
             S == seen \cup {v}
             In(m) == /\ m.n \in Positions /\ Apart(m.n, count + 1)
                      /\ m.q \in Heights /\ Ascending(m.q) /\ Extremes(m.q, S)
             Same(m, o, i) == m.n[i] = o.n[i] /\ m.q[i] = o.q[i]
             Moves(m, o, i) == o.n[i] < m.n[i] \/ m.q[i] \preceq o.q[i]
  <2>2. /\ count \in Nat /\ n \in Positions /\ Apart(n, count)
        /\ count + 1 \in Int /\ v \in Nat /\ seen \in SUBSET Nat /\ S \in SUBSET Nat
        /\ q \in Heights /\ Ascending(q) /\ Extremes(q, seen)
    BY ValuesAssumption DEF Inductive, Counts, MarkersInOrder, Ordered
  <2>3. n' = m3.n /\ q' = m3.q
    BY <2>1 DEF Adapt
  <2>4. In(m0)
    <3>1. m0.n \in Positions /\ Apart(m0.n, count + 1)
      BY <2>2, CountingKeepsApart
    <3>2. m0.q \in Heights /\ Ascending(m0.q) /\ Extremes(m0.q, S)
      BY <2>2, CountingKeepsOrder
    <3> HIDE DEF m0, S
    <3> QED BY <3>1, <3>2
  <2>5. \A i \in Inner : m0.q[i] = q[i] /\ m0.n[i] <= n[i] + 1 /\ n[i] \in Int /\ m0.n[i] \in Int
    BY <2>2, InnerMarkers DEF Counted, Positions
  <2>6. ASSUME NEW m, In(m), NEW i \in Inner
        PROVE  /\ In(Adjusted(m, i))
               /\ \A j \in Markers \ {i} : Same(m, Adjusted(m, i), j)
               /\ Moves(m, Adjusted(m, i), i)
    <3> HIDE DEF S
    <3>1. In(Adjusted(m, i))
      BY <2>2, <2>6, AdjustingKeepsApart, AdjustingKeepsOrder
    <3>2. /\ \A j \in Markers \ {i} : Same(m, Adjusted(m, i), j)
          /\ Moves(m, Adjusted(m, i), i)
      BY <2>2, <2>6, OnlyLinearDownwardsErrs
    <3> QED BY <3>1, <3>2
  <2> HIDE DEF m0, In, Same, Moves
  <2>7. In(m1) /\ Same(m0, m1, 2) /\ Same(m0, m1, 3) /\ Moves(m0, m1, 1)
    BY <2>4, <2>6, InnerMarkers
  <2> HIDE DEF m1
  <2>8. In(m2) /\ Same(m1, m2, 1) /\ Same(m1, m2, 3) /\ Moves(m1, m2, 2)
    BY <2>6, <2>7, InnerMarkers
  <2> HIDE DEF m2
  <2>9. In(m3) /\ Same(m2, m3, 1) /\ Same(m2, m3, 2) /\ Moves(m2, m3, 3)
    BY <2>6, <2>8, InnerMarkers
  <2> HIDE DEF m3
  <2>10. \A i \in Inner : Moves(m0, m3, i)
    <3>1. Moves(m0, m3, 1)
      BY <2>7, <2>8, <2>9 DEF Moves, Same
    <3>2. Moves(m0, m3, 2)
      BY <2>7, <2>8, <2>9 DEF Moves, Same
    <3>3. Moves(m0, m3, 3)
      BY <2>7, <2>8, <2>9 DEF Moves, Same
    <3> QED BY <3>1, <3>2, <3>3, InnerMarkers
  <2>11. \A i \in Inner : n'[i] \in Int
    BY <2>3, <2>9, InnerMarkers DEF In, Positions
  <2> SUFFICES ASSUME NEW i \in Inner, n'[i] > n[i]
               PROVE  q[i] \preceq q'[i]
    OBVIOUS
  <2>12. ~(m3.n[i] < m0.n[i])
    BY <2>3, <2>5, <2>11
  <2> QED BY <2>3, <2>5, <2>10, <2>12 DEF Moves
<1> QED BY HeightsInvariance, <1>1, PTL DEF Spec, HeightsRise
=============================================================================
