---------------------------- MODULE MarketProofs ----------------------------
(***************************************************************************)
(* Proofs about Market, for any number of caches, any sizes, triggers and  *)
(* changes of usage.  Three inductive invariants, each with the ones before*)
(* it in hand:                                                             *)
(*   Books     what the wallets hold is what was left to the others, and   *)
(*             nothing wraps;                                              *)
(*   Holdings  what is allocated and what is on the market make up the     *)
(*             memory, and the pools follow the allocations;               *)
(*   Rounds    who is out has no money, no want or no market left, and     *)
(*             nobody still in is more than a window behind another.       *)
(* The sums over all caches are folds of the community modules; the first  *)
(* part proves what is needed of them by induction on sets.                *)
(***************************************************************************)
EXTENDS Market, FiniteSetTheorems, TLAPS

---------------------------------------------------------------------------
(* Sums *)

\* A family of subsets of a finite set that contains a set as soon as it
\* contains all its strict subsets contains the whole set.
LEMMA SetInduction ==
    ASSUME NEW S, IsFiniteSet(S), NEW F,
           \A T \in SUBSET S : (\A U \in (SUBSET T) \ {T} : U \in F) => T \in F
    PROVE  S \in F
<1> DEFINE Rest == {T \in SUBSET S : T \notin F}
           R == StrictSubsetOrdering(S)
<1>1. IsWellFoundedOn(R, SUBSET S)
  BY FS_StrictSubsetOrderingWellFounded, FS_FiniteSubsetsOfFinite
<1>2. CASE Rest = {}
  BY <1>2
<1>3. CASE Rest # {}
  <2>0. Rest \subseteq SUBSET S
    OBVIOUS
  <2> HIDE DEF R, Rest
  <2>1. \E T \in Rest : \A U \in Rest : <<U, T>> \notin R
    BY <1>1, <1>3, <2>0, WFMin
  <2>2. PICK T \in Rest : \A U \in Rest : <<U, T>> \notin R
    BY <2>1
  <2>3. \A U \in (SUBSET T) \ {T} : U \in F
    BY <2>2 DEF R, Rest, StrictSubsetOrdering
  <2> QED BY <2>2, <2>3 DEF Rest
<1> QED BY <1>2, <1>3

\* g[s] is the sum of f over s.
Additive(f, S, g) ==
    /\ g \in [SUBSET S -> Int]
    /\ g[{}] = 0
    /\ \A s \in SUBSET S : \A x \in s : g[s] = f[x] + g[s \ {x}]

\* Every function on a finite set has its sums.
LEMMA SumExists ==
    ASSUME NEW S, IsFiniteSet(S), NEW f \in [S -> Int]
    PROVE  \E g : Additive(f, S, g)
<1> DEFINE F == {T \in SUBSET S : \E g : Additive(f, T, g)}
<1>1. ASSUME NEW T \in SUBSET S, \A U \in (SUBSET T) \ {T} : U \in F
      PROVE  T \in F
  <2>1. CASE T = {}
    <3>1. Additive(f, {}, [s \in SUBSET {} |-> 0])
      BY DEF Additive
    <3> QED BY <2>1, <3>1
  <2>2. CASE T # {}
    <3>1. PICK x : x \in T
      BY <2>2
    <3>2. PICK g : Additive(f, T \ {x}, g)
      <4>1. T \ {x} \in (SUBSET T) \ {T}
        BY <3>1
      <4> QED BY <1>1, <4>1
    <3> DEFINE h == [s \in SUBSET T |-> IF x \in s THEN f[x] + g[s \ {x}] ELSE g[s]]
    <3>3. \A s \in SUBSET T : s \ {x} \in SUBSET (T \ {x}) /\ (x \notin s => s \in SUBSET (T \ {x}))
      OBVIOUS
    <3>4. h \in [SUBSET T -> Int]
      BY <3>1, <3>2, <3>3 DEF Additive
    <3>5. h[{}] = 0
      BY <3>2 DEF Additive
    <3>6. ASSUME NEW s \in SUBSET T, NEW y \in s
          PROVE  h[s] = f[y] + h[s \ {y}]
      <4>1. CASE y = x
        <5>1. h[s] = f[x] + g[s \ {x}]
          BY <4>1
        <5>2. h[s \ {x}] = g[s \ {x}]
          OBVIOUS
        <5> QED BY <4>1, <5>1, <5>2
      <4>2. CASE y # x /\ x \in s
        <5>1. h[s] = f[x] + g[s \ {x}]
          BY <4>2
        <5>2. g[s \ {x}] = f[y] + g[(s \ {x}) \ {y}]
          BY <3>2, <3>3, <4>2 DEF Additive
        <5>3. h[s \ {y}] = f[x] + g[(s \ {y}) \ {x}]
          BY <4>2
        <5>4. (s \ {x}) \ {y} = (s \ {y}) \ {x}
          OBVIOUS
        <5>5. g[(s \ {x}) \ {y}] \in Int /\ f[x] \in Int /\ f[y] \in Int
          <6>1. (s \ {x}) \ {y} \in SUBSET (T \ {x})
            OBVIOUS
          <6> QED BY <3>1, <3>2, <6>1 DEF Additive
        <5> DEFINE r == g[(s \ {x}) \ {y}]
        <5>6. h[s] = f[x] + (f[y] + r) /\ h[s \ {y}] = f[x] + r /\ r \in Int
          BY <5>1, <5>2, <5>3, <5>4, <5>5
        <5> HIDE DEF h, r
        <5> QED BY <5>5, <5>6
      <4>3. CASE x \notin s
        <5>1. h[s] = g[s] /\ h[s \ {y}] = g[s \ {y}]
          BY <4>3
        <5>2. g[s] = f[y] + g[s \ {y}]
          BY <3>2, <3>3, <4>3 DEF Additive
        <5> QED BY <5>1, <5>2
      <4> QED BY <4>1, <4>2, <4>3
    <3>7. Additive(f, T, h)
      <4> HIDE DEF h
      <4> QED BY <3>4, <3>5, <3>6 DEF Additive
    <3> QED BY <3>7
  <2> QED BY <2>1, <2>2
<1>2. S \in F
  <2> HIDE DEF F
  <2> QED BY <1>1, SetInduction
<1> QED BY <1>2

\* The recursion of the fold, which takes one element after the other.
Pick(s) == CHOOSE x \in s : TRUE

Unfolds(f, S, g) ==
    g = [s \in SUBSET S |-> IF s = {} THEN 0 ELSE f[Pick(s)] + g[s \ {Pick(s)}]]

\* What the total of a function is, by its definition.
LEMMA TotalUnfolds ==
    ASSUME NEW f
    PROVE  Total(f) = (CHOOSE g : Unfolds(f, DOMAIN f, g))[DOMAIN f]
  BY DEF Total, FoldFunction, FoldFunctionOnSet, MapThenFoldSet, Unfolds, Pick

\* The sums solve the recursion.
LEMMA SumUnfolds ==
    ASSUME NEW S, NEW f, NEW g, Additive(f, S, g)
    PROVE  Unfolds(f, S, g)
<1>1. \A s \in SUBSET S : s # {} => Pick(s) \in s
  BY DEF Pick
<1>2. \A s \in SUBSET S : g[s] = IF s = {} THEN 0 ELSE f[Pick(s)] + g[s \ {Pick(s)}]
  BY <1>1 DEF Additive
<1> QED BY <1>2 DEF Additive, Unfolds

\* The fold has one solution only.
LEMMA SumIsUnique ==
    ASSUME NEW S, IsFiniteSet(S), NEW f, NEW g, NEW h, Additive(f, S, g), Unfolds(f, S, h)
    PROVE  h[S] = g[S]
<1> DEFINE F == {T \in SUBSET S : h[T] = g[T]}
<1>1. ASSUME NEW T \in SUBSET S, \A U \in (SUBSET T) \ {T} : U \in F
      PROVE  T \in F
  <2>1. CASE T = {}
    BY <2>1 DEF Additive, Unfolds
  <2>2. CASE T # {}
    <3> DEFINE x == Pick(T)
    <3>1. x \in T
      BY <2>2 DEF Pick
    <3>2. h[T] = f[x] + h[T \ {x}]
      BY <2>2 DEF Unfolds
    <3> HIDE DEF x
    <3>3. g[T] = f[x] + g[T \ {x}]
      BY <3>1 DEF Additive
    <3>4. h[T \ {x}] = g[T \ {x}]
      <4>1. T \ {x} \in (SUBSET T) \ {T}
        BY <3>1
      <4> QED BY <1>1, <4>1
    <3> QED BY <3>2, <3>3, <3>4
  <2> QED BY <2>1, <2>2
<1>2. S \in F
  <2> HIDE DEF F
  <2> QED BY <1>1, SetInduction
<1> QED BY <1>2

\* The fold adds up the values of a function, in whatever order.
LEMMA TotalIsSum ==
    ASSUME NEW S, IsFiniteSet(S), NEW f \in [S -> Int], NEW g, Additive(f, S, g)
    PROVE  Total(f) = g[S]
<1> DEFINE h == CHOOSE h : Unfolds(f, S, h)
<1>1. Unfolds(f, S, h)
  BY SumUnfolds
<1>2. Total(f) = h[S]
  BY TotalUnfolds
<1> HIDE DEF h
<1> QED BY <1>1, <1>2, SumIsUnique

\* The sum of integers is one.
LEMMA TotalIsInt ==
    ASSUME NEW S, IsFiniteSet(S), NEW f \in [S -> Int]
    PROVE  Total(f) \in Int
<1>1. PICK g : Additive(f, S, g)
  BY SumExists
<1>2. g[S] \in Int
  BY <1>1 DEF Additive
<1> QED BY <1>1, <1>2, TotalIsSum

\* Larger terms have a larger sum, over every subset.
LEMMA SumAscends ==
    ASSUME NEW S, IsFiniteSet(S), NEW f \in [S -> Int], NEW e \in [S -> Int],
           NEW g, NEW h, Additive(f, S, g), Additive(e, S, h),
           NEW R \in SUBSET S, \A x \in R : f[x] <= e[x]
    PROVE  g[R] <= h[R]
<1> DEFINE F == {T \in SUBSET R : g[T] <= h[T]}
<1>1. ASSUME NEW T \in SUBSET R, \A U \in (SUBSET T) \ {T} : U \in F
      PROVE  T \in F
  <2>1. CASE T = {}
    BY <2>1 DEF Additive
  <2>2. CASE T # {}
    <3>1. PICK x : x \in T
      BY <2>2
    <3>2. g[T] = f[x] + g[T \ {x}] /\ h[T] = e[x] + h[T \ {x}]
      BY <3>1 DEF Additive
    <3>3. g[T \ {x}] <= h[T \ {x}]
      <4>1. T \ {x} \in (SUBSET T) \ {T}
        BY <3>1
      <4> QED BY <1>1, <4>1
    <3>4. /\ g[T \ {x}] \in Int /\ h[T \ {x}] \in Int
          /\ f[x] \in Int /\ e[x] \in Int /\ f[x] <= e[x]
      BY <3>1 DEF Additive
    <3>5. g[T] <= h[T]
      BY <3>2, <3>3, <3>4
    <3> QED BY <3>5
  <2> QED BY <2>1, <2>2
<1>2. R \in F
  <2>1. IsFiniteSet(R)
    BY FS_Subset
  <2> HIDE DEF F
  <2> QED BY <1>1, <2>1, SetInduction
<1> QED BY <1>2

\* A sum ascends with what is added up.
LEMMA TotalAscends ==
    ASSUME NEW S, IsFiniteSet(S), NEW f \in [S -> Int], NEW e \in [S -> Int],
           \A x \in S : f[x] <= e[x]
    PROVE  Total(f) <= Total(e)
<1>1. PICK g : Additive(f, S, g)
  BY SumExists
<1>2. PICK h : Additive(e, S, h)
  BY SumExists
<1>3. g[S] <= h[S]
  BY <1>1, <1>2, SumAscends
<1> QED BY <1>1, <1>2, <1>3, TotalIsSum

\* One term changes, and the sum with it.
LEMMA TotalChanges ==
    ASSUME NEW S, IsFiniteSet(S), NEW f \in [S -> Int], NEW x \in S, NEW v \in Int
    PROVE  Total([f EXCEPT ![x] = v]) = Total(f) - f[x] + v
<1> DEFINE e == [f EXCEPT ![x] = v]
           R == S \ {x}
<1>1. e \in [S -> Int] /\ e[x] = v /\ \A y \in R : e[y] = f[y] /\ f[y] \in Int
  OBVIOUS
<1> HIDE DEF e
<1>2. PICK g : Additive(f, S, g)
  BY SumExists
<1>3. PICK h : Additive(e, S, h)
  BY <1>1, SumExists
<1>4. g[R] <= h[R] /\ h[R] <= g[R]
  <2>1. \A y \in R : f[y] <= e[y] /\ e[y] <= f[y]
    BY <1>1
  <2>2. R \in SUBSET S
    OBVIOUS
  <2> HIDE DEF R
  <2> QED BY <1>1, <1>2, <1>3, <2>1, <2>2, SumAscends
<1>5. g[S] = f[x] + g[R] /\ h[S] = v + h[R] /\ g[R] \in Int /\ h[R] \in Int
  BY <1>1, <1>2, <1>3 DEF Additive
<1>6. Total(f) = g[S] /\ Total(e) = h[S]
  BY <1>1, <1>2, <1>3, TotalIsSum
<1>7. Total(e) = Total(f) - f[x] + v
  BY <1>4, <1>5, <1>6
<1> QED BY <1>7 DEF e

\* Nothing adds up to nothing.
LEMMA TotalOfNothing ==
    ASSUME NEW S, IsFiniteSet(S)
    PROVE  Total([x \in S |-> 0]) = 0
<1>1. Additive([x \in S |-> 0], S, [s \in SUBSET S |-> 0])
  BY DEF Additive
<1> QED BY <1>1, TotalIsSum

\* No term is more than the sum.
LEMMA TotalCoversEach ==
    ASSUME NEW S, IsFiniteSet(S), NEW f \in [S -> Nat], NEW x \in S
    PROVE  f[x] <= Total(f)
<1>1. PICK v \in Int : v = 0
  OBVIOUS
<1> DEFINE e == [f EXCEPT ![x] = v]
           z == [y \in S |-> 0]
<1>2. e \in [S -> Int] /\ z \in [S -> Int] /\ f \in [S -> Int] /\ \A y \in S : z[y] <= e[y]
  BY <1>1
<1>3. Total(z) = 0
  BY TotalOfNothing
<1>4. Total(e) = Total(f) - f[x] + v
  <2>1. f \in [S -> Int]
    OBVIOUS
  <2> QED BY <2>1, TotalChanges, Zenon
<1> HIDE DEF e, z
<1>5. Total(z) <= Total(e)
  BY <1>2, TotalAscends
<1>6. f[x] \in Int /\ Total(f) \in Int
  BY <1>2, TotalIsInt
<1> QED BY <1>1, <1>3, <1>4, <1>5, <1>6

---------------------------------------------------------------------------
(* Division *)

\* What a quotient is, also of a negative number.
LEMMA Division ==
    ASSUME NEW a \in Int, NEW b \in Nat \ {0}
    PROVE  /\ a \div b \in Int
           /\ b * (a \div b) <= a
           /\ a < b * (a \div b) + b
  OBVIOUS
\* There is only one.
LEMMA Quotient ==
    ASSUME NEW a \in Int, NEW b \in Nat \ {0}, NEW k \in Int, b * k <= a, a < b * k + b
    PROVE  a \div b = k
<1> DEFINE q == a \div b
<1>1. q \in Int /\ b * q <= a /\ a < b * q + b
  BY Division
<1> HIDE DEF q
<1>2. CASE q < k
  <2>1. q + 1 <= k
    BY <1>1, <1>2
  <2>2. b * (q + 1) <= b * k
    BY <1>1, <2>1
  <2>3. b * (q + 1) = b * q + b
    BY <1>1
  <2> QED BY <1>1, <2>2, <2>3
<1>3. CASE k < q
  <2>1. k + 1 <= q
    BY <1>1, <1>3
  <2>2. b * (k + 1) <= b * q
    BY <1>1, <2>1
  <2>3. b * (k + 1) = b * k + b
    OBVIOUS
  <2> QED BY <1>1, <2>2, <2>3
<1> QED BY <1>1, <1>2, <1>3 DEF q

LEMMA Remainder ==
    ASSUME NEW a \in Int, NEW b \in Nat \ {0}
    PROVE  a = b * (a \div b) + (a % b)
  BY Z3

LEMMA Modulo ==
    ASSUME NEW a \in Int, NEW b \in Nat \ {0}, NEW k \in Int, b * k <= a, a < b * k + b
    PROVE  a % b = a - b * k
<1>1. a \div b = k
  BY Quotient
<1>2. a = b * (a \div b) + (a % b) /\ a % b \in Int
  BY Remainder
<1> QED BY <1>1, <1>2

---------------------------------------------------------------------------
(* Arithmetic of sizes *)

LEMMA SizeInRange ==
    ASSUME NEW a \in 0..(SizeModulus - 1)
    PROVE  Size(a) = a
  BY WidthAssumption, MemoryAssumption DEF Size

LEMMA SizeIsNat ==
    ASSUME NEW a \in Int
    PROVE  Size(a) \in Nat
  BY WidthAssumption, MemoryAssumption DEF Size

LEMMA QuotientIsNat ==
    ASSUME NEW a \in Nat, NEW b \in Nat \ {0}
    PROVE  a \div b \in Nat
  OBVIOUS

LEMMA ProductIsNat ==
    ASSUME NEW a \in Nat, NEW b \in Nat
    PROVE  a * b \in Nat
  OBVIOUS

LEMMA TargetsAreNat ==
    ASSUME NEW t \in Nat
    PROVE  /\ getUpperResizeTarget(t) \in Nat
           /\ getLowerResizeTarget(t) \in Nat
<1>1. t + SlabSize - 1 \in Nat
  BY MemoryAssumption
<1>2. (t + SlabSize - 1) \div SlabSize \in Nat
  BY <1>1, QuotientIsNat, MemoryAssumption
<1>3. getUpperResizeTarget(t) \in Nat
  BY <1>2, ProductIsNat, MemoryAssumption DEF getUpperResizeTarget
<1>4. Most(1, t \div SlabSize) \in Nat
  BY QuotientIsNat, MemoryAssumption DEF Most
<1>5. getLowerResizeTarget(t) \in Nat
  BY <1>4, ProductIsNat, MemoryAssumption DEF getLowerResizeTarget
<1> QED BY <1>3, <1>5

---------------------------------------------------------------------------
(* The inductive invariant *)

Typed ==
    /\ pool \in [Caches -> Nat]
    /\ used \in [Caches -> Nat]
    /\ wallet \in [Caches -> Nat]
    /\ step \in Steps
    /\ todo \subseteq Caches
    /\ market \in Nat
    /\ allocated \in [Caches -> Nat]
    /\ wanted \in [Caches -> Nat]
    /\ buyers \subseteq Caches
    /\ lent \in [Caches -> Int]

\* The caches of this pass that have sold and may be buying: their deal is in
\* their wallet already, but not in the history.
Dealing == IF step = "sell" THEN Caches \ todo
           ELSE IF step = "buy" THEN Caches
           ELSE {}

Booked ==
    /\ \A c \in Dealing : wallet[c] = lent[c] + Requested[c] - allocated[c]
    /\ \A c \in Caches \ Dealing : wallet[c] = lent[c]

\* A sale cannot make a wallet too large, since the others are not touched.
Roomy ==
    /\ \A c \in Caches : wallet[c] <= MaxWallet
    /\ step = "sell" => \A c \in todo : wallet[c] + Requested[c] <= MaxWallet

Books == Typed /\ Booked /\ Roomy

LEMMA TargetIsNat ==
    ASSUME Typed, NEW c \in Caches
    PROVE  Target(c) \in Nat
<1> DEFINE clamped(u) == Most(SlabSize, Least(Memory, u))
           more == (used[c] * (100 + IncreasingSpeed)) \div 100
           less == (used[c] * (100 - DecreasingSpeed)) \div 100
<1>1. used[c] \in Nat
  BY DEF Typed
<1>2. more \in Nat
  <2>1. used[c] * (100 + IncreasingSpeed) \in Nat
    BY <1>1, ProductIsNat, PercentAssumption
  <2> QED BY <2>1, QuotientIsNat
<1>3. less \in Nat
  <2>1. used[c] * (100 - DecreasingSpeed) \in Nat
    BY <1>1, ProductIsNat, PercentAssumption
  <2> QED BY <2>1, QuotientIsNat
<1> HIDE DEF more, less
<1>4. clamped(more) \in Nat /\ clamped(less) \in Nat
  BY <1>2, <1>3, MemoryAssumption DEF Most, Least
<1> HIDE DEF clamped
<1>5. Target(c) \in {getUpperResizeTarget(clamped(more)),
                     getUpperResizeTarget(clamped(less)),
                     getUpperResizeTarget(used[c])}
  BY DEF Target, clamped, more, less
<1> QED BY <1>1, <1>4, <1>5, TargetsAreNat

\* A purchase is covered by the wallet, the wish and the market.
LEMMA PurchaseIsCovered ==
    ASSUME Typed, NEW c \in Caches
    PROVE  /\ Bought(c) \in Nat
           /\ Bought(c) <= wallet[c]
           /\ Bought(c) <= wanted[c]
           /\ Bought(c) <= market
  BY MemoryAssumption DEF Typed, Bought, Least

---------------------------------------------------------------------------
(* The steps *)

LEMMA InitBooks == Init => Books
  BY MemoryAssumption, WalletAssumption
  DEF Init, Books, Typed, Booked, Roomy, Dealing, Steps

LEMMA UseBooks ==
    ASSUME Books, NEW c \in Caches, Use(c)
    PROVE  Books'
<1>1. PICK u \in 0..Most(pool[c], used[c]) :
          /\ used' = [used EXCEPT ![c] = u]
          /\ UNCHANGED <<pool, wallet, step, todo, deal, over, place, left, lent, asked>>
  BY DEF Use, shrinking
<1>2. Typed'
  BY <1>1 DEF Books, Typed, deal, Most
<1>3. Booked' /\ Roomy'
  BY <1>1 DEF Books, Booked, Roomy, Dealing, deal
<1> QED BY <1>2, <1>3 DEF Books

LEMMA BeginBooks ==
    ASSUME Books, Begin
    PROVE  Books'
<1>1. Typed'
  BY MemoryAssumption DEF Books, Begin, Typed, Steps
<1>2. Booked'
  BY DEF Books, Begin, Booked, Dealing
<1>3. Roomy'
  BY DEF Books, Begin, Roomy
<1> QED BY <1>1, <1>2, <1>3 DEF Books

\* A sale books what the seller is paid for the memory it leaves.
LEMMA SellBooks ==
    ASSUME Books, NEW c \in Caches, Sell(c)
    PROVE  Books'
<1> DEFINE usage == Target(c)
<1>1. usage \in Nat
  BY TargetIsNat DEF Books
<1>2. /\ step = "sell" /\ c \in todo
      /\ market' = Size(market - allocated'[c])
      /\ todo' = todo \ {c}
      /\ UNCHANGED <<pool, used, step, over, place, left, lent, asked>>
  BY DEF Sell, caches, shrinking
<1>3. Requested[c] \in Nat
  BY MemoryAssumption
<1>4. CASE usage > Requested[c]
  <2>1. /\ allocated' = [allocated EXCEPT ![c] = Requested[c]]
        /\ wanted' = [wanted EXCEPT ![c] = usage - Requested[c]]
        /\ buyers' = buyers \cup {c}
        /\ wallet' = wallet
    BY <1>1, <1>3, <1>4 DEF Sell
  <2> HIDE DEF usage
  <2>2. usage - Requested[c] \in Nat
    BY <1>1, <1>3, <1>4
  <2>3. market' \in Nat
    <3>1. market - allocated'[c] \in Int
      BY <1>3, <2>1 DEF Books, Typed
    <3> QED BY <1>2, <3>1, SizeIsNat
  <2>4. Typed'
    BY <1>2, <1>3, <2>1, <2>2, <2>3 DEF Books, Typed
  <2>5. Booked'
    BY <1>2, <1>3, <2>1 DEF Books, Booked, Dealing, Typed
  <2>6. Roomy'
    BY <1>2, <2>1 DEF Books, Roomy
  <2> QED BY <2>4, <2>5, <2>6 DEF Books
<1>5. CASE usage <= Requested[c]
  <2>1. /\ allocated' = [allocated EXCEPT ![c] = usage]
        /\ wallet' = [wallet EXCEPT ![c] = Size(@ + Earned(c, usage))]
        /\ wanted' = wanted
        /\ buyers' = buyers
    BY <1>1, <1>3, <1>5 DEF Sell
  <2> HIDE DEF usage
  <2>2. wallet[c] + Requested[c] <= MaxWallet /\ wallet[c] \in Nat
    BY <1>2 DEF Books, Roomy, Typed
  <2>3. wallet[c] + (Requested[c] - usage) \in 0..(SizeModulus - 1)
    BY <1>1, <1>3, <1>5, <2>2, WalletAssumption, WidthAssumption
  <2>4. wallet' = [wallet EXCEPT ![c] = @ + (Requested[c] - usage)]
    BY <2>1, <2>3, SizeInRange DEF Earned
  <2>5. market' \in Nat
    <3>1. market - allocated'[c] \in Int
      BY <1>1, <2>1 DEF Books, Typed
    <3> QED BY <1>2, <3>1, SizeIsNat
  <2>6. Typed'
    BY <1>1, <1>2, <2>1, <2>3, <2>4, <2>5 DEF Books, Typed
  <2>7. Booked'
    BY <1>1, <1>2, <1>3, <2>1, <2>4 DEF Books, Booked, Dealing, Typed
  <2>8. Roomy'
    <3>1. \A d \in Caches \ {c} : wallet'[d] = wallet[d]
      BY <2>4 DEF Books, Typed
    <3>2. wallet'[c] <= MaxWallet
      BY <1>1, <1>3, <2>2, <2>4, WalletAssumption DEF Books, Typed
    <3>3. todo' = todo \ {c} /\ step' = step /\ todo \subseteq Caches
      BY <1>2 DEF Books, Typed
    <3>4. \A d \in Caches : wallet[d] <= MaxWallet
      BY DEF Books, Roomy
    <3>5. \A d \in todo : wallet[d] + Requested[d] <= MaxWallet
      BY <1>2 DEF Books, Roomy
    <3>6. \A d \in Caches : wallet'[d] <= MaxWallet
      BY <3>1, <3>2, <3>4
    <3>7. \A d \in todo \ {c} : wallet'[d] + Requested[d] <= MaxWallet
      BY <3>1, <3>3, <3>5
    <3> QED BY <3>3, <3>6, <3>7 DEF Roomy
  <2> QED BY <2>6, <2>7, <2>8 DEF Books
<1> QED BY <1>1, <1>3, <1>4, <1>5

LEMMA SoldAllBooks ==
    ASSUME Books, SoldAll
    PROVE  Books'
<1>1. Typed'
  BY DEF Books, SoldAll, Typed, caches, deal, Steps
<1>2. Booked' /\ Roomy'
  BY DEF Books, SoldAll, Booked, Roomy, Dealing, caches, deal
<1> QED BY <1>1, <1>2 DEF Books

LEMMA RoundBooks ==
    ASSUME Books, Round
    PROVE  Books'
<1>1. Typed'
  BY DEF Books, Round, Typed, caches, deal
<1>2. Booked' /\ Roomy'
  BY DEF Books, Round, Booked, Roomy, Dealing, caches, deal
<1> QED BY <1>1, <1>2 DEF Books

\* A purchase moves as much memory to the buyer as money out of its wallet.
LEMMA BuyBooks ==
    ASSUME Books, NEW c \in Caches, Buy(c)
    PROVE  Books'
<1> DEFINE b == Bought(c)
<1>1. /\ b \in Nat /\ b <= wallet[c] /\ b <= wanted[c] /\ b <= market
  BY PurchaseIsCovered DEF Books
<1>2. /\ step = "buy" /\ c \in todo
      /\ wallet' = [wallet EXCEPT ![c] = Size(@ - b)]
      /\ wanted' = [wanted EXCEPT ![c] = Size(@ - b)]
      /\ allocated' = [allocated EXCEPT ![c] = @ + b]
      /\ market' = Size(market - b)
      /\ buyers' \subseteq buyers
      /\ todo' = todo \ {c}
      /\ UNCHANGED <<pool, used, step, over, place, left, lent, asked>>
  BY DEF Buy, caches, shrinking
<1> HIDE DEF b
<1>3. wallet[c] - b \in 0..(SizeModulus - 1)
  BY <1>1, WalletAssumption, WidthAssumption DEF Books, Typed, Roomy
<1>4. wallet' = [wallet EXCEPT ![c] = @ - b]
  BY <1>2, <1>3, SizeInRange
<1>5. Size(wanted[c] - b) \in Nat /\ market' \in Nat
  <2>1. wanted[c] - b \in Int /\ market - b \in Int
    BY <1>1 DEF Books, Typed
  <2> QED BY <1>2, <2>1, SizeIsNat
<1>6. Typed'
  BY <1>1, <1>2, <1>3, <1>4, <1>5 DEF Books, Typed
<1>7. Booked'
  <2>1. Dealing = Caches /\ Dealing' = Caches
    BY <1>2 DEF Dealing
  <2>2. \A d \in Caches : wallet[d] = lent[d] + Requested[d] - allocated[d]
    BY <2>1 DEF Books, Booked
  <2>3. /\ wallet'[c] = wallet[c] - b
        /\ allocated'[c] = allocated[c] + b
    BY <1>2, <1>4 DEF Books, Typed
  <2>4. \A d \in Caches \ {c} : wallet'[d] = wallet[d] /\ allocated'[d] = allocated[d]
    BY <1>2, <1>4 DEF Books, Typed
  <2>5. lent' = lent
    BY <1>2
  <2>6. wallet'[c] = lent'[c] + Requested[c] - allocated'[c]
    BY <1>1, <2>2, <2>3, <2>5, MemoryAssumption DEF Books, Typed
  <2> QED BY <2>1, <2>2, <2>4, <2>5, <2>6 DEF Booked
<1>8. Roomy'
  BY <1>1, <1>2, <1>4, WalletAssumption DEF Books, Roomy, Typed
<1> QED BY <1>6, <1>7, <1>8 DEF Books

LEMMA BoughtAllBooks ==
    ASSUME Books, BoughtAll
    PROVE  Books'
<1>1. Typed'
  BY MemoryAssumption DEF Books, BoughtAll, RoundsEnd, Typed, caches, deal, Steps
<1>2. Booked'
  <2>1. \A c \in Caches : wallet[c] = lent[c] + Requested[c] - allocated[c]
    BY DEF Books, Booked, Dealing, BoughtAll, RoundsEnd
  <2>2. \A c \in Caches : wallet'[c] = lent'[c]
    BY <2>1 DEF BoughtAll
  <2>3. Dealing' = {}
    BY DEF BoughtAll, Dealing
  <2> QED BY <2>2, <2>3 DEF Booked
<1>3. Roomy'
  BY DEF Books, BoughtAll, RoundsEnd, Roomy, caches, deal
<1> QED BY <1>1, <1>2, <1>3 DEF Books

LEMMA ResizeBooks ==
    ASSUME Books, NEW c \in Caches, Resize(c)
    PROVE  Books'
<1> DEFINE newsize == getLowerResizeTarget(allocated[c])
<1>1. newsize \in Nat
  BY TargetsAreNat DEF Books, Typed
<1>2. /\ pool' \in {pool, [pool EXCEPT ![c] = newsize]}
      /\ step = "resize"
      /\ todo' = todo \ {c}
      /\ UNCHANGED <<used, wallet, step, deal, lent, asked>>
  BY DEF Resize
<1> HIDE DEF newsize
<1>3. Typed'
  BY <1>1, <1>2 DEF Books, Typed, deal
<1>4. Booked' /\ Roomy'
  BY <1>2 DEF Books, Booked, Roomy, Dealing, deal
<1> QED BY <1>3, <1>4 DEF Books

\* What shrink leaves alone: it frees memory of its cache at most.
LEMMA ShrinkFrame ==
    ASSUME NEW c \in Caches, Shrink(c)
    PROVE  /\ c \in over
           /\ used' = used \/ \E u \in 0..used[c] : used' = [used EXCEPT ![c] = u]
           /\ UNCHANGED <<pool, wallet, step, todo, deal, lent>>
  BY DEF Shrink, Ask, PickVictim, Advised, NoVictim, Release, Abort, FailRelease, Emptied, caches

LEMMA ShrinkBooks ==
    ASSUME Books, NEW c \in Caches, Shrink(c)
    PROVE  Books'
<1>1. used' = used \/ \E u \in 0..used[c] : used' = [used EXCEPT ![c] = u]
  BY ShrinkFrame
<1>2. UNCHANGED <<pool, wallet, step, todo, deal, lent>>
  BY ShrinkFrame
<1>3. Typed'
  BY <1>1, <1>2 DEF Books, Typed, deal
<1>4. Booked' /\ Roomy'
  BY <1>2 DEF Books, Booked, Roomy, Dealing, deal
<1> QED BY <1>3, <1>4 DEF Books

LEMMA EndBooks ==
    ASSUME Books, End
    PROVE  Books'
<1>1. Typed'
  BY DEF Books, End, Typed, caches, deal, Steps
<1>2. Booked' /\ Roomy'
  BY DEF Books, End, Booked, Roomy, Dealing, caches, deal
<1> QED BY <1>1, <1>2 DEF Books

---------------------------------------------------------------------------
(* The theorem *)

\* The books are kept in every state.
THEOREM BooksAreKept == Spec => []Books
<1>1. Books /\ [Next]_vars => Books'
  <2> SUFFICES ASSUME Books, [Next]_vars
               PROVE  Books'
    OBVIOUS
  <2>1. CASE UNCHANGED vars
    BY <2>1 DEF vars, Books, Typed, Booked, Roomy, Dealing
  <2>2. CASE Next
    BY <2>2, UseBooks, BeginBooks, SellBooks, SoldAllBooks, RoundBooks,
       BuyBooks, BoughtAllBooks, ResizeBooks, ShrinkBooks, EndBooks
    DEF Next, Work
  <2> QED BY <2>1, <2>2
<1> QED BY InitBooks, <1>1, PTL DEF Spec

\* At the end of each pass, and of all passes before it, the wallet of a cache
\* is exactly the memory it left to the others minus the memory it took: no
\* order of the purchases, and no use of the caches in between, lets a cache
\* overdraw (market.cc sellBaseMemory, buyExtraMemory).
THEOREM WalletsAreBacked == Spec => []NobodyTakesMoreThanItLeft
<1>1. Books => NobodyTakesMoreThanItLeft
  BY DEF Books, Typed, Booked, Dealing, NobodyTakesMoreThanItLeft
<1> QED BY BooksAreKept, <1>1, PTL

---------------------------------------------------------------------------
(* Targets *)

\* Rounding up gives a slab at least, and less than a slab too much.
LEMMA UpperTarget ==
    ASSUME NEW t \in 1..Memory
    PROVE  getUpperResizeTarget(t) \in SlabSize..(Memory + SlabSize)
<1> DEFINE q == (t + SlabSize - 1) \div SlabSize
<1>1. /\ q \in Int
      /\ SlabSize * q <= t + SlabSize - 1
      /\ t + SlabSize - 1 < SlabSize * q + SlabSize
  BY MemoryAssumption, Division
<1> HIDE DEF q
<1>2. q >= 1
  <2>1. CASE q <= 0
    <3>1. SlabSize * q <= 0
      BY <1>1, <2>1, MemoryAssumption
    <3> QED BY <1>1, <3>1, MemoryAssumption
  <2> QED BY <1>1, <2>1
<1>3. SlabSize * q >= SlabSize
  BY <1>1, <1>2, MemoryAssumption
<1>4. q * SlabSize = SlabSize * q /\ q * SlabSize \in Int
  BY <1>1, MemoryAssumption
<1>5. getUpperResizeTarget(t) = q * SlabSize
  BY DEF getUpperResizeTarget, q
<1> QED BY <1>1, <1>3, <1>4, <1>5, MemoryAssumption

\* Rounding down never goes below a slab.
LEMMA LowerTarget ==
    ASSUME NEW t \in Nat, SlabSize <= t
    PROVE  getLowerResizeTarget(t) \in SlabSize..t
<1> DEFINE q == t \div SlabSize
<1>1. /\ q \in Int
      /\ SlabSize * q <= t
      /\ t < SlabSize * q + SlabSize
  BY MemoryAssumption, Division
<1> HIDE DEF q
<1>2. q >= 1
  <2>1. CASE q <= 0
    <3>1. SlabSize * q <= 0
      BY <1>1, <2>1, MemoryAssumption
    <3> QED BY <1>1, <3>1, MemoryAssumption
  <2> QED BY <1>1, <2>1
<1>3. SlabSize * q >= SlabSize
  BY <1>1, <1>2, MemoryAssumption
<1>4. q * SlabSize = SlabSize * q /\ q * SlabSize \in Int
  BY <1>1, MemoryAssumption
<1>5. getLowerResizeTarget(t) = q * SlabSize
  <2>1. Most(1, q) = q
    BY <1>1, <1>2 DEF Most
  <2> QED BY <2>1 DEF getLowerResizeTarget, q
<1> QED BY <1>1, <1>3, <1>4, <1>5, MemoryAssumption

\* shrink advises what the excess calls for, also when it has become negative
\* and wrapped: SizeModulus is a number of slabs that IntModulus divides.
LEMMA SlabsOfExcess ==
    ASSUME NEW c \in Caches, NEW newsize \in Int,
           used[c] \in Int, used[c] - newsize \in (-Memory)..Memory
    PROVE  SlabsToAdvise(c, newsize) = (used[c] - newsize) \div SlabSize + 1
<1> DEFINE x == used[c] - newsize
           q == x \div SlabSize
           m == Memory \div SlabSize
           k == SizeModulus \div SlabSize
           j == k \div IntModulus
           n == Size(x) \div SlabSize
           slabs == (n + 1) % IntModulus
<1>0. /\ SlabSize \in Nat \ {0} /\ Memory \in Nat
      /\ SizeModulus \in Nat \ {0} /\ IntModulus \in Nat \ {0} /\ Memory < SizeModulus
  BY MemoryAssumption, WidthAssumption
<1>1. x \in Int /\ -Memory <= x /\ x <= Memory
  BY <1>0
<1>2. q \in Int /\ SlabSize * q <= x /\ x < SlabSize * q + SlabSize
  BY <1>0, <1>1, Division
<1>3. m \in Int /\ SlabSize * m <= Memory /\ Memory < SlabSize * m + SlabSize
  BY <1>0, Division
<1>4. k \in Int /\ SizeModulus = SlabSize * k
  <2>1. k \in Int
    BY <1>0, Division
  <2>2. SizeModulus = SlabSize * k + (SizeModulus % SlabSize)
    BY <1>0, Remainder
  <2>3. SlabSize * k \in Int
    BY <1>0, <2>1
  <2> HIDE DEF k
  <2> QED BY <2>1, <2>2, <2>3, WidthAssumption
<1>5. j \in Int /\ k = IntModulus * j
  <2>1. j \in Int
    BY <1>0, <1>4, Division
  <2>2. k = IntModulus * j + (k % IntModulus)
    BY <1>0, <1>4, Remainder
  <2>3. k % IntModulus = 0
    BY WidthAssumption
  <2>4. IntModulus * j \in Int
    BY <1>0, <2>1
  <2> HIDE DEF j, k
  <2> QED BY <2>1, <2>2, <2>3, <2>4
<1>6. 2 * (m + 1) < IntModulus
  BY WidthAssumption
<1>7. SlabsToAdvise(c, newsize) = IF 2 * slabs < IntModulus THEN slabs ELSE slabs - IntModulus
  BY DEF SlabsToAdvise
<1>8. CASE x >= 0
  <2>1. Size(x) = x
    BY <1>0, <1>1, <1>8, SizeInRange
  <2>2. n = q
    BY <2>1
  <2> HIDE DEF x, q, m, k, j
  <2>3. q >= 0
    <3>1. CASE q <= -1
      <4>1. SlabSize * q <= -SlabSize
        BY <1>0, <1>2, <3>1
      <4> QED BY <1>0, <1>1, <1>2, <1>8, <4>1
    <3> QED BY <1>2, <3>1
  <2>4. q <= m
    <3>1. CASE q >= m + 1
      <4>1. SlabSize * q >= SlabSize * (m + 1)
        BY <1>0, <1>2, <1>3, <3>1
      <4>2. SlabSize * (m + 1) = SlabSize * m + SlabSize
        BY <1>0, <1>3
      <4> QED BY <1>0, <1>1, <1>2, <1>3, <4>1, <4>2
    <3> QED BY <1>2, <1>3, <3>1
  <2>5. slabs = q + 1
    <3>1. q + 1 \in 0..(IntModulus - 1)
      BY <1>0, <1>2, <1>3, <1>6, <2>3, <2>4
    <3>2. (q + 1) % IntModulus = (q + 1) - IntModulus * 0
      <4>1. /\ q + 1 \in Int /\ 0 \in Int
            /\ IntModulus * 0 <= q + 1 /\ q + 1 < IntModulus * 0 + IntModulus
        BY <1>0, <3>1
      <4> QED BY <1>0, <4>1, Modulo
    <3> QED BY <1>0, <1>2, <2>2, <3>2
  <2> HIDE DEF n, slabs
  <2>6. 2 * slabs < IntModulus
    BY <1>0, <1>2, <1>3, <1>6, <2>4, <2>5
  <2> QED BY <1>7, <2>5, <2>6 DEF q, x
<1>9. CASE x < 0
  <2>1. Size(x) = x + SizeModulus
    <3>1. SizeModulus * (-1) <= x /\ x < SizeModulus * (-1) + SizeModulus
      BY <1>0, <1>1, <1>9
    <3>2. x % SizeModulus = x - SizeModulus * (-1)
      BY <1>0, <1>1, <3>1, Modulo
    <3> QED BY <1>0, <1>1, <3>2 DEF Size
  <2>2. n = q + k
    <3> HIDE DEF x, q, k
    <3>1. SlabSize * (q + k) = SlabSize * q + SlabSize * k
      BY <1>0, <1>2, <1>4
    <3>2. SlabSize * (q + k) <= x + SizeModulus
      BY <1>0, <1>1, <1>2, <1>4, <3>1
    <3>3. x + SizeModulus < SlabSize * (q + k) + SlabSize
      BY <1>0, <1>1, <1>2, <1>4, <3>1
    <3>4. x + SizeModulus \in Int /\ q + k \in Int
      BY <1>0, <1>1, <1>2, <1>4
    <3>5. (x + SizeModulus) \div SlabSize = q + k
      BY <1>0, <3>2, <3>3, <3>4, Quotient
    <3> QED BY <2>1, <3>5
  <2> HIDE DEF x, q, m, k, j, n
  <2>3. q <= -1
    <3>1. CASE q >= 0
      <4>1. SlabSize * q >= 0
        BY <1>0, <1>2, <3>1
      <4> QED BY <1>0, <1>1, <1>2, <1>9, <4>1
    <3> QED BY <1>2, <3>1
  <2>4. q >= -(m + 1)
    <3>1. CASE q <= -(m + 1) - 1
      <4>1. SlabSize * q <= SlabSize * (-(m + 1) - 1)
        BY <1>0, <1>2, <1>3, <3>1
      <4>2. SlabSize * (-(m + 1) - 1) = -(SlabSize * m + SlabSize) - SlabSize
        BY <1>0, <1>3
      <4> QED BY <1>0, <1>1, <1>2, <1>3, <4>1, <4>2
    <3> QED BY <1>2, <1>3, <3>1
  <2>5. CASE q = -1
    <3>1. slabs = 0
      <4>1. n + 1 = IntModulus * j
        BY <1>4, <1>5, <2>2, <2>5
      <4>2. (n + 1) % IntModulus = (n + 1) - IntModulus * j
        <5>1. n + 1 \in Int
          BY <1>4, <2>2, <2>5
        <5>2. IntModulus * j \in Int
          BY <1>0, <1>5
        <5>3. IntModulus * j <= n + 1 /\ n + 1 < IntModulus * j + IntModulus
          BY <1>0, <4>1, <5>2
        <5> QED BY <1>0, <1>5, <5>1, <5>3, Modulo
      <4>3. IntModulus * j \in Int
        BY <1>0, <1>5
      <4> QED BY <4>1, <4>2, <4>3
    <3> HIDE DEF slabs
    <3> QED BY <1>0, <1>7, <2>5, <3>1 DEF q, x
  <2>6. CASE q < -1
    <3>1. slabs = IntModulus + q + 1
      <4>1. IntModulus * (j - 1) = IntModulus * j - IntModulus /\ IntModulus * j \in Int
        BY <1>0, <1>5
      <4>2. n + 1 = IntModulus * j + q + 1
        <5>1. n + 1 = (q + k) + 1 /\ q \in Int
          BY <1>2, <2>2
        <5> QED BY <1>5, <4>1, <5>1
      <4>3. n + 1 \in Int /\ j - 1 \in Int
        BY <1>2, <1>4, <1>5, <2>2
      <4>4. IntModulus * (j - 1) <= n + 1
        BY <1>0, <1>2, <1>3, <1>6, <2>4, <4>1, <4>2
      <4>5. n + 1 < IntModulus * (j - 1) + IntModulus
        BY <1>0, <1>2, <2>6, <4>1, <4>2
      <4>6. (n + 1) % IntModulus = (n + 1) - IntModulus * (j - 1)
        BY <1>0, <4>3, <4>4, <4>5, Modulo
      <4> QED BY <1>0, <1>2, <4>1, <4>2, <4>6
    <3> HIDE DEF slabs
    <3>2. ~(2 * slabs < IntModulus)
      BY <1>0, <1>2, <1>3, <1>6, <2>4, <3>1
    <3>3. slabs - IntModulus = q + 1
      BY <1>0, <1>2, <3>1
    <3> QED BY <1>7, <3>2, <3>3 DEF q, x
  <2> QED BY <1>2, <2>3, <2>5, <2>6
<1> QED BY <1>1, <1>8, <1>9

---------------------------------------------------------------------------
(* The memory *)

\* A pool has a slab at least, and is never larger than the memory.
Pools ==
    /\ \A c \in Caches : pool[c] \in SlabSize..Memory /\ used[c] \in 0..Memory
    /\ over \subseteq Caches
    /\ place \in Places
    /\ left \in 0..MaxAdvised
    /\ place = "release" => left > 0
    /\ asked \in [excess : Int, slabs : Int]
    /\ ShrinkAsksForTheExcess

\* What a cache has got so far, at each point of a pass.  A cache that has not
\* sold has nothing, and is not among the buyers.
Dealt ==
    /\ step = "sell" =>
          /\ \A c \in todo : allocated[c] = 0 /\ c \notin buyers
          /\ \A c \in Caches : allocated[c] <= Requested[c]
          /\ \A c \in Caches \ todo : allocated[c] >= SlabSize
          /\ \A c \in buyers : allocated[c] = Requested[c]
          /\ \A c \in Caches \ buyers : wanted[c] = 0
    /\ step = "buy" =>
          /\ todo \subseteq buyers
          /\ \A c \in buyers : allocated[c] >= Requested[c]
    /\ step \in {"buy", "resize"} => \A c \in Caches : allocated[c] >= SlabSize

\* What is allocated is there, and a pool that has been resized fits in it.
Backed ==
    /\ LedgerBalances
    /\ market <= Memory
    /\ \A c \in Caches : allocated[c] <= Memory /\ wanted[c] <= Memory + SlabSize
    /\ step = "resize" => \A c \in Caches \ todo : pool[c] <= allocated[c]

Holdings == Pools /\ Dealt /\ Backed

\* A cache can request what fits in the memory.
LEMMA Sizes ==
    /\ SlabSize \in Nat \ {0} /\ Memory \in Nat
    /\ \A c \in Caches : Requested[c] \in Nat /\ SlabSize <= Requested[c] /\ Requested[c] <= Memory
  BY MemoryAssumption

\* The usage a cache makes room for is a slab at least.
LEMMA TargetRange ==
    ASSUME Pools, NEW c \in Caches
    PROVE  Target(c) \in SlabSize..(Memory + SlabSize)
<1> DEFINE clamped(u) == Most(SlabSize, Least(Memory, u))
           more == (used[c] * (100 + IncreasingSpeed)) \div 100
           less == (used[c] * (100 - DecreasingSpeed)) \div 100
<1>1. /\ used[c] \in Nat /\ used[c] <= Memory
      /\ pool[c] \in Nat \ {0}
  BY Sizes DEF Pools
<1>2. more \in Int /\ less \in Int
  <2>1. used[c] * (100 + IncreasingSpeed) \in Int /\ used[c] * (100 - DecreasingSpeed) \in Int
    BY <1>1, PercentAssumption
  <2> QED BY <2>1, Division
<1> HIDE DEF more, less
<1>3. clamped(more) \in 1..Memory /\ clamped(less) \in 1..Memory
  BY <1>2, Sizes DEF Most, Least
<1> HIDE DEF clamped
<1>4. \/ Target(c) = getUpperResizeTarget(clamped(more))
      \/ Target(c) = getUpperResizeTarget(clamped(less))
      \/ /\ ~(100 * used[c] < TriggerDecrement * pool[c])
         /\ Target(c) = getUpperResizeTarget(used[c])
  BY DEF Target, clamped, more, less
<1>5. ~(100 * used[c] < TriggerDecrement * pool[c]) => used[c] \in 1..Memory
  <2>1. TriggerDecrement * pool[c] >= 1
    BY <1>1, PercentAssumption
  <2>2. TriggerDecrement * pool[c] \in Int
    BY <1>1, PercentAssumption
  <2> QED BY <1>1, <2>1, <2>2, Sizes
<1> QED BY <1>3, <1>4, <1>5, UpperTarget

\* Wrapping never makes a size larger.
LEMMA SizeIsLess ==
    ASSUME NEW a \in Nat
    PROVE  Size(a) \in Nat /\ Size(a) <= a
<1> DEFINE q == a \div SizeModulus
<1>0. SizeModulus \in Nat \ {0}
  BY WidthAssumption, MemoryAssumption
<1>1. a = SizeModulus * q + (a % SizeModulus) /\ a % SizeModulus \in Nat
  BY <1>0, Remainder
<1>2. q \in Nat
  BY <1>0, QuotientIsNat
<1>3. SizeModulus * q \in Nat
  BY <1>0, <1>2
<1> HIDE DEF q
<1> QED BY <1>1, <1>3 DEF Size

\* The total of naturals is one, and none of them is more.
LEMMA TotalOfNaturals ==
    ASSUME NEW f \in [Caches -> Nat]
    PROVE  /\ f \in [Caches -> Int]
           /\ Total(f) \in Nat
           /\ \A c \in Caches : f[c] <= Total(f)
<1>1. f \in [Caches -> Int]
  OBVIOUS
<1>2. \A c \in Caches : f[c] <= Total(f)
  BY CachesAssumption, TotalCoversEach
<1>3. Total(f) \in Int
  BY <1>1, CachesAssumption, TotalIsInt
<1>4. Total(f) >= 0
  <2>1. [c \in Caches |-> 0] \in [Caches -> Int]
    OBVIOUS
  <2>2. \A c \in Caches : [d \in Caches |-> 0][c] <= f[c]
    OBVIOUS
  <2>3. Total([c \in Caches |-> 0]) <= Total(f)
    BY <1>1, <2>1, <2>2, CachesAssumption, TotalAscends
  <2> QED BY <1>3, <2>3, CachesAssumption, TotalOfNothing
<1> QED BY <1>1, <1>2, <1>3, <1>4

\* When the ledger balances, nothing is larger than the memory.
LEMMA BalanceBounds ==
    ASSUME NEW f \in [Caches -> Nat], NEW m \in Nat, m + Total(f) = Memory
    PROVE  m <= Memory /\ \A c \in Caches : f[c] <= Memory
<1>1. Total(f) \in Nat /\ \A c \in Caches : f[c] <= Total(f) /\ f[c] \in Nat
  BY TotalOfNaturals
<1> QED BY <1>1, Sizes

\* While the caches sell, there is enough left for each that has not.
LEMMA EnoughIsLeft ==
    ASSUME Typed, Dealt, LedgerBalances, step = "sell", NEW c \in todo
    PROVE  Requested[c] <= market
<1> DEFINE next == [allocated EXCEPT ![c] = Requested[c]]
<1>1. c \in Caches /\ Requested[c] \in Int /\ allocated[c] = 0
  BY Sizes DEF Typed, Dealt
<1>2. allocated \in [Caches -> Int] /\ Requested \in [Caches -> Int]
  BY MemoryAssumption DEF Typed
<1>3. next \in [Caches -> Int] /\ \A d \in Caches : next[d] <= Requested[d]
  BY <1>1, <1>2 DEF Dealt
<1>4. Total(next) = Total(allocated) - allocated[c] + Requested[c]
  BY <1>1, <1>2, CachesAssumption, TotalChanges
<1> HIDE DEF next
<1>5. Total(next) <= Total(Requested)
  BY <1>2, <1>3, CachesAssumption, TotalAscends
<1>6. Total(Requested) <= Memory
  BY RequestsAssumption DEF Total
<1>7. Total(Requested) \in Int /\ Total(allocated) \in Int
  BY <1>2, CachesAssumption, TotalIsInt
<1>8. market + Total(allocated) = Memory /\ market \in Int
  BY DEF LedgerBalances, Typed
<1> QED BY <1>1, <1>4, <1>5, <1>6, <1>7, <1>8, Sizes

---------------------------------------------------------------------------
(* The steps *)

\* Nothing is asked for when there is no excess.
LEMMA NothingIsRight ==
    /\ NothingAsked \in [excess : Int, slabs : Int]
    /\ NothingAsked.slabs = NothingAsked.excess \div SlabSize + 1
<1>1. 0 \div SlabSize = 0
  BY Sizes, Quotient
<1> QED BY <1>1 DEF NothingAsked

LEMMA InitHoldings == Init => Holdings
<1> SUFFICES ASSUME Init PROVE Holdings
  OBVIOUS
<1>1. Pools
  BY NothingIsRight, AdvisedAssumption, Sizes DEF Init, Pools, Places, ShrinkAsksForTheExcess
<1>2. Dealt /\ Backed
  BY Sizes DEF Init, Dealt, Backed, LedgerBalances
<1> QED BY <1>1, <1>2 DEF Holdings

LEMMA UseHoldings ==
    ASSUME Typed, Holdings, NEW c \in Caches, Use(c)
    PROVE  Holdings'
<1>1. PICK u \in 0..Most(pool[c], used[c]) :
          /\ used' = [used EXCEPT ![c] = u]
          /\ UNCHANGED <<pool, wallet, step, todo, deal, over, place, left, lent, asked>>
  BY DEF Use, shrinking
<1>2. Pools'
  <2>1. u \in 0..Memory
    BY Sizes DEF Holdings, Pools, Most
  <2> QED BY <1>1, <2>1 DEF Holdings, Pools, ShrinkAsksForTheExcess, Typed
<1>3. Dealt' /\ Backed'
  BY <1>1 DEF Holdings, Dealt, Backed, LedgerBalances, deal
<1> QED BY <1>2, <1>3 DEF Holdings

\* At the beginning all the memory is on the market.
LEMMA BeginHoldings ==
    ASSUME Typed, Holdings, Begin
    PROVE  Holdings'
<1>1. Pools'
  BY DEF Begin, Holdings, Pools, ShrinkAsksForTheExcess, shrinking
<1>2. Dealt'
  BY Sizes DEF Begin, Dealt
<1>3. Backed'
  <2>1. Total(allocated') = 0
    BY CachesAssumption, TotalOfNothing DEF Begin
  <2> QED BY <2>1, Sizes DEF Begin, Backed, LedgerBalances
<1> QED BY <1>1, <1>2, <1>3 DEF Holdings

\* A cache gets its usage, or what it requested: that much is left.
LEMMA SellHoldings ==
    ASSUME Typed, Typed', Holdings, NEW c \in Caches, Sell(c)
    PROVE  Holdings'
<1> DEFINE usage == Target(c)
           v == IF usage > Requested[c] THEN Requested[c] ELSE usage
           w == IF usage > Requested[c] THEN usage - Requested[c] ELSE wanted[c]
<1>1. usage \in Int /\ SlabSize <= usage /\ usage <= Memory + SlabSize
  BY TargetRange, Sizes DEF Holdings
<1>2. /\ step = "sell" /\ c \in todo
      /\ allocated' = [allocated EXCEPT ![c] = v]
      /\ wanted' = [wanted EXCEPT ![c] = w]
      /\ buyers' = IF usage > Requested[c] THEN buyers \cup {c} ELSE buyers
      /\ market' = Size(market - allocated'[c])
      /\ todo' = todo \ {c}
      /\ UNCHANGED <<pool, used, step, over, place, left, lent, asked>>
  BY <1>1, Sizes DEF Sell, caches, shrinking, Typed
<1> HIDE DEF usage
<1>3. /\ v \in Nat /\ SlabSize <= v /\ v <= Requested[c]
      /\ usage > Requested[c] => v = Requested[c]
      /\ w \in Int /\ w <= Memory + SlabSize
      /\ ~(usage > Requested[c]) => w = wanted[c]
  BY <1>1, Sizes DEF Typed, Holdings, Backed
<1> HIDE DEF v, w
<1>4. Pools'
  BY <1>2 DEF Holdings, Pools, ShrinkAsksForTheExcess
<1>5. Dealt'
  <2>1. \A d \in Caches \ {c} : allocated'[d] = allocated[d] /\ wanted'[d] = wanted[d]
    BY <1>2 DEF Typed
  <2>2. allocated'[c] = v /\ wanted'[c] = w
    BY <1>2 DEF Typed
  <2> QED BY <1>2, <1>3, <2>1, <2>2 DEF Holdings, Dealt, Typed
<1>6. Backed'
  <2>1. v <= market /\ market <= Memory /\ market \in Nat
    <3>1. Requested[c] <= market
      BY <1>2, EnoughIsLeft DEF Holdings, Backed
    <3> QED BY <1>3, <3>1, Sizes DEF Holdings, Backed, Typed
  <2>2. market' = market - v
    <3>1. market - v \in 0..(SizeModulus - 1)
      BY <1>3, <2>1, Sizes, WidthAssumption
    <3>2. allocated'[c] = v
      BY <1>2 DEF Typed
    <3> QED BY <1>2, <3>1, <3>2, SizeInRange
  <2>3. Total(allocated') = Total(allocated) + v
    <3>1. allocated[c] = 0
      BY <1>2 DEF Holdings, Dealt
    <3>2. Total(allocated') = Total(allocated) - allocated[c] + v
      <4>1. allocated \in [Caches -> Int] /\ v \in Int
        BY <1>3 DEF Typed
      <4>2. Total([allocated EXCEPT ![c] = v]) = Total(allocated) - allocated[c] + v
        BY <4>1, CachesAssumption, TotalChanges, Zenon
      <4> QED BY <1>2, <4>2
    <3>3. Total(allocated) \in Nat
      BY TotalOfNaturals DEF Typed
    <3> QED BY <1>3, <3>1, <3>2, <3>3
  <2>4. market' + Total(allocated') = Memory
    <3>1. market + Total(allocated) = Memory
      BY <1>2 DEF Holdings, Backed, LedgerBalances
    <3>2. Total(allocated) \in Nat
      BY TotalOfNaturals DEF Typed
    <3> QED BY <1>3, <2>1, <2>2, <2>3, <3>1, <3>2, Sizes
  <2>5. market' <= Memory /\ \A d \in Caches : allocated'[d] <= Memory
    BY <2>4, BalanceBounds DEF Typed
  <2>6. \A d \in Caches : wanted'[d] <= Memory + SlabSize
    BY <1>2, <1>3 DEF Holdings, Backed, Typed
  <2> QED BY <1>2, <2>4, <2>5, <2>6 DEF Backed, LedgerBalances
<1> QED BY <1>4, <1>5, <1>6 DEF Holdings

LEMMA SoldAllHoldings ==
    ASSUME Typed, Holdings, SoldAll
    PROVE  Holdings'
<1>1. Pools' /\ Backed'
  BY DEF SoldAll, Holdings, Pools, Backed, LedgerBalances, ShrinkAsksForTheExcess, caches, deal, shrinking
<1>2. Dealt'
  BY Sizes DEF SoldAll, Holdings, Dealt, Typed, caches, deal
<1> QED BY <1>1, <1>2 DEF Holdings

LEMMA RoundHoldings ==
    ASSUME Typed, Holdings, Round
    PROVE  Holdings'
<1>1. Pools' /\ Backed'
  BY DEF Round, Holdings, Pools, Backed, LedgerBalances, ShrinkAsksForTheExcess, caches, deal, shrinking
<1>2. Dealt'
  BY DEF Round, Holdings, Dealt, caches, deal
<1> QED BY <1>1, <1>2 DEF Holdings

\* What is bought leaves the market.
LEMMA BuyHoldings ==
    ASSUME Typed, Typed', Holdings, NEW c \in Caches, Buy(c)
    PROVE  Holdings'
<1> DEFINE b == Bought(c)
<1>1. /\ b \in Nat /\ b <= wanted[c] /\ b <= market
  BY PurchaseIsCovered
<1>2. /\ step = "buy" /\ c \in todo
      /\ wanted' = [wanted EXCEPT ![c] = Size(wanted[c] - b)]
      /\ allocated' = [allocated EXCEPT ![c] = allocated[c] + b]
      /\ market' = Size(market - b)
      /\ buyers' \subseteq buyers
      /\ \/ buyers' = buyers
         \/ buyers' = buyers \ {c}
      /\ todo' = todo \ {c}
      /\ UNCHANGED <<pool, used, step, over, place, left, lent, asked>>
  BY DEF Buy, caches, shrinking
<1> HIDE DEF b
<1>3. Pools'
  BY <1>2 DEF Holdings, Pools, ShrinkAsksForTheExcess
<1>4. allocated'[c] = allocated[c] + b /\ \A d \in Caches \ {c} : allocated'[d] = allocated[d]
  BY <1>2 DEF Typed
<1>5. Dealt'
  BY <1>1, <1>2, <1>4, Sizes DEF Holdings, Dealt, Typed
<1>6. Backed'
  <2>1. market \in Nat /\ market <= Memory /\ market + Total(allocated) = Memory
    BY <1>2 DEF Holdings, Backed, LedgerBalances, Typed
  <2>2. market' = market - b
    <3>1. market - b \in 0..(SizeModulus - 1)
      BY <1>1, <2>1, Sizes, WidthAssumption
    <3> QED BY <1>2, <3>1, SizeInRange
  <2>3. Total(allocated') = Total(allocated) - allocated[c] + (allocated[c] + b)
    <3>1. allocated \in [Caches -> Int] /\ allocated[c] + b \in Int
      BY <1>1 DEF Typed
    <3>2. Total([allocated EXCEPT ![c] = allocated[c] + b])
             = Total(allocated) - allocated[c] + (allocated[c] + b)
      BY <3>1, CachesAssumption, TotalChanges, Zenon
    <3> QED BY <1>2, <3>2
  <2>4. market' + Total(allocated') = Memory
    <3>1. Total(allocated) \in Nat /\ allocated[c] \in Nat
      BY TotalOfNaturals DEF Typed
    <3> QED BY <1>1, <2>1, <2>2, <2>3, <3>1, Sizes
  <2>5. market' <= Memory /\ \A d \in Caches : allocated'[d] <= Memory
    BY <2>4, BalanceBounds DEF Typed
  <2>6. \A d \in Caches : wanted'[d] <= Memory + SlabSize
    <3>1. wanted[c] - b \in Nat /\ wanted[c] \in Nat /\ wanted[c] - b <= wanted[c]
      BY <1>1 DEF Typed
    <3>2. Size(wanted[c] - b) \in Nat /\ Size(wanted[c] - b) <= wanted[c] - b
      BY <3>1, SizeIsLess
    <3> QED BY <1>1, <1>2, <3>1, <3>2, Sizes DEF Holdings, Backed, Typed
  <2> QED BY <1>2, <2>4, <2>5, <2>6 DEF Backed, LedgerBalances
<1> QED BY <1>3, <1>5, <1>6 DEF Holdings

LEMMA BoughtAllHoldings ==
    ASSUME Typed, Holdings, BoughtAll
    PROVE  Holdings'
<1>1. Pools'
  BY DEF BoughtAll, Holdings, Pools, ShrinkAsksForTheExcess, caches, shrinking
<1>2. Dealt' /\ Backed'
  BY DEF BoughtAll, RoundsEnd, Holdings, Dealt, Backed, LedgerBalances, caches, deal
<1> QED BY <1>1, <1>2 DEF Holdings

\* The new size of a pool is whole slabs of what its cache has got.
LEMMA ResizeHoldings ==
    ASSUME Typed, Holdings, NEW c \in Caches, Resize(c)
    PROVE  Holdings'
<1> DEFINE newsize == getLowerResizeTarget(allocated[c])
<1>1. /\ newsize \in Int /\ SlabSize <= newsize /\ newsize <= allocated[c]
      /\ allocated[c] \in Nat /\ allocated[c] <= Memory
  <2>1. SlabSize <= allocated[c] /\ allocated[c] \in Nat /\ allocated[c] <= Memory
    BY DEF Resize, Holdings, Dealt, Backed, Typed
  <2> QED BY <2>1, LowerTarget, Sizes
<1>2. /\ step = "resize" /\ c \in todo
      /\ \/ pool' = [pool EXCEPT ![c] = newsize]
         \/ pool' = pool /\ pool[c] <= newsize
      /\ over' \subseteq Caches
      /\ todo' = todo \ {c}
      /\ UNCHANGED <<used, wallet, step, deal, place, left, lent, asked>>
  BY DEF Resize, Holdings, Pools
<1> HIDE DEF newsize
<1>3. /\ pool'[c] \in Int /\ SlabSize <= pool'[c] /\ pool'[c] <= newsize
      /\ \A d \in Caches \ {c} : pool'[d] = pool[d]
  BY <1>1, <1>2, Sizes DEF Holdings, Pools, Typed
<1>4. Pools'
  <2>1. \A d \in Caches : pool'[d] \in SlabSize..Memory
    BY <1>1, <1>3, Sizes DEF Holdings, Pools
  <2> QED BY <1>2, <2>1 DEF Holdings, Pools, ShrinkAsksForTheExcess
<1>5. Dealt'
  BY <1>2 DEF Holdings, Dealt, deal
<1>6. Backed'
  <2>1. \A d \in Caches \ todo' : pool'[d] <= allocated[d]
    BY <1>1, <1>2, <1>3 DEF Holdings, Backed
  <2> QED BY <1>2, <2>1 DEF Holdings, Backed, LedgerBalances, deal
<1> QED BY <1>4, <1>5, <1>6 DEF Holdings

\* The slabs asked for are those of the excess.
LEMMA AskIsRight ==
    ASSUME Typed, Pools, NEW c \in Caches, Ask(c)
    PROVE  ShrinkAsksForTheExcess' /\ asked' \in [excess : Int, slabs : Int]
<1>1. asked' = [excess |-> used[c] - pool[c], slabs |-> SlabsToAdvise(c, pool[c])]
  BY DEF Ask
<1>2. /\ used[c] \in Int /\ pool[c] \in Int
      /\ used[c] - pool[c] \in (-Memory)..Memory
  BY Sizes DEF Pools
<1>3. SlabsToAdvise(c, pool[c]) = (used[c] - pool[c]) \div SlabSize + 1
  BY <1>2, SlabsOfExcess
<1>4. (used[c] - pool[c]) \div SlabSize \in Int
  BY <1>2, Sizes, Division
<1> QED BY <1>1, <1>2, <1>3, <1>4 DEF ShrinkAsksForTheExcess

LEMMA ShrinkHoldings ==
    ASSUME Typed, Holdings, NEW c \in Caches, Shrink(c)
    PROVE  Holdings'
<1>1. used' = used \/ \E u \in 0..used[c] : used' = [used EXCEPT ![c] = u]
  BY ShrinkFrame
<1>2. UNCHANGED <<pool, wallet, step, todo, deal, lent>>
  BY ShrinkFrame
<1>3. Pools'
  <2>1. \A d \in Caches : pool'[d] \in SlabSize..Memory /\ used'[d] \in 0..Memory
    <3>1. CASE used' = used
      BY <1>2, <3>1 DEF Holdings, Pools
    <3>2. ASSUME NEW u \in 0..used[c], used' = [used EXCEPT ![c] = u]
          PROVE  \A d \in Caches : pool'[d] \in SlabSize..Memory /\ used'[d] \in 0..Memory
      <4>1. u \in 0..Memory
        BY Sizes DEF Holdings, Pools
      <4> QED BY <1>2, <3>2, <4>1 DEF Holdings, Pools, Typed
    <3> QED BY <1>1, <3>1, <3>2
  <2>2. ShrinkAsksForTheExcess' /\ asked' \in [excess : Int, slabs : Int]
    <3>1. CASE Ask(c)
      BY <3>1, AskIsRight DEF Holdings
    <3>2. CASE asked' = asked
      BY <3>2 DEF Holdings, Pools, ShrinkAsksForTheExcess
    <3>3. CASE asked' = NothingAsked
      BY <3>3, NothingIsRight DEF ShrinkAsksForTheExcess
    <3> QED
      BY <3>1, <3>2, <3>3
      DEF Shrink, PickVictim, Advised, NoVictim, Release, Abort, FailRelease, ShrinkReturns
  <2>3. /\ over' \subseteq Caches /\ place' \in Places /\ left' \in 0..MaxAdvised
        /\ place' = "release" => left' > 0
    BY AdvisedAssumption
    DEF Holdings, Pools, Places, Shrink, Ask, PickVictim, Advised, NoVictim, Release, Abort,
        FailRelease, ShrinkReturns
  <2> QED BY <2>1, <2>2, <2>3 DEF Pools
<1>4. Dealt' /\ Backed'
  BY <1>2 DEF Holdings, Dealt, Backed, LedgerBalances, deal
<1> QED BY <1>3, <1>4 DEF Holdings

LEMMA EndHoldings ==
    ASSUME Typed, Holdings, End
    PROVE  Holdings'
<1>1. Pools'
  BY DEF End, Holdings, Pools, ShrinkAsksForTheExcess, caches, shrinking
<1>2. Dealt' /\ Backed'
  BY DEF End, Holdings, Dealt, Backed, LedgerBalances, caches, deal
<1> QED BY <1>1, <1>2 DEF Holdings

\* What the caches hold is backed by the memory in every state.
THEOREM HoldingsAreBacked == Spec => []Holdings
<1>1. Typed /\ Typed' /\ Holdings /\ [Next]_vars => Holdings'
  <2> SUFFICES ASSUME Typed, Typed', Holdings, [Next]_vars
               PROVE  Holdings'
    OBVIOUS
  <2>1. CASE UNCHANGED vars
    BY <2>1 DEF vars, Holdings, Pools, Dealt, Backed, LedgerBalances, ShrinkAsksForTheExcess
  <2>2. CASE Next
    BY <2>2, UseHoldings, BeginHoldings, SellHoldings, SoldAllHoldings, RoundHoldings,
       BuyHoldings, BoughtAllHoldings, ResizeHoldings, ShrinkHoldings, EndHoldings
    DEF Next, Work
  <2> QED BY <2>1, <2>2
<1>2. Spec => []Typed
  <2>1. Books => Typed
    BY DEF Books
  <2> QED BY BooksAreKept, <2>1, PTL
<1> QED BY InitHoldings, <1>1, <1>2, PTL DEF Spec

\* Nothing wraps below zero or grows beyond the memory there is and the money
\* paid, whatever the caches do between two steps of the market (market.cc).
THEOREM MarketTypeCorrect == Spec => []TypeOK
<1>1. Books /\ Holdings => TypeOK
  <2> SUFFICES ASSUME Books, Holdings PROVE TypeOK
    OBVIOUS
  <2>1. /\ pool \in [Caches -> 0..Memory] /\ used \in [Caches -> 0..Memory]
        /\ market \in 0..Memory
    BY Sizes DEF Books, Typed, Holdings, Pools, Backed
  <2>2. allocated \in [Caches -> 0..Memory] /\ wanted \in [Caches -> 0..(Memory + SlabSize)]
    BY Sizes DEF Books, Typed, Holdings, Backed
  <2>3. wallet \in [Caches -> 0..MaxWallet]
    BY WalletAssumption DEF Books, Typed, Roomy
  <2> QED BY <2>1, <2>2, <2>3 DEF Books, Typed, Holdings, Pools, TypeOK
<1> QED BY BooksAreKept, HoldingsAreBacked, <1>1, PTL

\* What is allocated and what is on the market make up the memory, for any
\* caches, requests and triggers (market.cc sellBaseMemory, buyExtraMemory).
THEOREM LedgerIsBalanced == Spec => []LedgerBalances
<1>1. Holdings => LedgerBalances
  BY DEF Holdings, Backed
<1> QED BY HoldingsAreBacked, <1>1, PTL

\* The number of slabs shrink advises is right also when the usage has fallen
\* in the meantime and the difference of the sizes wraps (cachecache.cc shrink).
THEOREM ShrinkAsksRight == Spec => []ShrinkAsksForTheExcess
<1>1. Holdings => ShrinkAsksForTheExcess
  BY DEF Holdings, Pools
<1> QED BY HoldingsAreBacked, <1>1, PTL

\* The pools of all caches fit in the memory when a pass ends, whichever of them
\* refused to grow (market.cc work, cachecache.cc resize).
THEOREM PoolsFit == Spec => PassFitsMemory
<1>1. ASSUME Typed, Holdings, Next, step = "resize", step' = "idle"
      PROVE  Total(pool) <= Memory
  <2>1. End
    BY <1>1, ShrinkFrame DEF Next, Work, Use, Begin, Sell, Buy, Resize, SoldAll, Round, BoughtAll, caches
  <2>2. \A c \in Caches : pool[c] <= allocated[c]
    BY <1>1, <2>1 DEF End, Holdings, Backed
  <2>3. pool \in [Caches -> Int] /\ allocated \in [Caches -> Int]
    BY <1>1 DEF Typed
  <2>4. Total(pool) <= Total(allocated)
    BY <2>2, <2>3, CachesAssumption, TotalAscends
  <2>5. market + Total(allocated) = Memory /\ market \in Nat
    BY <1>1 DEF Holdings, Backed, LedgerBalances, Typed
  <2>6. Total(pool) \in Int /\ Total(allocated) \in Int
    BY <2>3, CachesAssumption, TotalIsInt
  <2> QED BY <2>4, <2>5, <2>6, Sizes
<1>2. Typed /\ Holdings /\ [Next]_vars
      => [step = "resize" /\ step' = "idle" => Total(pool) <= Memory]_vars
  BY <1>1
<1>3. Spec => []Typed
  <2>1. Books => Typed
    BY DEF Books
  <2> QED BY BooksAreKept, <2>1, PTL
<1> QED BY HoldingsAreBacked, <1>2, <1>3, PTL DEF Spec, PassFitsMemory

---------------------------------------------------------------------------
(* The rounds *)

\* A cache that wants more and can pay for it.
Rich(c) == wanted[c] > 0 /\ wallet[c] > 0

\* A rich cache is only out of the rounds when there is nothing to buy.
Turns ==
    /\ step \in {"buy", "resize"} => \A c \in Caches \ buyers : Rich(c) => market = 0
    /\ step = "resize" => market = 0 \/ buyers = {}

\* How far d may be ahead of the rich cache c in the course of a round: one
\* window if it had its turn before, minus one if it has not.
Lead(c, d) == IF c \in todo THEN (IF d \in todo THEN 0 ELSE WindowSize)
              ELSE (IF d \in todo THEN -WindowSize ELSE 0)

Windows ==
    /\ step = "buy" /\ market > 0 =>
          \A c, d \in Caches : Rich(c) => Extra(d) <= Extra(c) + Lead(c, d)
    /\ step \in {"buy", "resize"} =>
          \A c, d \in Caches : Rich(c) => Extra(d) <= Extra(c) + WindowSize

Rounds == Turns /\ Windows

LEMMA InitRounds == Init => Rounds
  BY DEF Init, Rounds, Turns, Windows

\* What a purchase changes.
LEMMA Purchase ==
    ASSUME Books, Holdings, NEW c \in Caches, Buy(c)
    PROVE  /\ step = "buy" /\ step' = "buy" /\ c \in todo /\ c \in buyers
           /\ todo' = todo \ {c}
           /\ buyers' = IF Bought(c) = 0 THEN buyers \ {c} ELSE buyers
           /\ wallet'[c] = wallet[c] - Bought(c)
           /\ wanted'[c] <= wanted[c] - Bought(c)
           /\ market' = market - Bought(c)
           /\ Extra(c)' = Extra(c) + Bought(c)
           /\ \A d \in Caches \ {c} : Extra(d)' = Extra(d) /\ (Rich(d)' <=> Rich(d))
           /\ Bought(c) \in Nat /\ Bought(c) <= market /\ Bought(c) <= WindowSize
           /\ Rich(c) /\ Bought(c) < market /\ Bought(c) < wallet[c] /\ Bought(c) < wanted[c]
              => Bought(c) = WindowSize
           /\ Rich(c) /\ Bought(c) = 0 => market = 0
<1> DEFINE b == Bought(c)
<1>1. /\ b \in Nat /\ b <= wallet[c] /\ b <= wanted[c] /\ b <= market
  BY PurchaseIsCovered DEF Books
<1>2. /\ market \in Nat /\ wallet[c] \in Nat /\ wanted[c] \in Nat
      /\ allocated[c] \in Nat /\ Requested[c] \in Nat /\ WindowSize \in Nat \ {0}
  BY Sizes, MemoryAssumption DEF Books, Typed
<1>3. /\ b <= WindowSize
      /\ Rich(c) /\ b < market /\ b < wallet[c] /\ b < wanted[c] => b = WindowSize
      /\ Rich(c) /\ b = 0 => market = 0
  BY <1>2 DEF Bought, Least, Rich
<1>4. /\ step = "buy" /\ c \in todo
      /\ wallet' = [wallet EXCEPT ![c] = Size(wallet[c] - b)]
      /\ wanted' = [wanted EXCEPT ![c] = Size(wanted[c] - b)]
      /\ allocated' = [allocated EXCEPT ![c] = allocated[c] + b]
      /\ market' = Size(market - b)
      /\ buyers' = IF b = 0 THEN buyers \ {c} ELSE buyers
      /\ todo' = todo \ {c}
      /\ step' = step
  BY DEF Buy, caches
<1> HIDE DEF b
<1>5. c \in buyers /\ allocated[c] >= Requested[c]
  BY <1>4 DEF Holdings, Dealt
<1>6. market' = market - b
  <2>1. market <= Memory
    BY DEF Holdings, Backed
  <2>2. market - b \in 0..(SizeModulus - 1)
    BY <1>1, <1>2, <2>1, Sizes, WidthAssumption
  <2> QED BY <1>4, <2>2, SizeInRange
<1>7. wallet'[c] = wallet[c] - b
  <2>1. wallet[c] <= MaxWallet
    BY DEF Books, Roomy
  <2>2. wallet[c] - b \in 0..(SizeModulus - 1)
    BY <1>1, <1>2, <2>1, WalletAssumption, WidthAssumption
  <2>3. wallet'[c] = Size(wallet[c] - b)
    BY <1>4 DEF Books, Typed
  <2> QED BY <2>2, <2>3, SizeInRange
<1>8. wanted'[c] <= wanted[c] - b
  <2>1. wanted[c] - b \in Nat
    BY <1>1, <1>2
  <2>2. wanted'[c] = Size(wanted[c] - b)
    BY <1>4 DEF Books, Typed
  <2> QED BY <2>1, <2>2, SizeIsLess
<1>9. Extra(c)' = Extra(c) + b
  <2>1. allocated'[c] = allocated[c] + b
    BY <1>4 DEF Books, Typed
  <2> QED BY <1>1, <1>2, <1>5, <2>1 DEF Extra, Most
<1>10. \A d \in Caches \ {c} : Extra(d)' = Extra(d) /\ (Rich(d)' <=> Rich(d))
  <2>1. \A d \in Caches \ {c} : /\ allocated'[d] = allocated[d]
                                /\ wallet'[d] = wallet[d]
                                /\ wanted'[d] = wanted[d]
    BY <1>4 DEF Books, Typed
  <2> QED BY <2>1 DEF Extra, Rich
<1> QED BY <1>1, <1>3, <1>4, <1>5, <1>6, <1>7, <1>8, <1>9, <1>10 DEF b

\* Extras are amounts.
LEMMA ExtraIsNat ==
    ASSUME Books, NEW c \in Caches
    PROVE  /\ Extra(c) \in Nat
           /\ wanted[c] \in Nat /\ wallet[c] \in Nat
           /\ market \in Nat
           /\ WindowSize \in Nat \ {0}
  BY Sizes, MemoryAssumption DEF Books, Typed, Extra, Most

\* A buyer leaves the rounds when it cannot buy, and is rich then only if
\* nothing is left; nobody gets rich by buying.
LEMMA BuyRounds ==
    ASSUME Books, Books', Holdings, Rounds, NEW c \in Caches, Buy(c)
    PROVE  Rounds'
<1> DEFINE b == Bought(c)
<1>1. /\ step = "buy" /\ step' = "buy" /\ c \in todo /\ c \in buyers
      /\ todo' = todo \ {c}
      /\ buyers' = IF b = 0 THEN buyers \ {c} ELSE buyers
      /\ wallet'[c] = wallet[c] - b
      /\ wanted'[c] <= wanted[c] - b
      /\ market' = market - b
      /\ Extra(c)' = Extra(c) + b
      /\ \A d \in Caches \ {c} : Extra(d)' = Extra(d) /\ (Rich(d)' <=> Rich(d))
      /\ b \in Nat /\ b <= market /\ b <= WindowSize
      /\ Rich(c) /\ b < market /\ b < wallet[c] /\ b < wanted[c] => b = WindowSize
      /\ Rich(c) /\ b = 0 => market = 0
  BY Purchase
<1> HIDE DEF b
<1>2. /\ market \in Nat /\ WindowSize \in Nat \ {0}
      /\ \A d \in Caches : Extra(d) \in Nat /\ wanted[d] \in Nat /\ wallet[d] \in Nat
  BY ExtraIsNat
<1>3. wanted'[c] \in Nat /\ wallet'[c] \in Nat
  BY DEF Books, Typed
<1>4. Rich(c)' => Rich(c) /\ b < wallet[c] /\ b < wanted[c]
  BY <1>1, <1>2, <1>3 DEF Rich
<1>5. Turns'
  <2>1. ASSUME NEW d \in Caches \ buyers', Rich(d)'
        PROVE  market' = 0
    <3>1. CASE d = c
      <4>1. b = 0 /\ market = 0
        BY <1>1, <1>4, <2>1, <3>1
      <4> QED BY <1>1, <4>1
    <3>2. CASE d # c
      <4>1. d \notin buyers /\ Rich(d)
        BY <1>1, <2>1, <3>2
      <4>2. market = 0
        BY <1>1, <4>1 DEF Rounds, Turns
      <4> QED BY <1>1, <1>2, <4>2
    <3> QED BY <3>1, <3>2
  <2> QED BY <1>1, <2>1 DEF Turns
<1>6. ASSUME NEW d \in Caches, NEW e \in Caches, Rich(d)'
      PROVE  /\ market' > 0 => Extra(e)' <= Extra(d)' + Lead(d, e)'
             /\ Extra(e)' <= Extra(d)' + WindowSize
  <2>1. Rich(d)
    BY <1>1, <1>4, <1>6
  <2>2. /\ market > 0 => Extra(e) <= Extra(d) + Lead(d, e)
        /\ Extra(e) <= Extra(d) + WindowSize
    BY <1>1, <2>1 DEF Rounds, Windows
  <2>3. Lead(d, e)' = IF d \in todo \ {c} THEN (IF e \in todo \ {c} THEN 0 ELSE WindowSize)
                      ELSE (IF e \in todo \ {c} THEN -WindowSize ELSE 0)
    BY <1>1 DEF Lead
  <2>4. Lead(d, e) = IF d \in todo THEN (IF e \in todo THEN 0 ELSE WindowSize)
                     ELSE (IF e \in todo THEN -WindowSize ELSE 0)
    BY DEF Lead
  <2>5. CASE market = 0
    <3>1. b = 0
      BY <1>1, <2>5
    <3>2. Extra(e)' = Extra(e) /\ Extra(d)' = Extra(d) /\ market' = 0
      BY <1>1, <1>2, <2>5, <3>1
    <3> QED BY <2>2, <3>2
  <2>6. CASE market > 0 /\ e = c /\ d # c
    <3>1. Extra(e)' = Extra(c) + b /\ Extra(d)' = Extra(d)
      BY <1>1, <2>6
    <3> QED BY <1>1, <1>2, <2>2, <2>3, <2>4, <2>6, <3>1
  <2>7. CASE market > 0 /\ d = c /\ e # c
    <3>1. Extra(e)' = Extra(e) /\ Extra(d)' = Extra(c) + b
      BY <1>1, <2>7
    <3>2. market' > 0 => b = WindowSize
      BY <1>1, <1>2, <1>4, <1>6, <2>7
    <3> QED BY <1>1, <1>2, <2>2, <2>3, <2>4, <2>7, <3>1, <3>2
  <2>8. CASE market > 0 /\ d = c /\ e = c
    <3>1. Extra(c)' \in Nat
      BY <1>1, <1>2
    <3> QED BY <1>1, <1>2, <2>3, <2>8, <3>1
  <2>9. CASE market > 0 /\ d # c /\ e # c
    <3>1. Extra(e)' = Extra(e) /\ Extra(d)' = Extra(d) /\ Lead(d, e)' = Lead(d, e)
      BY <1>1, <2>3, <2>4, <2>9
    <3> QED BY <2>2, <2>9, <3>1
  <2> QED BY <1>2, <2>5, <2>6, <2>7, <2>8, <2>9
<1>7. Windows'
  BY <1>1, <1>6 DEF Windows
<1> QED BY <1>5, <1>7 DEF Rounds

\* Nobody has more than it requested when the rounds begin, and no buyer is
\* missing.
LEMMA SoldAllRounds ==
    ASSUME Books, Holdings, SoldAll
    PROVE  Rounds'
<1>1. /\ step = "sell" /\ todo = {} /\ todo' = {} /\ step' = "buy"
      /\ UNCHANGED <<wallet, market, allocated, wanted, buyers>>
  BY DEF SoldAll, deal, caches
<1>2. Turns'
  <2>1. \A c \in Caches \ buyers : wanted[c] = 0
    BY <1>1 DEF Holdings, Dealt
  <2> QED BY <1>1, <2>1 DEF Turns, Rich
<1>3. \A c \in Caches : Extra(c)' = 0
  <2>1. \A c \in Caches : allocated[c] <= Requested[c] /\ allocated[c] \in Nat /\ Requested[c] \in Nat
    BY <1>1, Sizes DEF Holdings, Dealt, Books, Typed
  <2> QED BY <1>1, <2>1 DEF Extra, Most
<1>4. Windows'
  <2>1. \A c, d \in Caches : Lead(c, d)' = 0
    BY <1>1 DEF Lead
  <2>2. 0 <= 0 + 0 /\ 0 <= 0 + WindowSize
    BY MemoryAssumption
  <2> QED BY <1>3, <2>1, <2>2 DEF Windows
<1> QED BY <1>2, <1>4 DEF Rounds

\* A round begins: everybody is level with everybody who can still buy.
LEMMA RoundRounds ==
    ASSUME Books, Rounds, Round
    PROVE  Rounds'
<1>1. /\ step = "buy" /\ todo = {} /\ market > 0 /\ todo' = buyers /\ step' = "buy"
      /\ UNCHANGED <<wallet, market, allocated, wanted, buyers>>
  BY DEF Round, deal, caches
<1>2. Turns'
  BY <1>1 DEF Rounds, Turns, Rich
<1>3. ASSUME NEW c \in Caches, NEW d \in Caches, Rich(c)'
      PROVE  /\ Extra(d)' <= Extra(c)' + Lead(c, d)'
             /\ Extra(d)' <= Extra(c)' + WindowSize
  <2>1. Rich(c) /\ Extra(d)' = Extra(d) /\ Extra(c)' = Extra(c)
    BY <1>1, <1>3 DEF Rich, Extra
  <2>2. c \in buyers
    <3>1. market # 0
      BY <1>1, ExtraIsNat
    <3> QED BY <1>1, <2>1, <3>1 DEF Rounds, Turns
  <2>3. Lead(c, d) = 0 /\ Lead(c, d)' \in {0, WindowSize}
    BY <1>1, <2>2 DEF Lead
  <2>4. Extra(d) <= Extra(c) + Lead(c, d)
    BY <1>1, <2>1 DEF Rounds, Windows
  <2> QED BY <2>1, <2>3, <2>4, ExtraIsNat
<1>4. Windows'
  BY <1>1, <1>3 DEF Windows
<1> QED BY <1>2, <1>4 DEF Rounds

LEMMA BoughtAllRounds ==
    ASSUME Books, Rounds, BoughtAll
    PROVE  Rounds'
<1>1. /\ step = "buy" /\ (market = 0 \/ buyers = {}) /\ step' = "resize"
      /\ UNCHANGED <<wallet, market, allocated, wanted, buyers>>
  BY DEF BoughtAll, RoundsEnd, deal
<1> QED BY <1>1 DEF Rounds, Turns, Windows, Rich, Extra

\* The other steps leave the deal alone, or are outside the rounds.
LEMMA OtherRounds ==
    ASSUME Rounds,
           \/ UNCHANGED vars
           \/ Begin \/ End
           \/ \E c \in Caches : Use(c) \/ Sell(c) \/ Resize(c) \/ Shrink(c)
    PROVE  Rounds'
<1>1. \/ step' \in {"idle", "sell"}
      \/ step' = step /\ (step = "buy" => todo' = todo) /\ UNCHANGED <<wallet, market, allocated, wanted, buyers>>
  <2>1. CASE UNCHANGED vars
    BY <2>1 DEF vars
  <2>2. CASE Begin \/ End
    BY <2>2 DEF Begin, End
  <2>3. ASSUME NEW c \in Caches, Sell(c)
        PROVE  step' = "sell"
    BY <2>3 DEF Sell
  <2>4. ASSUME NEW c \in Caches, Use(c) \/ Resize(c) \/ Shrink(c)
        PROVE  /\ step' = step /\ (step = "buy" => todo' = todo)
               /\ UNCHANGED <<wallet, market, allocated, wanted, buyers>>
    BY <2>4, ShrinkFrame DEF Use, Resize, deal
  <2> QED BY <2>1, <2>2, <2>3, <2>4
<1>2. CASE step' \in {"idle", "sell"}
  BY <1>2 DEF Rounds, Turns, Windows
<1>3. CASE step' = step /\ (step = "buy" => todo' = todo)
           /\ UNCHANGED <<wallet, market, allocated, wanted, buyers>>
  <2>1. Turns'
    BY <1>3 DEF Rounds, Turns, Rich
  <2>2. \A c, d \in Caches : /\ Extra(d)' = Extra(d)
                             /\ Rich(c)' <=> Rich(c)
                             /\ step = "buy" => Lead(c, d)' = Lead(c, d)
    BY <1>3 DEF Extra, Rich, Lead
  <2>3. Windows'
    BY <1>3, <2>2 DEF Rounds, Windows
  <2> QED BY <2>1, <2>3 DEF Rounds
<1> QED BY <1>1, <1>2, <1>3

\* The rounds are fair in every state.
THEOREM RoundsAreFair == Spec => []Rounds
<1>1. Books /\ Books' /\ Holdings /\ Rounds /\ [Next]_vars => Rounds'
  BY BuyRounds, SoldAllRounds, RoundRounds, BoughtAllRounds, OtherRounds DEF Next, Work
<1> QED BY InitRounds, BooksAreKept, HoldingsAreBacked, <1>1, PTL DEF Spec

\* A pass does not end the rounds while there is memory that a cache wants and
\* can pay for (market.cc buyExtraMemory).
THEOREM MemoryIsSold == Spec => []NoIdleMemory
<1>1. Rounds => NoIdleMemory
  BY DEF Rounds, Turns, Rich, NoIdleMemory
<1> QED BY RoundsAreFair, <1>1, PTL

\* Of the caches the memory ran out for, none is more than a window behind
\* another, in whatever order the hash map is walked (market.cc buyExtraMemory).
THEOREM SharesAreFair == Spec => []FairShare
<1>1. Rounds => FairShare
  BY DEF Rounds, Windows, Rich, FairShare
<1> QED BY RoundsAreFair, <1>1, PTL

---------------------------------------------------------------------------
(* The refinement of SharedMemory *)

\* Whoever wants more has what it requested, and wants no more than there is.
Wants ==
    step # "idle" => \A c \in Caches :
        wanted[c] <= Memory /\ (wanted[c] > 0 => allocated[c] >= Requested[c])

LEMMA SellWants ==
    ASSUME Typed, Holdings, Wants, NEW c \in Caches, Sell(c)
    PROVE  Wants'
<1> DEFINE usage == Target(c)
<1>1. usage \in Int /\ usage <= Memory + SlabSize
  BY TargetRange, Sizes DEF Holdings
<1>2. /\ step = "sell" /\ c \in todo
      /\ \/ /\ usage > Requested[c]
            /\ allocated' = [allocated EXCEPT ![c] = Requested[c]]
            /\ wanted' = [wanted EXCEPT ![c] = usage - Requested[c]]
         \/ /\ allocated' = [allocated EXCEPT ![c] = usage]
            /\ wanted' = wanted
  BY DEF Sell
<1> HIDE DEF usage
<1>3. wanted[c] = 0
  BY <1>2 DEF Holdings, Dealt
<1>4. wanted'[c] <= Memory /\ (wanted'[c] > 0 => allocated'[c] >= Requested[c])
  <2>1. CASE wanted' = wanted
    BY <1>3, <2>1, Sizes
  <2>2. CASE wanted'[c] = usage - Requested[c] /\ allocated'[c] = Requested[c]
    BY <1>1, <2>2, Sizes
  <2> QED BY <1>2, <2>1, <2>2 DEF Typed
<1>5. \A d \in Caches \ {c} : wanted'[d] = wanted[d] /\ allocated'[d] = allocated[d]
  BY <1>2 DEF Typed
<1> QED BY <1>2, <1>4, <1>5 DEF Wants

LEMMA BuyWants ==
    ASSUME Books, Holdings, Wants, Typed', NEW c \in Caches, Buy(c)
    PROVE  Wants'
<1>1. /\ step = "buy" /\ c \in buyers
      /\ wanted'[c] <= wanted[c] - Bought(c)
      /\ Bought(c) \in Nat
  BY Purchase
<1>2. \A d \in Caches \ {c} : wanted'[d] = wanted[d] /\ allocated'[d] = allocated[d]
  BY DEF Buy, Books, Typed
<1>3. allocated'[c] = allocated[c] + Bought(c)
  BY DEF Buy, Books, Typed
<1>4. allocated[c] >= Requested[c] /\ wanted[c] <= Memory
  BY <1>1 DEF Holdings, Dealt, Wants
<1>5. wanted'[c] <= Memory /\ allocated'[c] >= Requested[c]
  <2>1. wanted[c] \in Nat /\ wanted'[c] \in Nat /\ allocated[c] \in Nat /\ Requested[c] \in Nat
    BY Sizes DEF Books, Typed
  <2> QED BY <1>1, <1>3, <1>4, <2>1, Sizes
<1> QED BY <1>1, <1>2, <1>5 DEF Wants

LEMMA OtherWants ==
    ASSUME Typed, Wants,
           \/ UNCHANGED vars
           \/ Begin \/ SoldAll \/ Round \/ BoughtAll \/ End
           \/ \E c \in Caches : Use(c) \/ Resize(c) \/ Shrink(c)
    PROVE  Wants'
<1>1. CASE Begin
  BY <1>1, Sizes DEF Begin, Wants
<1>2. CASE SoldAll \/ Round \/ BoughtAll \/ End \/ UNCHANGED vars
  BY <1>2 DEF SoldAll, Round, BoughtAll, RoundsEnd, End, vars, deal, Wants
<1>3. ASSUME NEW c \in Caches, Use(c) \/ Resize(c) \/ Shrink(c)
      PROVE  Wants'
  BY <1>3, ShrinkFrame DEF Use, Resize, deal, Wants
<1> QED BY <1>1, <1>2, <1>3

THEOREM WantsAreKept == Spec => []Wants
<1>1. Init => Wants
  BY DEF Init, Wants
<1>2. Books /\ Books' /\ Holdings /\ Wants /\ [Next]_vars => Wants'
  BY SellWants, BuyWants, OtherWants DEF Next, Work, Books
<1> QED BY <1>1, <1>2, BooksAreKept, HoldingsAreBacked, PTL DEF Spec

\* The state of SharedMemory.
Credit == IF step \in {"sell", "buy"} THEN lent ELSE wallet
Share == IF step = "resize" THEN allocated ELSE [c \in Caches |-> 0]
Lacking == IF step = "resize" THEN wanted ELSE [c \in Caches |-> 0]

Promise == Books /\ Holdings /\ Rounds /\ Wants

\* Between two passes, and before the first sale, wallets and history agree.
LEMMA CreditIsKept ==
    ASSUME Books, Begin
    PROVE  Credit' = Credit
<1>1. \A c \in Caches : wallet[c] = lent[c]
  BY DEF Books, Booked, Dealing, Begin
<1>2. wallet = lent
  BY <1>1 DEF Books, Typed
<1> QED BY <1>2 DEF Credit, Begin

\* What the pass agrees on when the rounds are over.
LEMMA BoughtAllAgrees ==
    ASSUME Promise, Promise', BoughtAll
    PROVE  Shared!Agree
<1> DEFINE Nothing == [c \in Caches |-> 0]
<1>1. /\ step = "buy" /\ step' = "resize"
      /\ wallet' = wallet /\ allocated' = allocated /\ wanted' = wanted /\ market' = market
  BY DEF BoughtAll, RoundsEnd, deal
<1>2. Share = Nothing /\ Credit = lent
  BY <1>1 DEF Share, Credit
<1>3. Share' = allocated /\ Lacking' = wanted /\ Credit' = wallet
  BY <1>1 DEF Share, Lacking, Credit
<1>4. /\ allocated \in [Caches -> SlabSize..Memory]
      /\ wanted \in [Caches -> 0..Memory]
  <2>1. \A c \in Caches : /\ allocated[c] \in Nat /\ SlabSize <= allocated[c] /\ allocated[c] <= Memory
                          /\ wanted[c] \in Nat /\ wanted[c] <= Memory
    BY <1>1 DEF Promise, Books, Typed, Holdings, Dealt, Backed, Wants
  <2>2. allocated \in [Caches -> Nat] /\ wanted \in [Caches -> Nat]
    BY DEF Promise, Books, Typed
  <2> QED BY <2>1, <2>2, Sizes
<1>5. wallet = [c \in Caches |-> lent[c] + Requested[c] - allocated[c]]
  <2>1. \A c \in Caches : wallet[c] = lent[c] + Requested[c] - allocated[c]
    BY <1>1 DEF Promise, Books, Booked, Dealing
  <2> QED BY <2>1 DEF Promise, Books, Typed
<1>6. \A c \in Caches : wallet[c] >= 0
  BY DEF Promise, Books, Typed
<1>7. \A c \in Caches : wanted[c] > 0 => allocated[c] >= Requested[c]
  BY <1>1 DEF Promise, Wants
<1>8. Total(allocated) <= Memory /\ (market = 0 => Total(allocated) = Memory)
  <2>1. market + Total(allocated) = Memory /\ market \in Nat
    BY <1>1 DEF Promise, Holdings, Backed, LedgerBalances, Books, Typed
  <2>2. Total(allocated) \in Nat
    BY TotalOfNaturals DEF Promise, Books, Typed
  <2> QED BY <2>1, <2>2, Sizes
<1>9. ASSUME NEW c \in Caches, wanted[c] > 0, wallet[c] > 0
      PROVE  /\ Total(allocated) = Memory
             /\ \A d \in Caches : Extra(d) <= Extra(c) + WindowSize
  <2>1. Rich(c)' /\ Rich(c)
    BY <1>1, <1>9 DEF Rich
  <2>2. market = 0
    <3>1. market' = 0
      BY <1>1, <2>1 DEF Promise, Rounds, Turns
    <3> QED BY <1>1, <3>1
  <2>3. \A d \in Caches : Extra(d) <= Extra(c) + WindowSize
    BY <1>1, <2>1 DEF Promise, Rounds, Windows
  <2> QED BY <1>8, <2>2, <2>3
<1>10. \A c \in Caches : Shared!Extra(c)' = Extra(c)
  <2>1. \A c \in Caches : allocated[c] \in Nat /\ Requested[c] \in Nat
    BY Sizes DEF Promise, Books, Typed
  <2>2. \A c \in Caches : Extra(c) = IF allocated[c] > Requested[c] THEN allocated[c] - Requested[c] ELSE 0
    BY <2>1 DEF Extra, Most
  <2> QED BY <1>1, <2>2 DEF Shared!Extra
<1>11. \A c \in Caches : Shared!Refused(c)' <=> wanted[c] > 0 /\ wallet[c] > 0
  BY <1>1 DEF Shared!Refused
<1>12. /\ Shared!Fits' <=> Total(allocated) <= Memory
       /\ Shared!Full' <=> Total(allocated) = Memory
  BY <1>1 DEF Shared!Fits, Shared!Full, Total, FoldFunction, FoldFunctionOnSet, MapThenFoldSet,
     Shared!FoldFunction, Shared!FoldFunctionOnSet, Shared!MapThenFoldSet
<1>13. Shared!Nothing = Nothing
  BY DEF Shared!Nothing
<1> HIDE DEF Nothing
<1>14. /\ Share = Nothing
       /\ Share' \in [Caches -> SlabSize..Memory]
       /\ Lacking' \in [Caches -> 0..Memory]
       /\ Credit' = [c \in Caches |-> Credit[c] + Requested[c] - Share'[c]]
       /\ \A c \in Caches : Credit'[c] >= 0
       /\ \A c \in Caches : Lacking'[c] > 0 => Share'[c] >= Requested[c]
  BY <1>2, <1>3, <1>4, <1>5, <1>6, <1>7
<1>15. /\ Shared!Fits'
       /\ \A c \in Caches : Shared!Refused(c)' =>
             /\ Shared!Full'
             /\ \A d \in Caches : Shared!Extra(d)' <= Shared!Extra(c)' + WindowSize
  BY <1>8, <1>9, <1>10, <1>11, <1>12
<1> QED BY <1>13, <1>14, <1>15 DEF Shared!Agree, Share, Lacking, Credit

LEMMA EndCarries ==
    ASSUME Promise, End
    PROVE  Shared!Carried
  BY DEF End, deal, caches, Shared!Carried, Shared!Nothing

\* Everything else goes on within a pass.
LEMMA OtherStutters ==
    ASSUME Promise,
           \/ UNCHANGED vars
           \/ Begin \/ SoldAll \/ Round
           \/ \E c \in Caches : Use(c) \/ Sell(c) \/ Buy(c) \/ Resize(c) \/ Shrink(c)
    PROVE  UNCHANGED <<Credit, Share, Lacking>>
<1>1. CASE Begin
  <2>1. Credit' = Credit
    BY <1>1, CreditIsKept DEF Promise
  <2> QED BY <1>1, <2>1 DEF Begin, Share, Lacking
<1>2. CASE SoldAll \/ Round \/ UNCHANGED vars
  BY <1>2 DEF SoldAll, Round, vars, deal, Credit, Share, Lacking
<1>3. ASSUME NEW c \in Caches, Sell(c) \/ Buy(c)
      PROVE  UNCHANGED <<Credit, Share, Lacking>>
  BY <1>3 DEF Sell, Buy, Credit, Share, Lacking
<1>4. ASSUME NEW c \in Caches, Use(c) \/ Resize(c) \/ Shrink(c)
      PROVE  UNCHANGED <<Credit, Share, Lacking>>
  BY <1>4, ShrinkFrame DEF Use, Resize, deal, Credit, Share, Lacking
<1> QED BY <1>1, <1>2, <1>3, <1>4

LEMMA SharedSteps ==
    Promise /\ Promise' /\ [Next]_vars => [Shared!Next]_<<Credit, Share, Lacking>>
  BY BoughtAllAgrees, EndCarries, OtherStutters DEF Next, Work, Shared!Next

\* For any caches, sizes, triggers and changes of usage, the passes share the
\* memory as SharedMemory promises: nobody loses what it requested and needs,
\* nobody takes on more credit than it has, and nobody who has credit goes
\* without while there is memory or another is a window ahead of it (market.cc
\* work).
THEOREM MarketImplementsSharedMemory == Spec => ImplementsSharedMemory
<1>1. Init => Shared!Init
  BY DEF Init, Shared!Init, Shared!Nothing
<1>2. Promise /\ Promise' /\ [Next]_vars => [Shared!Next]_<<Credit, Share, Lacking>>
  BY SharedSteps
<1>3. Books /\ Holdings /\ Rounds /\ Wants => Promise
  BY DEF Promise
<1>4. QED
  BY <1>1, <1>2, <1>3, BooksAreKept, HoldingsAreBacked, RoundsAreFair, WantsAreKept, PTL
     DEF Spec, ImplementsSharedMemory, Shared!Spec, Credit, Share, Lacking

---------------------------------------------------------------------------
(* Each step of work brings the pass nearer to its end *)

\* Only a resize leaves a pool to be shrunk, and each shrink begins by asking.
Shrinking ==
    /\ over # {} => step = "resize"
    /\ over = {} => place = "ask"

LEMMA ShrinkingIsKept == Spec => []Shrinking
<1>1. Init => Shrinking
  BY DEF Init, Shrinking
<1>2. Shrinking /\ [Next]_vars => Shrinking'
  BY DEF Shrinking, Next, Work, vars, Use, Begin, Sell, SoldAll, Round, Buy, BoughtAll, RoundsEnd,
     Resize, Shrink, Ask, PickVictim, Advised, NoVictim, Release, Abort, FailRelease,
     ShrinkReturns, shrinking, End
<1> QED BY <1>1, <1>2, PTL DEF Spec

Count == Cardinality(Caches)

\* What the rounds have before them: each of them sells a unit of the market or
\* loses a buyer, and has a turn for each cache at most.
RoundsLeft ==
    (Count + 1) * (market + Cardinality(buyers))
    + Cardinality(todo) + (IF todo = {} THEN Count + 1 ELSE 0)

\* What a shrink has before it when releaseSlab does not fail: it picks a victim and
\* releases a slab of it for each slab to advise away.
ShrinkLeft ==
    CASE over = {} -> 0
      [] over # {} /\ place = "ask" -> 2 * MaxAdvised + 2
      [] over # {} /\ place = "pick" -> 2 * left + 1
      [] over # {} /\ place = "release" -> 2 * left

\* A pool is resized, and shrunk if need be.
PoolSteps == 2 * MaxAdvised + 3

\* The steps that work has before it at most, when releaseSlab does not fail.
StepsLeft ==
    CASE step = "idle" -> 0
      [] step = "resize" -> PoolSteps * Cardinality(todo) + ShrinkLeft + 1
      [] step = "buy" -> PoolSteps * Count + 2 + RoundsLeft
      [] step = "sell" -> PoolSteps * Count + Count + 4 + (Count + 1) * (Memory + Count)
                          + Cardinality(todo)

\* Every step that work makes takes it nearer to its end, but for a release that
\* fails: that takes it back by the one step that had picked the victim.  What the
\* generators do in the meantime changes nothing.
PassAdvances ==
    [][/\ StepsLeft \in Nat /\ (StepsLeft = 0 <=> step = "idle")
       /\ Work => \/ StepsLeft' < StepsLeft
                  \/ (\E c \in Caches : FailRelease(c)) /\ StepsLeft' = StepsLeft + 1
       /\ (\E c \in Caches : Use(c)) => StepsLeft' = StepsLeft]_vars

LEMMA ProductAscends ==
    ASSUME NEW a \in Nat, NEW x \in Nat, NEW y \in Nat, x < y
    PROVE  a * x + a <= a * y
<1>1. PICK d \in Nat : y = x + 1 + d
  <2>1. y - (x + 1) \in Nat /\ y = x + 1 + (y - (x + 1))
    OBVIOUS
  <2> QED BY <2>1
<1>2. a * y = a * x + a + a * d
  BY <1>1
<1>3. a * d \in Nat /\ a * x \in Nat
  BY ProductIsNat
<1> QED BY <1>2, <1>3

\* How many there are of what a pass goes through.
LEMMA Counts ==
    ASSUME Typed, Pools
    PROVE  /\ Count \in Nat
           /\ IsFiniteSet(todo) /\ IsFiniteSet(buyers)
           /\ Cardinality(todo) \in 0..Count /\ Cardinality(buyers) \in 0..Count
           /\ Cardinality({}) = 0
           /\ \A x : Cardinality({x}) = 1
           /\ market \in Nat /\ Memory \in Nat
           /\ (Count + 1) * (market + Cardinality(buyers)) \in Nat
           /\ (Count + 1) * (Memory + Count) \in Nat
<1>1. todo \in SUBSET Caches /\ buyers \in SUBSET Caches
  BY DEF Typed, Pools
<1>2. \A S \in SUBSET Caches : /\ IsFiniteSet(S)
                               /\ Cardinality(S) \in Nat /\ Cardinality(S) <= Count
  BY CachesAssumption, FS_Subset, FS_CardinalityType DEF Count
<1>3. Count \in Nat
  BY CachesAssumption, FS_CardinalityType DEF Count
<1>4. market \in Nat /\ Memory \in Nat
  BY Sizes DEF Typed
<1>5. /\ (Count + 1) * (market + Cardinality(buyers)) \in Nat
      /\ (Count + 1) * (Memory + Count) \in Nat
  BY <1>1, <1>2, <1>3, <1>4, ProductIsNat
<1>6. Cardinality({}) = 0 /\ \A x : Cardinality({x}) = 1
  BY FS_EmptySet, FS_Singleton
<1>7. /\ IsFiniteSet(todo) /\ IsFiniteSet(buyers)
      /\ Cardinality(todo) \in 0..Count /\ Cardinality(buyers) \in 0..Count
  BY <1>1, <1>2, <1>3
<1> QED BY <1>3, <1>4, <1>5, <1>6, <1>7

\* A loop has one turn less before it.
LEMMA TurnTaken ==
    ASSUME Typed, Pools, NEW c \in todo, todo' = todo \ {c}
    PROVE  Cardinality(todo)' = Cardinality(todo) - 1
  BY Counts, FS_RemoveElement

\* The steps of several pools.
LEMMA PoolStepsAdd ==
    /\ PoolSteps \in Nat /\ PoolSteps = 2 * MaxAdvised + 3 /\ MaxAdvised \in Nat
    /\ PoolSteps * 0 = 0
    /\ \A n \in Nat : PoolSteps * n \in Nat
    /\ \A n \in Nat \ {0} : PoolSteps * (n - 1) = PoolSteps * n - PoolSteps
<1>1. PoolSteps \in Nat /\ PoolSteps = 2 * MaxAdvised + 3
  BY AdvisedAssumption DEF PoolSteps
<1>2. \A n \in Nat : PoolSteps * n \in Nat
  BY <1>1, ProductIsNat
<1>3. \A n \in Nat \ {0} : PoolSteps * (n - 1) = PoolSteps * n - PoolSteps
  BY <1>1
<1> QED BY <1>1, <1>2, <1>3, AdvisedAssumption

LEMMA ShrinkLeftRange ==
    ASSUME Pools
    PROVE  /\ ShrinkLeft \in 0..(2 * MaxAdvised + 2)
           /\ over = {} => ShrinkLeft = 0
  BY AdvisedAssumption DEF ShrinkLeft, Pools, Places

LEMMA StepsLeftIsNat ==
    ASSUME Typed, Pools
    PROVE  StepsLeft \in Nat /\ (StepsLeft = 0 <=> step = "idle")
<1>1. RoundsLeft \in Nat
  BY Counts DEF RoundsLeft
<1>2. step \in Steps
  BY DEF Typed
<1>3. /\ PoolSteps * Count \in Nat /\ PoolSteps * Cardinality(todo) \in Nat
      /\ ShrinkLeft \in Nat
  BY Counts, PoolStepsAdd, ShrinkLeftRange
<1> QED BY <1>1, <1>2, <1>3, Counts DEF StepsLeft, Steps

LEMMA SellAdvances ==
    ASSUME Typed, Pools, NEW c \in Caches, Sell(c)
    PROVE  StepsLeft' < StepsLeft
<1>1. step = "sell" /\ step' = "sell" /\ c \in todo /\ todo' = todo \ {c}
  BY DEF Sell
<1>2. Cardinality(todo)' = Cardinality(todo) - 1
  BY <1>1, TurnTaken
<1> DEFINE k == PoolSteps * Count + Count + 4 + (Count + 1) * (Memory + Count)
<1>3. k \in Nat
  BY Counts, PoolStepsAdd
<1>4. StepsLeft = k + Cardinality(todo) /\ StepsLeft' = k + Cardinality(todo)'
  BY <1>1 DEF StepsLeft, PoolSteps, Count
<1> HIDE DEF k
<1> QED BY <1>2, <1>3, <1>4, Counts

\* There is no more to be sold in the rounds than the memory, and nobody to
\* leave them but the caches.
LEMMA SoldAllAdvances ==
    ASSUME Typed, Holdings, SoldAll
    PROVE  StepsLeft' < StepsLeft
<1>1. /\ step = "sell" /\ step' = "buy" /\ todo = {} /\ todo' = {}
      /\ market' = market /\ buyers' = buyers
  BY DEF SoldAll, deal
<1> DEFINE x == market + Cardinality(buyers)
           y == Memory + Count
<1>2. market <= Memory
  BY DEF Holdings, Backed
<1>3. x \in Nat /\ y \in Nat /\ x <= y /\ Count \in Nat /\ Cardinality({}) = 0
  BY <1>2, Counts DEF Holdings
<1> DEFINE k == PoolSteps * Count
<1>4. /\ StepsLeft = k + Count + 4 + (Count + 1) * y + Cardinality({})
      /\ StepsLeft' = k + 2 + ((Count + 1) * x + Cardinality({}) + (Count + 1))
  BY <1>1 DEF StepsLeft, RoundsLeft, Count, PoolSteps
<1>7. k \in Nat
  BY <1>3, PoolStepsAdd
<1> HIDE DEF x, y, k
<1>5. (Count + 1) * x <= (Count + 1) * y
  <2>1. CASE x = y
    <3>1. (Count + 1) * x \in Nat
      BY <1>3, ProductIsNat
    <3> QED BY <2>1, <3>1
  <2>2. CASE x < y
    <3>1. (Count + 1) * x + (Count + 1) <= (Count + 1) * y
      BY <1>3, <2>2, ProductAscends
    <3>2. (Count + 1) * x \in Nat /\ (Count + 1) * y \in Nat
      BY <1>3, ProductIsNat
    <3> QED BY <1>3, <3>1, <3>2
  <2> QED BY <1>3, <2>1, <2>2
<1>6. (Count + 1) * x \in Nat /\ (Count + 1) * y \in Nat
  BY <1>3, ProductIsNat
<1> QED BY <1>3, <1>4, <1>5, <1>6, <1>7

LEMMA RoundAdvances ==
    ASSUME Typed, Pools, Round
    PROVE  StepsLeft' < StepsLeft
<1>1. /\ step = "buy" /\ step' = "buy" /\ todo = {} /\ todo' = buyers /\ buyers # {}
      /\ market' = market /\ buyers' = buyers
  BY DEF Round, deal
<1> DEFINE p == (Count + 1) * (market + Cardinality(buyers))
           k == PoolSteps * Count
<1>2. /\ StepsLeft = k + 2 + (p + Cardinality({}) + (Count + 1))
      /\ StepsLeft' = k + 2 + (p + Cardinality(buyers) + 0)
  BY <1>1 DEF StepsLeft, RoundsLeft, Count, PoolSteps
<1>3. /\ p \in Nat /\ Count \in Nat /\ Cardinality({}) = 0 /\ Cardinality(buyers) \in 0..Count
      /\ k \in Nat
  BY Counts, PoolStepsAdd
<1> HIDE DEF p, k
<1> QED BY <1>2, <1>3

\* A turn sells something or loses a buyer.
LEMMA BuyAdvances ==
    ASSUME Books, Holdings, Typed', Pools', NEW c \in Caches, Buy(c)
    PROVE  StepsLeft' < StepsLeft
<1>1. /\ step = "buy" /\ step' = "buy" /\ c \in todo /\ c \in buyers
      /\ todo' = todo \ {c}
      /\ buyers' = IF Bought(c) = 0 THEN buyers \ {c} ELSE buyers
      /\ market' = market - Bought(c)
      /\ Bought(c) \in Nat
  BY Purchase
<1>2. Typed /\ Pools
  BY DEF Books, Holdings
<1> DEFINE x == market' + Cardinality(buyers)'
           y == market + Cardinality(buyers)
<1>3. x \in Nat /\ y \in Nat /\ x < y
  <2>1. x \in Nat /\ y \in Nat
    <3>1. market \in Nat /\ market' \in Nat
      BY <1>2 DEF Typed
    <3>2. Cardinality(buyers) \in Nat
      BY <1>2, Counts
    <3>3. Cardinality(buyers') \in Nat
      <4>1. buyers' \in SUBSET Caches
        BY DEF Typed
      <4> QED BY <4>1, CachesAssumption, FS_Subset, FS_CardinalityType
    <3> QED BY <3>1, <3>2, <3>3
  <2>2. CASE Bought(c) = 0
    <3>1. Cardinality(buyers') = Cardinality(buyers) - 1
      BY <1>1, <1>2, <2>2, Counts, FS_RemoveElement
    <3>2. market' = market /\ market \in Nat /\ Cardinality(buyers) \in Nat
      <4>1. market \in Nat /\ Cardinality(buyers) \in Nat
        BY <1>2, Counts
      <4> QED BY <1>1, <2>2, <4>1
    <3>3. market' + Cardinality(buyers') < market + Cardinality(buyers)
      BY <3>1, <3>2
    <3> QED BY <2>1, <3>3
  <2>3. CASE Bought(c) # 0
    <3>1. market \in Nat /\ Cardinality(buyers) \in Nat
      BY <1>2, Counts
    <3>2. buyers' = buyers
      BY <1>1, <2>3
    <3>3. market' < market /\ market' \in Int
      BY <1>1, <2>3, <3>1
    <3>4. market' + Cardinality(buyers) < market + Cardinality(buyers)
      BY <3>1, <3>3
    <3> QED BY <2>1, <3>2, <3>4
  <2> QED BY <2>1, <2>2, <2>3
<1>4. Cardinality(todo)' = Cardinality(todo) - 1
  BY <1>1, <1>2, TurnTaken
<1> DEFINE k == PoolSteps * Count
<1>5. /\ todo # {}
      /\ StepsLeft = k + 2 + ((Count + 1) * y + Cardinality(todo) + 0)
  BY <1>1 DEF StepsLeft, RoundsLeft
<1>6. StepsLeft' = k + 2 + ((Count + 1) * x + Cardinality(todo)'
                            + (IF todo' = {} THEN Count + 1 ELSE 0))
  BY <1>1 DEF StepsLeft, RoundsLeft, Count, PoolSteps
<1>7. Count \in Nat /\ Cardinality(todo) \in Nat /\ k \in Nat
  BY <1>2, Counts, PoolStepsAdd
<1> HIDE DEF x, y, k
<1>8. (Count + 1) * x + (Count + 1) <= (Count + 1) * y
  BY <1>3, <1>7, ProductAscends
<1>9. (Count + 1) * x \in Nat /\ (Count + 1) * y \in Nat
  BY <1>3, <1>7, ProductIsNat
<1> QED BY <1>4, <1>5, <1>6, <1>7, <1>8, <1>9

LEMMA BoughtAllAdvances ==
    ASSUME Typed, Pools, Pools', Shrinking, BoughtAll
    PROVE  StepsLeft' < StepsLeft
<1>1. step = "buy" /\ step' = "resize" /\ todo = {} /\ todo' = Caches /\ over = {} /\ over' = {}
  BY DEF BoughtAll, RoundsEnd, Shrinking, shrinking
<1> DEFINE p == (Count + 1) * (market + Cardinality(buyers))
           k == PoolSteps * Count
<1>2. StepsLeft = k + 2 + (p + Cardinality({}) + (Count + 1))
  BY <1>1 DEF StepsLeft, RoundsLeft
<1>3. StepsLeft' = k + 0 + 1
  BY <1>1 DEF StepsLeft, ShrinkLeft, Count, PoolSteps
<1>4. p \in Nat /\ Count \in Nat /\ Cardinality({}) = 0 /\ k \in Nat
  BY Counts, PoolStepsAdd
<1> HIDE DEF p, k
<1> QED BY <1>2, <1>3, <1>4

\* A pool to be shrunk has not more before it than the pool had before its resize.
LEMMA ResizeAdvances ==
    ASSUME Typed, Pools, Pools', NEW c \in Caches, Resize(c)
    PROVE  StepsLeft' < StepsLeft
<1>1. step = "resize" /\ step' = "resize" /\ c \in todo /\ todo' = todo \ {c} /\ over = {}
  BY DEF Resize
<1> DEFINE n == Cardinality(todo)
           s == ShrinkLeft'
<1>2. Cardinality(todo)' = n - 1 /\ n \in Nat \ {0}
  <2>1. Cardinality(todo)' = n - 1
    BY <1>1, TurnTaken
  <2>2. n \in Nat /\ n # 0
    BY <1>1, Counts, FS_EmptySet
  <2> QED BY <2>1, <2>2
<1>3. StepsLeft = PoolSteps * n + 0 + 1
  BY <1>1, ShrinkLeftRange DEF StepsLeft
<1>4. StepsLeft' = PoolSteps * (n - 1) + s + 1
  BY <1>1, <1>2 DEF StepsLeft, PoolSteps
<1>5. s \in 0..(2 * MaxAdvised + 2)
  BY AdvisedAssumption DEF ShrinkLeft, Pools, Places
<1>6. /\ PoolSteps * (n - 1) = PoolSteps * n - PoolSteps /\ PoolSteps * n \in Nat
      /\ PoolSteps = 2 * MaxAdvised + 3 /\ MaxAdvised \in Nat
  BY <1>2, PoolStepsAdd
<1> HIDE DEF n, s
<1> QED BY <1>3, <1>4, <1>5, <1>6

LEMMA TwiceAscends ==
    \A k, x, y \in Nat : x <= y => k + (2 * x + 1) + 1 < k + (2 * y + 2) + 1
  OBVIOUS

\* Within a shrink only a release that fails does not lead on.
LEMMA ShrinkAdvances ==
    ASSUME Typed, Pools, Pools', Shrinking, NEW c \in Caches, Shrink(c)
    PROVE  StepsLeft' < StepsLeft \/ (FailRelease(c) /\ StepsLeft' = StepsLeft + 1)
<1>1. step = "resize" /\ step' = "resize" /\ todo' = todo /\ c \in over
  BY ShrinkFrame DEF Shrinking
<1> DEFINE k == PoolSteps * Cardinality(todo)
<1>2. StepsLeft = k + ShrinkLeft + 1 /\ StepsLeft' = k + ShrinkLeft' + 1
  BY <1>1 DEF StepsLeft, PoolSteps
<1>3. k \in Nat
  BY Counts, PoolStepsAdd
<1>4. left \in Nat /\ left' \in 0..MaxAdvised /\ MaxAdvised \in Nat
  BY AdvisedAssumption DEF Pools
<1> HIDE DEF k
<1>5. CASE Ask(c)
  <2>1. ShrinkLeft = 2 * MaxAdvised + 2 /\ ShrinkLeft' = 2 * left' + 1
    BY <1>1, <1>5 DEF Ask, ShrinkLeft
  <2>2. left' \in Nat /\ left' <= MaxAdvised
    BY <1>4
  <2>3. StepsLeft = k + (2 * MaxAdvised + 2) + 1 /\ StepsLeft' = k + (2 * left' + 1) + 1
    BY <1>2, <2>1
  <2> QED BY <1>3, <1>4, <2>2, <2>3, TwiceAscends
<1>6. CASE PickVictim(c)
  <2>1. ShrinkLeft = 2 * left + 1 /\ ShrinkLeft' = 2 * left
    BY <1>1, <1>6 DEF PickVictim, ShrinkLeft
  <2> QED BY <1>2, <1>3, <1>4, <2>1
<1>7. CASE Advised(c) \/ NoVictim(c) \/ Abort(c)
  <2>1. ShrinkLeft' = 0
    BY <1>7 DEF Advised, NoVictim, Abort, ShrinkReturns, ShrinkLeft
  <2>2. ShrinkLeft = 2 * left + 1 \/ (ShrinkLeft = 2 * left /\ left > 0)
    BY <1>1, <1>7 DEF Advised, NoVictim, Abort, ShrinkLeft, Pools
  <2>3. ShrinkLeft \in Nat /\ ShrinkLeft > 0
    BY <1>4, <2>2
  <2> QED BY <1>2, <1>3, <2>1, <2>3
<1>8. CASE Release(c)
  <2>1. ShrinkLeft = 2 * left /\ ShrinkLeft' = 2 * (left - 1) + 1
    BY <1>1, <1>8 DEF Release, ShrinkLeft
  <2> QED BY <1>2, <1>3, <1>4, <2>1
<1>9. CASE FailRelease(c)
  <2>1. ShrinkLeft = 2 * left /\ ShrinkLeft' = 2 * left + 1
    BY <1>1, <1>9 DEF FailRelease, ShrinkLeft
  <2> QED BY <1>2, <1>3, <1>4, <1>9, <2>1
<1> QED BY <1>5, <1>6, <1>7, <1>8, <1>9 DEF Shrink

LEMMA EndAdvances ==
    ASSUME Typed, Pools, End
    PROVE  StepsLeft' < StepsLeft
<1>1. step = "resize" /\ step' = "idle" /\ StepsLeft' = 0
  BY DEF End, StepsLeft
<1>2. StepsLeft \in Nat /\ StepsLeft # 0
  BY <1>1, StepsLeftIsNat
<1> QED BY <1>1, <1>2

LEMMA WorkAdvances ==
    ASSUME Books, Books', Holdings, Holdings', Shrinking, Work
    PROVE  \/ StepsLeft' < StepsLeft
           \/ (\E c \in Caches : FailRelease(c)) /\ StepsLeft' = StepsLeft + 1
<1>1. Typed /\ Pools /\ Typed' /\ Pools'
  BY DEF Books, Holdings
<1> QED
  BY <1>1, SellAdvances, SoldAllAdvances, RoundAdvances, BuyAdvances, BoughtAllAdvances,
     ResizeAdvances, ShrinkAdvances, EndAdvances DEF Work

\* Whatever the caches do in the meantime, a pass has a bounded number of steps but
\* for the releases that fail, and each of those costs a step more and no other
\* (market.cc buyExtraMemory, cachecache.cc shrink): what PassEnds needs, but for the
\* fairness.
THEOREM PassesGetShorter == Spec => PassAdvances
<1>1. (\E c \in Caches : Use(c)) => StepsLeft' = StepsLeft
  BY DEF Use, deal, shrinking, StepsLeft, ShrinkLeft, RoundsLeft, Count, PoolSteps
<1>2. Books /\ Books' /\ Holdings /\ Holdings' /\ Shrinking
      => [/\ StepsLeft \in Nat /\ (StepsLeft = 0 <=> step = "idle")
          /\ Work => \/ StepsLeft' < StepsLeft
                     \/ (\E c \in Caches : FailRelease(c)) /\ StepsLeft' = StepsLeft + 1
          /\ (\E c \in Caches : Use(c)) => StepsLeft' = StepsLeft]_vars
  <2>1. Books /\ Holdings => Typed /\ Pools
    BY DEF Books, Holdings
  <2> QED BY <1>1, <2>1, StepsLeftIsNat, WorkAdvances
<1> QED BY <1>2, BooksAreKept, HoldingsAreBacked, ShrinkingIsKept, PTL DEF PassAdvances
=============================================================================
