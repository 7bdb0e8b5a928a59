------------------------------- MODULE Market -------------------------------
(***************************************************************************)
(* The market that shares the memory of the service between its caches     *)
(* (cachecache/src/service/market.cc), and the resizing of a cache that    *)
(* carries its decisions out (cachecache.cc resize, shrink).  A cache that *)
(* uses less than it requested is paid for the rest in money; a cache that *)
(* needs more buys it.  One unit of money is one unit of memory.           *)
(*                                                                         *)
(* work runs on the thread of a PeriodicWorker while the generators use    *)
(* the caches: what a cache uses may change between any two steps.  The    *)
(* hash maps are walked in any order.  In the present supervisor the calls *)
(* that start the market are commented out.                                *)
(***************************************************************************)
EXTENDS Integers, FiniteSets, Functions

CONSTANTS
    Caches,            \* the registered caches
    Memory,            \* _memory
    Requested,         \* requested() of each cache
    SlabSize,          \* Slab::kSize
    WindowSize,        \* _windowSize
    TriggerIncrement,  \* _triggerIncrement and the like, in percent
    IncreasingSpeed,
    TriggerDecrement,
    DecreasingSpeed,
    SizeModulus,       \* size_t arithmetic (2^64 in the code)
    IntModulus,        \* int arithmetic (2^32 in the code)
    MaxWallet,         \* bound on the wallets
    MaxAdvised         \* bound on the slabs that the allocator advises away

ASSUME CachesAssumption == IsFiniteSet(Caches)
\* Each cache requested a slab at least, and what they all requested is there.
ASSUME MemoryAssumption ==
    /\ SlabSize \in Nat \ {0}
    /\ WindowSize \in Nat \ {0}
    /\ Memory \in Nat
    /\ Requested \in [Caches -> SlabSize..Memory]
ASSUME RequestsAssumption == FoldFunction(+, 0, Requested) <= Memory
ASSUME PercentAssumption ==
    /\ TriggerIncrement \in Nat /\ IncreasingSpeed \in Nat
    /\ TriggerDecrement \in Nat \ {0} /\ DecreasingSpeed \in 0..100
\* Size and int wrap at powers of two, and a slab is one too.
ASSUME WidthAssumption ==
    /\ SizeModulus \in Nat /\ IntModulus \in Nat \ {0}
    /\ Memory < SizeModulus
    /\ SizeModulus % SlabSize = 0
    /\ IntModulus % 2 = 0
    /\ (SizeModulus \div SlabSize) % IntModulus = 0
    /\ 2 * (Memory \div SlabSize + 1) < IntModulus
ASSUME WalletAssumption == MaxWallet \in Nat /\ MaxWallet < SizeModulus
ASSUME AdvisedAssumption == MaxAdvised \in Nat

VARIABLES
    \* The caches
    pool,       \* pool[c]: size()
    used,       \* used[c]: currentMemoryUsage()
    \* The market
    wallet,     \* _wallets
    step,       \* where work is
    todo,       \* the caches the loop of this step has not come to yet
    market,     \* the memory that is not allocated
    allocated,
    wanted,     \* the amounts of the buyers
    buyers,
    over,       \* the cache, if any, whose usage resize found above its new size
    place,      \* where its shrink is
    left,       \* the slabs its shrink has yet to advise away
    \* History
    lent,       \* lent[c]: what c left to the others, minus what it took, in all passes
    asked       \* what the shrink under way is about: the excess, the slabs to advise

caches == <<pool, used>>
deal == <<market, allocated, wanted, buyers>>
shrinking == <<over, place, left>>
vars == <<pool, used, wallet, step, todo, market, allocated, wanted, buyers,
          over, place, left, lent, asked>>

Steps == {"idle", "sell", "buy", "resize"}
Places == {"ask", "pick", "release"}

\* No shrink is under way.
NothingAsked == [excess |-> 0, slabs |-> 1]

Least(a, b) == IF a < b THEN a ELSE b
Most(a, b) == IF a > b THEN a ELSE b

Size(a) == a % SizeModulus

Total(f) == FoldFunction(+, 0, f)

---------------------------------------------------------------------------
(* Resize targets, in whole slabs *)

getUpperResizeTarget(t) == ((t + SlabSize - 1) \div SlabSize) * SlabSize

\* Rounding up in both directions.
LowerResizeTargetUp(t) == getUpperResizeTarget(t)

getLowerResizeTarget(t) == Most(1, t \div SlabSize) * SlabSize

\* A number of slabs as wide as the sizes.
SlabsUncut(c, newsize) == Size(used[c] - newsize) \div SlabSize + 1

\* shrink's target_in_slabs: the amount is a difference of sizes, and the
\* number of slabs is cut down to an int.
SlabsToAdvise(c, newsize) ==
    LET slabs == (Size(used[c] - newsize) \div SlabSize + 1) % IntModulus
    IN  IF 2 * slabs < IntModulus THEN slabs ELSE slabs - IntModulus

---------------------------------------------------------------------------
(* The generators *)

\* Items are stored, evicted or cleaned: no more than the pool has room for.
Use(c) ==
    \E u \in 0..Most(pool[c], used[c]) :
        /\ u > used[c] => u <= pool[c]
        /\ used' = [used EXCEPT ![c] = u]
        /\ UNCHANGED <<pool, wallet, step, todo, deal, shrinking, lent, asked>>

---------------------------------------------------------------------------
(* work *)

\* The wallets are reported and the memory is on the market.
Begin ==
    /\ step = "idle"
    /\ \A c \in Caches : wallet[c] + Requested[c] <= MaxWallet
    /\ step' = "sell"
    /\ todo' = Caches
    /\ market' = Memory
    /\ allocated' = [c \in Caches |-> 0]
    /\ wanted' = [c \in Caches |-> 0]
    /\ buyers' = {}
    /\ UNCHANGED <<pool, used, wallet, shrinking, lent, asked>>

\* The usage that sellBaseMemory makes room for: more than there is when the
\* cache is nearly full, less when it is nearly empty.
Target(c) ==
    LET clamped(u) == Most(SlabSize, Least(Memory, u))
        usage == used[c]
    IN  getUpperResizeTarget(
            IF 100 * usage > TriggerIncrement * pool[c]
            THEN clamped((usage * (100 + IncreasingSpeed)) \div 100)
            ELSE IF 100 * usage < TriggerDecrement * pool[c]
            THEN clamped((usage * (100 - DecreasingSpeed)) \div 100)
            ELSE usage)

\* The price of what is not used at all, whatever the cache gets.
EarnedByUsage(c, usage) == Requested[c] - used[c]

Earned(c, usage) == Requested[c] - usage

\* sellBaseMemory: c gets what it needs, up to what it requested.
Sell(c) ==
    LET usage == Target(c)
    IN  /\ step = "sell"
        /\ c \in todo
        /\ \/ /\ usage > Requested[c]
              /\ allocated' = [allocated EXCEPT ![c] = Requested[c]]
              /\ wanted' = [wanted EXCEPT ![c] = usage - Requested[c]]
              /\ buyers' = buyers \cup {c}
              /\ UNCHANGED wallet
           \/ /\ usage <= Requested[c]
              /\ allocated' = [allocated EXCEPT ![c] = usage]
              /\ wallet' = [wallet EXCEPT ![c] = Size(@ + Earned(c, usage))]
              /\ UNCHANGED <<wanted, buyers>>
        /\ market' = Size(market - allocated'[c])
        /\ todo' = todo \ {c}
        /\ UNCHANGED <<caches, step, shrinking, lent, asked>>

SoldAll ==
    /\ step = "sell"
    /\ todo = {}
    /\ step' = "buy"
    /\ UNCHANGED <<caches, wallet, todo, deal, shrinking, lent, asked>>

\* A round of buyExtraMemory: every buyer gets a turn.
Round ==
    /\ step = "buy"
    /\ todo = {}
    /\ market > 0
    /\ buyers # {}
    /\ todo' = buyers
    /\ UNCHANGED <<caches, wallet, step, deal, shrinking, lent, asked>>

\* Purchases on credit.
BoughtOnCredit(c) == Least(Least(WindowSize, wanted[c]), market)

\* Purchases of any size.
BoughtAtOnce(c) == Least(Least(wallet[c], wanted[c]), market)

Bought(c) == Least(Least(Least(WindowSize, wallet[c]), wanted[c]), market)

\* A buyer that cannot buy anything stays among the buyers.
BuyAndStay(c) ==
    /\ step = "buy"
    /\ c \in todo
    /\ wallet' = [wallet EXCEPT ![c] = Size(@ - Bought(c))]
    /\ wanted' = [wanted EXCEPT ![c] = Size(@ - Bought(c))]
    /\ allocated' = [allocated EXCEPT ![c] = @ + Bought(c)]
    /\ market' = Size(market - Bought(c))
    /\ todo' = todo \ {c}
    /\ UNCHANGED <<caches, step, buyers, shrinking, lent, asked>>

\* What was bought before is forgotten.
BuyAfresh(c) ==
    /\ step = "buy"
    /\ c \in todo
    /\ wallet' = [wallet EXCEPT ![c] = Size(@ - Bought(c))]
    /\ wanted' = [wanted EXCEPT ![c] = Size(@ - Bought(c))]
    /\ allocated' = [allocated EXCEPT ![c] = Bought(c)]
    /\ market' = Size(market - Bought(c))
    /\ buyers' = IF Bought(c) = 0 THEN buyers \ {c} ELSE buyers
    /\ todo' = todo \ {c}
    /\ UNCHANGED <<caches, step, shrinking, lent, asked>>

\* The turn of c: it buys what its window, its wallet and the market allow,
\* and is out when that is nothing or when it wants no more.
Buy(c) ==
    /\ step = "buy"
    /\ c \in todo
    /\ wallet' = [wallet EXCEPT ![c] = Size(@ - Bought(c))]
    /\ wanted' = [wanted EXCEPT ![c] = Size(@ - Bought(c))]
    /\ allocated' = [allocated EXCEPT ![c] = @ + Bought(c)]
    /\ market' = Size(market - Bought(c))
    /\ buyers' = IF Bought(c) = 0 THEN buyers \ {c} ELSE buyers
    /\ todo' = todo \ {c}
    /\ UNCHANGED <<caches, step, shrinking, lent, asked>>

\* A single round.
RoundsEndAtOnce == step = "buy" /\ todo = {}

\* The memory or the buyers are exhausted.
RoundsEnd == step = "buy" /\ todo = {} /\ (market = 0 \/ buyers = {})

BoughtAll ==
    /\ RoundsEnd
    /\ step' = "resize"
    /\ todo' = Caches
    /\ lent' = [c \in Caches |-> lent[c] + Requested[c] - allocated[c]]
    /\ UNCHANGED <<caches, wallet, deal, shrinking, asked>>

\* resize(allocated[c]): the pool shrinks, or grows if its allocator lets it.
\* (shrinkPool refuses only to take more from a pool than it has.)  A pool that
\* is in use beyond its new size is to be shrunk next.
Resize(c) ==
    LET newsize == getLowerResizeTarget(allocated[c])
    IN  /\ step = "resize"
        /\ over = {}
        /\ c \in todo
        /\ \/ /\ pool[c] > newsize
              /\ pool' = [pool EXCEPT ![c] = newsize]
              /\ over' = IF used[c] > newsize THEN {c} ELSE {}
           \/ /\ pool[c] <= newsize
              /\ pool' \in {pool, [pool EXCEPT ![c] = newsize]}
              /\ UNCHANGED over
        /\ todo' = todo \ {c}
        /\ UNCHANGED <<used, wallet, step, deal, place, left, lent, asked>>

---------------------------------------------------------------------------
(* shrink, of the cache in over *)

\* What calcNumSlabsToAdviseReclaim makes of the slabs asked for: it may well
\* advise nothing.
Ask(c) ==
    /\ c \in over
    /\ place = "ask"
    /\ asked' = [excess |-> used[c] - pool[c], slabs |-> SlabsToAdvise(c, pool[c])]
    /\ left' \in 0..MaxAdvised
    /\ place' = "pick"
    /\ UNCHANGED <<caches, wallet, step, todo, deal, over, lent>>

PickVictim(c) ==
    /\ c \in over
    /\ place = "pick"
    /\ left > 0
    /\ place' = "release"
    /\ UNCHANGED <<caches, wallet, step, todo, deal, over, left, lent, asked>>

ShrinkReturns ==
    /\ asked' = NothingAsked
    /\ over' = {}
    /\ place' = "ask"
    /\ left' = 0

\* The slabs are advised away, or no class has one to give.
Advised(c) ==
    /\ c \in over
    /\ place = "pick"
    /\ left = 0
    /\ ShrinkReturns
    /\ UNCHANGED <<caches, wallet, step, todo, deal, lent>>

NoVictim(c) ==
    /\ c \in over
    /\ place = "pick"
    /\ left > 0
    /\ ShrinkReturns
    /\ UNCHANGED <<caches, wallet, step, todo, deal, lent>>

\* releaseSlab empties a slab of its items, all of them or some.
Emptied(c) == \E u \in 0..used[c] : used' = [used EXCEPT ![c] = u]

\* A slab less to advise away.
Release(c) ==
    /\ c \in over
    /\ place = "release"
    /\ Emptied(c)
    /\ left' = left - 1
    /\ place' = "pick"
    /\ UNCHANGED <<pool, wallet, step, todo, deal, over, lent, asked>>

\* SlabReleaseAborted: shrink returns.
Abort(c) ==
    /\ c \in over
    /\ place = "release"
    /\ Emptied(c)
    /\ ShrinkReturns
    /\ UNCHANGED <<pool, wallet, step, todo, deal, lent>>

\* Any other exception: shrink goes round again, and has counted nothing.
FailRelease(c) ==
    /\ c \in over
    /\ place = "release"
    /\ Emptied(c)
    /\ place' = "pick"
    /\ UNCHANGED <<pool, wallet, step, todo, deal, over, left, lent, asked>>

Shrink(c) ==
    \/ Ask(c)
    \/ PickVictim(c) \/ Advised(c) \/ NoVictim(c)
    \/ Release(c) \/ Abort(c) \/ FailRelease(c)

---------------------------------------------------------------------------

End ==
    /\ step = "resize"
    /\ todo = {}
    /\ over = {}
    /\ step' = "idle"
    /\ UNCHANGED <<caches, wallet, todo, deal, shrinking, lent, asked>>

---------------------------------------------------------------------------
(* The specification *)

\* Each pool is made as large as its allocator, before anything is resized.
Init ==
    /\ pool = [c \in Caches |-> Memory]
    /\ used = [c \in Caches |-> 0]
    /\ wallet = [c \in Caches |-> 0]
    /\ step = "idle"
    /\ todo = {}
    /\ market = 0
    /\ allocated = [c \in Caches |-> 0]
    /\ wanted = [c \in Caches |-> 0]
    /\ buyers = {}
    /\ over = {}
    /\ place = "ask"
    /\ left = 0
    /\ lent = [c \in Caches |-> 0]
    /\ asked = NothingAsked

\* What the thread does once work has begun.
Work ==
    \/ \E c \in Caches : Sell(c) \/ Buy(c) \/ Resize(c) \/ Shrink(c)
    \/ SoldAll
    \/ Round
    \/ BoughtAll
    \/ End

Next ==
    \/ \E c \in Caches : Use(c)
    \/ Begin
    \/ Work

Spec == Init /\ [][Next]_vars

\* The worker's thread runs until work returns.  Which way releaseSlab comes back
\* is not for the thread to choose: it may fail each time it is called.
FairSpec == Spec /\ WF_vars(Work)

---------------------------------------------------------------------------
(* Properties *)

\* No size wraps below zero: what is on the market, in a wallet or in an
\* amount of a buyer stays within the memory there is and the money paid.
TypeOK ==
    /\ pool \in [Caches -> 0..Memory]
    /\ used \in [Caches -> 0..Memory]
    /\ wallet \in [Caches -> 0..MaxWallet]
    /\ step \in Steps
    /\ todo \subseteq Caches
    /\ market \in 0..Memory
    /\ allocated \in [Caches -> 0..Memory]
    /\ wanted \in [Caches -> 0..(Memory + SlabSize)]
    /\ buyers \subseteq Caches
    /\ over \subseteq Caches
    /\ place \in Places
    /\ left \in 0..MaxAdvised
    /\ lent \in [Caches -> Int]
    /\ asked \in [excess : Int, slabs : Int]

\* What is allocated and what is on the market make up the memory at each
\* step of the sale and of the rounds (market.cc sellBaseMemory, buyExtraMemory).
LedgerBalances == step # "idle" => market + Total(allocated) = Memory

\* When work returns, the pools of all caches fit in the memory, although
\* usage is read at other times than it is acted on, targets are rounded and
\* a pool may refuse to grow (market.cc work).
PassFitsMemory == [][step = "resize" /\ step' = "idle" => Total(pool) <= Memory]_vars

\* A cache pays for memory beyond its request with what it left to the others
\* in earlier passes, to the unit: its wallet is what it left minus what it
\* took, and that is never negative.
NobodyTakesMoreThanItLeft ==
    step \in {"idle", "resize"} => \A c \in Caches : lent[c] = wallet[c] /\ lent[c] >= 0

\* No memory stays on the market that a buyer wants and has money for.
NoIdleMemory ==
    step = "resize" => \A c \in Caches : wanted[c] > 0 /\ wallet[c] > 0 => market = 0

\* What a cache got beyond its request.
Extra(c) == Most(0, allocated[c] - Requested[c])

\* When the memory runs out before the money of a buyer, no other buyer has got
\* more than one window ahead of it.
FairShare ==
    step = "resize" =>
        \A c, d \in Caches :
            wanted[c] > 0 /\ wallet[c] > 0 => Extra(d) <= Extra(c) + WindowSize

\* shrink reads the usage again, and it may have fallen below the new size in
\* the meantime.  The difference wraps, but as an int the number of slabs comes
\* out as if it did not: never more than the excess calls for.
ShrinkAsksForTheExcess == asked.slabs = asked.excess \div SlabSize + 1

\* The passes, each with all its sales, rounds and resizes, are what SharedMemory
\* promises: the credit of a cache is its wallet as it is between two passes
\* (market.cc work).
Shared == INSTANCE SharedMemory WITH
    credit <- IF step \in {"sell", "buy"} THEN lent ELSE wallet,
    share <- IF step = "resize" THEN allocated ELSE [c \in Caches |-> 0],
    lacking <- IF step = "resize" THEN wanted ELSE [c \in Caches |-> 0]

ImplementsSharedMemory == Shared!Spec

\* work returns, unless it tries for ever to release a slab: each round of the
\* sale sells something or loses a buyer, and shrink goes round again without an
\* end only as long as releaseSlab fails (market.cc buyExtraMemory, cachecache.cc
\* shrink).
PassEnds ==
    \/ []<><<\E c \in Caches : FailRelease(c)>>_vars
    \/ step # "idle" ~> step = "idle"
=============================================================================
