---------------------------- MODULE SharedMemory ----------------------------
(***************************************************************************)
(* What a market promises to the caches that share a memory, pass by pass. *)
(* A pass agrees on a share for each cache at once.  A cache keeps what it *)
(* requested as long as it needs it.  It is credited with what it leaves   *)
(* to the others, and takes more than it requested only on that credit.    *)
(* A cache that needs more and has credit is refused it only when all the  *)
(* memory is taken, and then no other is more than a window ahead of it.   *)
(***************************************************************************)
EXTENDS Integers, Functions

CONSTANTS Caches, Memory,
          Requested,    \* what each cache requested
          SlabSize,     \* the least share
          WindowSize

VARIABLES credit,       \* credit[c]: what c left to the others in all passes
          share,        \* the shares that are agreed on and to be carried out
          lacking       \* lacking[c]: what c needs beyond its share

Nothing == [c \in Caches |-> 0]

Init == credit = Nothing /\ share = Nothing /\ lacking = Nothing

\* What a cache gets beyond its request.
Extra(c) == IF share[c] > Requested[c] THEN share[c] - Requested[c] ELSE 0

\* c goes without memory that it needs and has credit for.
Refused(c) == lacking[c] > 0 /\ credit[c] > 0

Fits == FoldFunction(+, 0, share) <= Memory
Full == FoldFunction(+, 0, share) = Memory

Agree ==
    /\ share = Nothing
    /\ share' \in [Caches -> SlabSize..Memory]
    /\ lacking' \in [Caches -> 0..Memory]
    /\ credit' = [c \in Caches |-> credit[c] + Requested[c] - share'[c]]
    /\ \A c \in Caches : credit'[c] >= 0
    /\ \A c \in Caches : lacking'[c] > 0 => share'[c] >= Requested[c]
    /\ Fits'
    /\ \A c \in Caches : Refused(c)' =>
          /\ Full'
          /\ \A d \in Caches : Extra(d)' <= Extra(c)' + WindowSize

\* The caches have their shares.
Carried ==
    /\ share' = Nothing
    /\ lacking' = Nothing
    /\ UNCHANGED credit

Next == Agree \/ Carried

Spec == Init /\ [][Next]_<<credit, share, lacking>>
=============================================================================
