---------------------------- MODULE AgedCache -----------------------------
(***************************************************************************)
(* What a cache promises to those who read its entries, whatever runs in   *)
(* the meantime: each entry carries the time of the last use of its key.   *)
(* One key is in use at a time.  The time of an entry is written while its *)
(* key is in use, and by nothing else; it is the time at which that use    *)
(* began, since the clock stands still meanwhile.  Entries disappear one   *)
(* at a time, for reasons that are left open here.                         *)
(***************************************************************************)
EXTENDS Naturals

CONSTANTS Keys,    \* the keys
          Absent   \* the stamp of a key that has no entry, and no key

VARIABLES now,     \* the clock of the cache
          stamp,   \* stamp[k]: when k was last used, if it has an entry
          inUse    \* the key that is being used, if any

Init == /\ now = 0
        /\ stamp = [k \in Keys |-> Absent]
        /\ inUse = Absent

\* A second of the trace is over.
Tick == /\ inUse = Absent
        /\ now' = now + 1
        /\ UNCHANGED <<stamp, inUse>>

\* An entry, whichever it is, may go.
Discarding == \/ UNCHANGED stamp
              \/ \E k \in Keys : stamp' = [stamp EXCEPT ![k] = Absent]

\* A use of k begins; an entry may have to make room for it.
Begin(k) == /\ inUse = Absent
            /\ inUse' = k
            /\ Discarding
            /\ UNCHANGED now

\* The entry of the key in use gets the time, and the use may end with that.
Stamp(k) == /\ inUse = k
            /\ stamp' = [stamp EXCEPT ![k] = now]
            /\ inUse' \in {k, Absent}
            /\ UNCHANGED now

\* A use that ends has left its time in the entry of its key, if that entry is
\* still there.
End == /\ inUse # Absent
       /\ stamp[inUse] \in {Absent, now}
       /\ inUse' = Absent
       /\ UNCHANGED <<now, stamp>>

\* An entry is evicted or cleaned.
Discard == /\ Discarding
           /\ UNCHANGED <<now, inUse>>

Next == \/ Tick
        \/ \E k \in Keys : Begin(k) \/ Stamp(k)
        \/ End
        \/ Discard

Spec == Init /\ [][Next]_<<now, stamp, inUse>>
=============================================================================
