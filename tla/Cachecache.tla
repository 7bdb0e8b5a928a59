---------------------------- MODULE Cachecache ----------------------------
(***************************************************************************)
(* One cache of the service (cachecache/src/service/cachecache.cc) and the *)
(* two threads that use it: the generator thread, which runs get and put   *)
(* for the lines of its trace and moves the cache's clock, and the         *)
(* supervisor thread, which calls clean every few seconds.  Nothing in the *)
(* class protects them from each other except the locks inside CacheLib,   *)
(* so the steps below are the points at which the other thread can run.    *)
(*                                                                         *)
(* CacheLib itself is not under src/: its pool is modelled from the way    *)
(* the class uses it.  A slot is one allocation of the pool.  A slot that  *)
(* has been given back keeps its old bytes until it is handed out again,   *)
(* which matters because clean keeps views of keys that live in the slots. *)
(***************************************************************************)
EXTENDS Naturals, Sequences, FiniteSets

CONSTANTS
    Keys,            \* the keys of the trace
    Slots,           \* the allocations the pool has room for
    NoSlot,          \* a null handle, or a key that is not in the index
    Requested,       \* _requested, counted in allocations
    Estimates,       \* Estimates[i]: what getEstimation() of _percentiles[i] may return
    Radix,           \* the radix to_string writes the clock in (10 in the code)
    TimeModulus,     \* unsigned int arithmetic (2^32 in the code)
    MaxTime,         \* bound on the clock
    KeyBufferSize,   \* length of _key_buffer (10000 in the code)
    EvictionMayFail  \* whether allocate may give up although something is evictable

ASSUME SlotsAssumption == /\ IsFiniteSet(Slots)
                          /\ Cardinality(Slots) >= 2
                          /\ NoSlot \notin Slots
\* The configuration counts it in megabytes: more than one allocation.
ASSUME RequestedAssumption == Requested \in Nat \ {0, 1}
ASSUME EstimatesAssumption == Estimates \in [0..2 -> SUBSET Nat]
ASSUME ClockAssumption == /\ Radix \in Nat \ {0, 1}
                          /\ MaxTime \in Nat
                          /\ TimeModulus \in Nat
                          /\ MaxTime < TimeModulus
ASSUME KeyBufferAssumption == KeyBufferSize \in Nat \ {0}
ASSUME EvictionAssumption == EvictionMayFail \in BOOLEAN

VARIABLES
    \* The pool (CacheLib)
    item,            \* item[s]: the bytes of slot s: key, last_request, digits of last_request
    live,            \* the slots that are allocated, linked or only held by a handle
    index,           \* index[k]: the slot the hash table gives for k
    older,           \* the LRU list: <<a, b>> when a is nearer to the tail than b
    \* The clock of the cache
    time,
    \* The generator thread
    op,              \* where the thread is in get or put
    handle,          \* the item get found and still holds
    fresh,           \* the allocation that is not inserted yet
    keyBufferIndex,  \* _key_buffer_index
    samples,         \* how many values each percentile was given, up to 3
    \* The supervisor thread, in clean
    phase,           \* where the thread is in clean
    calibrating,     \* _calibrating
    targetedPercentile,
    target,          \* the estimation clean multiplies by 1.1 to get _target
    before,          \* the alloc size read before anything is removed
    toRemove,        \* to_remove: views of the keys in these slots
    nbRemoved,       \* nb_keys_removed
    scanStart        \* history: the clock when clean took the LRU lock

pool == <<live, index, older>>
generator == <<op, handle, fresh, keyBufferIndex, samples>>
cleaner == <<phase, calibrating, targetedPercentile, target, before, toRemove,
             nbRemoved, scanStart>>
vars == <<item, live, index, older, time, op, handle, fresh, keyBufferIndex,
          samples, phase, calibrating, targetedPercentile, target, before,
          toRemove, nbRemoved, scanStart>>

Item == [key : Keys, last : Nat, width : Nat]

Ops == {"idle", "promote", "read", "stamp", "copying", "insert", "release", "crashed"}
Phases == {"idle", "measure", "lock", "scan", "remove", "report"}

---------------------------------------------------------------------------
(* Clock and ITEM conversions *)

\* The number of characters of std::to_string(t).
Width(t) == 1 + Cardinality({p \in 1..t : \E i \in 1..t : p = Radix^i})

Digit(t, i) == (t \div Radix^i) % Radix

\* What a reader may see of a decimal string that is being overwritten by
\* another of the same length: each character is the old one or the new one.
Torn(old, new) ==
    {t \in 0..(Radix^Width(new) - 1) :
        \A i \in 0..(Width(new) - 1) : Digit(t, i) \in {Digit(old, i), Digit(new, i)}}

\* The operands of the difference the other way round.
SwappedDelta(last) == (last + TimeModulus - time) % TimeModulus

\* Clock::delta is unsigned: a last_request above the clock wraps around.
Delta(last) == (time + TimeModulus - last) % TimeModulus

\* delta > _target, where _target is the estimation times 1.1.
Expired(last) == 10 * Delta(last) > 11 * target

---------------------------------------------------------------------------
(* The pool *)

Linked == {s \in Slots : \E k \in Keys : index[k] = s}

\* An iterator that is still there when clean removes the keys it found.
LruUnlockedAfterRemovals == phase \notin {"scan", "remove"}

\* The LRU lock of the MM container is held during the whole scan of clean,
\* and no longer: the iterator is gone before anything is removed.
LruUnlocked == phase # "scan"

\* getCurrentAllocSize(), in allocations.
Usage == Cardinality(live)

\* An eviction that leaves the item in the list.
UnlinkNothing(s) == older

Unlink(s) == {pair \in older : pair[1] # s /\ pair[2] # s}

\* The list once s is at its head and gone is out of it.
Promoted(s, gone) ==
    {pair \in older : s \notin {pair[1], pair[2]} /\ gone \notin {pair[1], pair[2]}}
        \cup {<<t, s>> : t \in Linked \ {s, gone}}

\* The order of the list taken the wrong way round.
IsNewest(s, S) == s \in S /\ \A t \in S \ {s} : <<t, s>> \in older

\* The item nearest to the tail among the slots of S.
IsOldest(s, S) == s \in S /\ \A t \in S \ {s} : <<s, t>> \in older

\* Eviction skips an item that a handle pins.
Evictable == Linked \ {handle}

TakeFree(s) == /\ s \in Slots \ live
               /\ live' = live \cup {s}
               /\ UNCHANGED <<index, older>>

Evict(s) == /\ Slots \subseteq live
            /\ LruUnlocked
            /\ IsOldest(s, Evictable)
            /\ index' = [k \in Keys |-> IF index[k] = s THEN NoSlot ELSE index[k]]
            /\ older' = Unlink(s)
            /\ UNCHANGED live

\* allocate() and the memcpy of to_string(ITEM) into the new item, which no
\* other thread can see before it is inserted.
Allocate(k, s) ==
    /\ TakeFree(s) \/ Evict(s)
    /\ item' = [item EXCEPT ![s] = [key |-> k, last |-> time, width |-> Width(time)]]
    /\ fresh' = s

\* allocate() returns a null handle.
AllocationFails ==
    /\ Slots \subseteq live
    /\ LruUnlocked
    /\ EvictionMayFail \/ Evictable = {}

---------------------------------------------------------------------------
(* The generator thread *)

\* Generator::process sees a new timestamp: the clock advances.
Tick ==
    /\ op = "idle"
    /\ time < MaxTime
    /\ time' = time + 1
    /\ UNCHANGED <<item, pool, generator, cleaner>>

NextBufferIndex == (keyBufferIndex + 1) % KeyBufferSize

\* get of a key that is not in the cache.  The buffer holds views of key
\* strings that died with their trace line, so whether std::find finds the
\* key there is not determined.
GetMiss(k) ==
    /\ op = "idle"
    /\ index[k] = NoSlot
    /\ keyBufferIndex' \in {keyBufferIndex, NextBufferIndex}
    /\ UNCHANGED <<item, pool, time, op, handle, fresh, samples, cleaner>>

\* get of a key that is there: findToWrite pins the item ...
GetHit(k) ==
    /\ op = "idle"
    /\ index[k] # NoSlot
    /\ handle' = index[k]
    /\ op' = "promote"
    /\ UNCHANGED <<item, pool, time, fresh, keyBufferIndex, samples, cleaner>>

\* ... and moves it to the head of the LRU list, unless clean has unlinked it
\* in the meantime.
GetPromote ==
    /\ op = "promote"
    /\ LruUnlocked
    /\ older' = IF handle \in Linked THEN Promoted(handle, NoSlot) ELSE older
    /\ op' = "read"
    /\ UNCHANGED <<item, live, index, time, handle, fresh, keyBufferIndex, samples, cleaner>>

\* get reads last_request and, while calibrating, feeds the delta to the
\* three percentiles.
GetRead ==
    /\ op = "read"
    /\ samples' = IF calibrating /\ samples < 3 THEN samples + 1 ELSE samples
    /\ op' = "stamp"
    /\ UNCHANGED <<item, pool, time, handle, fresh, keyBufferIndex, cleaner>>

\* No look at the size of the item.
FitsAlways(s) == TRUE

\* item->getSize() >= stritem.size()
FitsInPlace(s) == item[s].width >= Width(time)

\* get writes last_request.  In place, the memcpy is not atomic: it starts ...
GetStamp ==
    /\ op = "stamp"
    /\ FitsInPlace(handle)
    /\ op' = "copying"
    /\ UNCHANGED <<item, pool, time, handle, fresh, keyBufferIndex, samples, cleaner>>

\* The text of the item as it was, copied over itself.
GetCopiedStale ==
    /\ op = "copying"
    /\ op' = "release"
    /\ UNCHANGED <<item, pool, time, handle, fresh, keyBufferIndex, samples, cleaner>>

\* ... and ends.
GetCopied ==
    /\ op = "copying"
    /\ item' = [item EXCEPT ![handle].last = time]
    /\ op' = "release"
    /\ UNCHANGED <<pool, time, handle, fresh, keyBufferIndex, samples, cleaner>>

\* The new text is longer than the item: get allocates another one.  (What allocate
\* and insertOrReplace may throw, which get catches, is left out: the key is that of
\* an item, and the text is but one digit longer.)
GetReallocate ==
    /\ op = "stamp"
    /\ ~FitsInPlace(handle)
    /\ \E s \in Slots : Allocate(item[handle].key, s)
    /\ op' = "insert"
    /\ UNCHANGED <<time, handle, keyBufferIndex, samples, cleaner>>

\* get does not look at the handle it got: the memcpy goes through a null
\* pointer and the process dies.
GetNullHandle ==
    /\ op = "stamp"
    /\ ~FitsInPlace(handle)
    /\ AllocationFails
    /\ op' = "crashed"
    /\ UNCHANGED <<item, pool, time, handle, fresh, keyBufferIndex, samples, cleaner>>

PutAllocate(k) ==
    /\ op = "idle"
    /\ \E s \in Slots : Allocate(k, s)
    /\ op' = "insert"
    /\ UNCHANGED <<time, handle, keyBufferIndex, samples, cleaner>>

\* put does check its handle, and returns false: nothing has changed.
PutFails ==
    /\ op = "idle"
    /\ AllocationFails
    /\ UNCHANGED vars

\* insertOrReplace: the new item takes the place of the one the index had for
\* its key, which is freed unless get still holds it.
Insert ==
    LET k   == item[fresh].key
        old == index[k]
    IN  /\ op = "insert"
        /\ LruUnlocked
        /\ index' = [index EXCEPT ![k] = fresh]
        /\ older' = Promoted(fresh, old)
        /\ live' = IF old = handle THEN live ELSE live \ {old}
        /\ fresh' = NoSlot
        /\ op' = IF handle = NoSlot THEN "idle" ELSE "release"
        /\ UNCHANGED <<item, time, handle, keyBufferIndex, samples, cleaner>>

\* A handle that frees nothing.
GetReleaseOnly ==
    /\ op = "release"
    /\ handle' = NoSlot
    /\ op' = "idle"
    /\ UNCHANGED <<item, pool, time, fresh, keyBufferIndex, samples, cleaner>>

\* The handle of get goes out of scope: the last user of an unlinked item
\* frees it.
GetRelease ==
    /\ op = "release"
    /\ live' = IF handle \in Linked THEN live ELSE live \ {handle}
    /\ handle' = NoSlot
    /\ op' = "idle"
    /\ UNCHANGED <<item, index, older, time, fresh, keyBufferIndex, samples, cleaner>>

---------------------------------------------------------------------------
(* The supervisor thread: clean *)

\* Where the supervisor thread is, as long as the process lives.
In(p) == phase = p /\ op # "crashed"

\* The percentile clean aims at for a usage above one half of the requested
\* size.  The assignment of 2 below 0.8 is overwritten by the next test.
TargetedPercentile(usage) == IF 10 * usage <= 9 * Requested THEN 1 ELSE 0

CleanDecide ==
    /\ In("idle")
    /\ IF 2 * Usage <= Requested
       THEN /\ calibrating' = TRUE
            /\ UNCHANGED <<phase, targetedPercentile>>
       ELSE /\ calibrating' = FALSE
            /\ targetedPercentile' = TargetedPercentile(Usage)
            /\ phase' = "measure"
    /\ UNCHANGED <<item, pool, time, generator, target, before, toRemove, nbRemoved, scanStart>>

\* An estimation is 0 until the third value, and depends on the data after it.
CleanMeasure ==
    /\ In("measure")
    /\ before' = Usage
    /\ target' \in IF samples < 3 THEN {0} ELSE Estimates[targetedPercentile]
    /\ phase' = "lock"
    /\ UNCHANGED <<item, pool, time, generator, calibrating, targetedPercentile,
                   toRemove, nbRemoved, scanStart>>

\* getEvictionIterator takes the lock of the LRU list.
CleanLock ==
    /\ In("lock")
    /\ phase' = "scan"
    /\ scanStart' = time
    /\ UNCHANGED <<item, pool, time, generator, calibrating, targetedPercentile,
                   target, before, toRemove, nbRemoved>>

Collected == {toRemove[i] : i \in 1..Len(toRemove)}

\* from_string of the item's memory, which the generator may be writing.
ReadLast(s) == IF op = "copying" /\ s = handle
               THEN Torn(item[s].last, time)
               ELSE {item[s].last}

\* The iterator is at s, every item nearer to the tail being in to_remove.
CleanCollect(s) ==
    /\ In("scan")
    /\ IsOldest(s, Linked \ Collected)
    /\ \E last \in ReadLast(s) : Expired(last)
    /\ toRemove' = Append(toRemove, s)
    /\ UNCHANGED <<item, pool, time, generator, phase, calibrating,
                   targetedPercentile, target, before, nbRemoved, scanStart>>

\* The scan stops at the first item that is recent enough, or at the end of
\* the list; the iterator goes out of scope and unlocks it.
CleanStop ==
    /\ In("scan")
    /\ \A s \in Slots : IsOldest(s, Linked \ Collected) =>
          \E last \in ReadLast(s) : ~Expired(last)
    /\ phase' = "remove"
    /\ UNCHANGED <<item, pool, time, generator, calibrating, targetedPercentile,
                   target, before, toRemove, nbRemoved, scanStart>>

\* remove(key): the key is read from the slot as it is now, and the item the
\* index has for that key now is unlinked.  The count goes up in any case.
CleanRemove ==
    LET k == item[Head(toRemove)].key
        s == index[k]
    IN  /\ In("remove")
        /\ LruUnlocked
        /\ toRemove # <<>>
        /\ index' = [index EXCEPT ![k] = NoSlot]
        /\ older' = Unlink(s)
        /\ live' = IF s = handle THEN live ELSE live \ {s}
        /\ toRemove' = Tail(toRemove)
        /\ nbRemoved' = nbRemoved + 1
        /\ UNCHANGED <<item, time, generator, phase, calibrating,
                       targetedPercentile, target, before, scanStart>>

CleanRemoved ==
    /\ In("remove")
    /\ toRemove = <<>>
    /\ phase' = "report"
    /\ UNCHANGED <<item, pool, time, generator, calibrating, targetedPercentile,
                   target, before, toRemove, nbRemoved, scanStart>>

\* clean pushes before - cachesize and (before - cachesize) * 100 / before,
\* and returns; its local variables are gone.
CleanReport ==
    /\ In("report")
    /\ phase' = "idle"
    /\ before' = 0
    /\ nbRemoved' = 0
    /\ UNCHANGED <<item, pool, time, generator, calibrating, targetedPercentile,
                   target, toRemove, scanStart>>

---------------------------------------------------------------------------
(* The specification *)

\* Slots that were never allocated are never read: their bytes do not matter.
Init ==
    /\ \E k \in Keys : item = [s \in Slots |-> [key |-> k, last |-> 0, width |-> 1]]
    /\ live = {}
    /\ index = [k \in Keys |-> NoSlot]
    /\ older = {}
    /\ time = 0
    /\ op = "idle"
    /\ handle = NoSlot
    /\ fresh = NoSlot
    /\ keyBufferIndex = 0
    /\ samples = 0
    /\ phase = "idle"
    /\ calibrating = TRUE
    /\ targetedPercentile = 2
    /\ target = 0
    /\ before = 0
    /\ toRemove = <<>>
    /\ nbRemoved = 0
    /\ scanStart = 0

\* What the generator thread does once get or put has begun.
GeneratorStep ==
    \/ GetPromote
    \/ GetRead
    \/ GetStamp
    \/ GetCopied
    \/ GetReallocate
    \/ GetNullHandle
    \/ Insert
    \/ GetRelease

\* What the supervisor thread does once clean has begun.
CleanStep ==
    \/ CleanMeasure
    \/ CleanLock
    \/ \E s \in Slots : CleanCollect(s)
    \/ CleanStop
    \/ CleanRemove
    \/ CleanRemoved
    \/ CleanReport

\* A process that died stays so.
Dead == op = "crashed" /\ UNCHANGED vars

Next ==
    \/ Tick
    \/ \E k \in Keys : GetMiss(k) \/ GetHit(k) \/ PutAllocate(k)
    \/ PutFails
    \/ GeneratorStep
    \/ CleanDecide
    \/ CleanStep
    \/ Dead

Spec == Init /\ [][Next]_vars

---------------------------------------------------------------------------
(* Properties *)

\* Every variable stays in its range; in particular _key_buffer_index never
\* leaves the buffer (cachecache.cc get).
TypeOK ==
    /\ item \in [Slots -> Item]
    /\ live \subseteq Slots
    /\ index \in [Keys -> Slots \cup {NoSlot}]
    /\ older \subseteq Slots \X Slots
    /\ time \in 0..MaxTime
    /\ op \in Ops
    /\ handle \in Slots \cup {NoSlot}
    /\ fresh \in Slots \cup {NoSlot}
    /\ keyBufferIndex \in 0..(KeyBufferSize - 1)
    /\ samples \in 0..3
    /\ phase \in Phases
    /\ calibrating \in BOOLEAN
    /\ targetedPercentile \in 0..2
    /\ target \in Nat
    /\ before \in Nat
    /\ toRemove \in Seq(Slots)
    /\ nbRemoved \in Nat
    /\ scanStart \in 0..MaxTime

\* clean stops at the first recent item it meets, which is only right if the
\* LRU order is the order of the last requests.  It is, except for the one
\* item that get has moved to the head and not stamped yet.
LruOrderAgreesWithAge ==
    \A pair \in older :
        \/ item[pair[1]].last <= item[pair[2]].last
        \/ pair[2] = handle /\ op \in {"read", "stamp", "copying", "insert", "crashed"}

\* get overwrites the text of an item in place when the new text is not
\* longer.  It is never shorter either, so nothing of the old text is left
\* behind it: every linked item is exactly as long as its last_request needs.
ItemHoldsItsStamp ==
    \A s \in Linked : item[s].width = Width(item[s].last)

\* Between two operations of the generator every allocation is one of the
\* index: an item that clean or insertOrReplace unlinked while get held it is
\* freed, once, when get lets go of it.
NoSlotLeaks ==
    op = "idle" => live = Linked

\* clean divides by the size it read before the removals; the handles that
\* are dropped after it found the cache more than half full cannot bring that
\* size down to zero.
DivisorIsPositive ==
    phase \in {"lock", "scan", "remove", "report"} => before > 0

\* Seconds since the last request of slot s, and whether they are too many:
\* what clean is meant to go by, whatever it reads.
TooOld(s) == 10 * (time - item[s].last) > 11 * target

\* When clean lets go of the LRU lock, every linked item that is too old is in
\* to_remove, but for the one a get is working on.
ScanFindsAllTooOld ==
    [][phase = "scan" /\ phase' = "remove" =>
          \A s \in Linked \ Collected : s = handle \/ ~TooOld(s)]_vars

\* Whatever the generator does between the scan and the removals (refresh,
\* replace, evict, reuse of a slot whose key clean still looks at), clean only
\* takes out items that are too old, that were stored or stamped after it took
\* the LRU lock, or that get or put is writing at this moment: an item that the
\* scan spared and that nobody has used since is safe.
CleanSparesRecentItems ==
    [][\A k \in Keys :
          phase = "remove" /\ nbRemoved' # nbRemoved /\ index[k] # NoSlot /\ index'[k] = NoSlot
          => \/ TooOld(index[k])
             \/ item[index[k]].last >= scanStart
             \/ index[k] = handle /\ op = "copying"
             \/ fresh # NoSlot /\ item[fresh].key = k]_vars

\* The time a reader finds in the entry of each key.
Stamp == [k \in Keys |-> IF index[k] = NoSlot THEN NoSlot ELSE item[index[k]].last]

\* The key that get or put is working for, as the slots it holds tell it.
InUse == IF handle # NoSlot THEN item[handle].key
         ELSE IF fresh # NoSlot THEN item[fresh].key
         ELSE NoSlot

Ages == INSTANCE AgedCache WITH
            Absent <- NoSlot, now <- time, stamp <- Stamp, inUse <- InUse

\* Whatever the two threads do together, a write of get or put only ends up in
\* the entry of the key it is for, with the current time, and when get is over
\* that entry has the current time unless clean took it out; no other step
\* writes an entry, brings an old last_request back, or makes get lose its key.
ImplementsAgedCache == Ages!Spec

---------------------------------------------------------------------------
(* The inductive invariant: the properties above as far as they are state  *)
(* predicates, and what they rest on.                                      *)

\* What the generator thread holds at each point of get and put.
HandlesOK ==
    /\ fresh # NoSlot <=> op = "insert"
    /\ op = "idle" => handle = NoSlot
    /\ op \notin {"idle", "insert"} => handle # NoSlot
    /\ handle # NoSlot => handle \in live
    /\ fresh # NoSlot =>
          /\ fresh \in live \ Linked
          /\ fresh # handle
          /\ item[fresh].last = time
          /\ handle # NoSlot => item[fresh].key = item[handle].key

\* The index and the allocations agree.
IndexOK ==
    /\ \A k \in Keys : index[k] # NoSlot => index[k] \in live /\ item[index[k]].key = k
    /\ live \subseteq Linked \cup {handle, fresh}

\* No allocated item is from the future or of the wrong length.
StampsOK ==
    /\ \A s \in live : item[s].last <= time /\ item[s].width = Width(item[s].last)
    /\ op = "copying" => FitsInPlace(handle)

\* The LRU list holds linked items; the one get is working on is its head.
LruOK ==
    /\ older \subseteq Linked \X Linked
    /\ LruOrderAgreesWithAge
    /\ op \in {"read", "stamp", "copying", "insert", "crashed"} =>
          \A pair \in older : pair[1] # handle

\* clean may take the item of k out.
Removable(k) ==
    \/ index[k] = NoSlot
    \/ TooOld(index[k])
    \/ item[index[k]].last >= scanStart
    \/ index[k] = handle /\ op = "copying"
    \/ fresh # NoSlot /\ item[fresh].key = k

\* The views that clean keeps only lead to items it may take out.
ScanOK ==
    /\ phase \notin {"scan", "remove"} => toRemove = <<>>
    /\ scanStart <= time
    /\ \A i \in 1..Len(toRemove) : Removable(item[toRemove[i]].key)

\* An allocation that get is not about to free keeps the divisor positive.
DivisorOK ==
    /\ phase = "measure" => \E s \in live : s \in Linked \cup {fresh}
    /\ DivisorIsPositive

IInv == /\ TypeOK
        /\ HandlesOK
        /\ IndexOK
        /\ StampsOK
        /\ LruOK
        /\ ScanOK
        /\ DivisorOK

\* Until get has stamped the entry of its key, that entry is the item it holds;
\* afterwards it has the current time.
UsedOK ==
    /\ op \in {"promote", "read", "stamp", "copying"} =>
          index[item[handle].key] \in {handle, NoSlot}
    /\ op = "release" =>
          LET s == index[item[handle].key] IN s # NoSlot => item[s].last = time

---------------------------------------------------------------------------
(* What the code's own comments and reports say, and the code does not do *)

\* "cache may fail to evict due to too many pending writes": a failed
\* allocation is an outcome the process lives with.
AllocationFailureIsHandled == op # "crashed"

\* What is pushed as size_eviction, before - cachesize, is a size: it does not
\* wrap below zero.
SizeEvictionIsASize == phase = "report" => Usage <= before
=============================================================================
