------------------------- MODULE CachecacheProofs -------------------------
(***************************************************************************)
(* Proofs about Cachecache: the inductive invariant IInv, the properties   *)
(* that follow from it, and the refinement of AgedCache.                   *)
(***************************************************************************)
EXTENDS Cachecache, FiniteSetTheorems, TLAPS

---------------------------------------------------------------------------
(* Facts about the operators *)

\* A later time is written with at least as many characters.
LEMMA WidthMonotone ==
    ASSUME NEW t \in Nat, NEW u \in Nat, t <= u
    PROVE  /\ Width(t) \in Nat
           /\ Width(t) <= Width(u)
<1> DEFINE P(v) == {p \in 1..v : \E i \in 1..v : p = Radix^i}
<1>1. /\ IsFiniteSet(P(u))
      /\ IsFiniteSet(P(t))
  <2>1. IsFiniteSet(1..u) /\ IsFiniteSet(1..t)
    BY FS_Interval
  <2>2. QED
    BY <2>1, FS_Subset
<1>2. P(t) \subseteq P(u)
  OBVIOUS
<1>3. /\ Cardinality(P(t)) \in Nat
      /\ Cardinality(P(t)) <= Cardinality(P(u))
      /\ Cardinality(P(u)) \in Nat
  BY <1>1, <1>2, FS_Subset, FS_CardinalityType
<1>4. QED
  BY <1>3 DEF Width

\* A reading of a stamp that nobody is writing is the age of the item.
LEMMA DeltaIsAge ==
    ASSUME time \in 0..MaxTime, NEW last \in Nat, last <= time
    PROVE  Delta(last) = time - last
BY ClockAssumption DEF Delta

\* A set of allocations has a size, positive unless it is empty.
LEMMA UsageIsSize ==
    ASSUME live \subseteq Slots
    PROVE  /\ Usage \in Nat
           /\ live # {} => Usage > 0
           /\ \A x : live \subseteq {x} => Usage <= 1
<1>1. IsFiniteSet(live)
  BY SlotsAssumption, FS_Subset
<1>2. Usage \in Nat /\ (Usage = 0 <=> live = {})
  BY <1>1, FS_CardinalityType, FS_EmptySet DEF Usage
<1>3. ASSUME NEW x, live \subseteq {x} PROVE Usage <= 1
  <2>1. IsFiniteSet({x}) /\ Cardinality({x}) = 1
    BY FS_Singleton
  <2>2. Cardinality(live) <= Cardinality({x})
    BY <1>3, <2>1, FS_Subset
  <2>3. QED
    BY <2>1, <2>2 DEF Usage
<1>4. QED
  BY <1>2, <1>3

LEMMA InitInvariant == Init => IInv
<1> SUFFICES ASSUME Init PROVE IInv
  OBVIOUS
<1>1. Width(0) = 1
  <2>1. 1..0 = {}
    OBVIOUS
  <2>2. {p \in 1..0 : \E i \in 1..0 : p = Radix^i} = {}
    BY <2>1
  <2>3. QED
    BY <2>2, FS_EmptySet DEF Width
<1>2. TypeOK
  BY ClockAssumption, KeyBufferAssumption
  DEF Init, TypeOK, Item, Ops, Phases
<1>3. QED
  BY <1>1, <1>2, SlotsAssumption DEF Init, IInv, HandlesOK, IndexOK, StampsOK, LruOK, ScanOK, DivisorOK,
              LruOrderAgreesWithAge, DivisorIsPositive, Linked

---------------------------------------------------------------------------
(* The steps of the generator thread *)

LEMMA TickInvariant == IInv /\ Tick => IInv'
<1> SUFFICES ASSUME IInv, Tick PROVE IInv'
  OBVIOUS
<1> USE DEF IInv, Tick, pool, generator, cleaner
<1>1. TypeOK'
  BY ClockAssumption DEF TypeOK
<1>2. HandlesOK'
  BY DEF HandlesOK, Linked
<1>3. IndexOK'
  BY DEF IndexOK, Linked
<1>4. StampsOK'
  BY DEF StampsOK, TypeOK, Item
<1>5. LruOK'
  BY DEF LruOK, LruOrderAgreesWithAge, Linked
<1>6. ScanOK'
  <2>1. \A k \in Keys : Removable(k) => Removable(k)'
    BY SlotsAssumption, SMTT(30) DEF Removable, TooOld, TypeOK, Item
  <2>2. ASSUME NEW i \in 1..Len(toRemove) PROVE Removable(item[toRemove[i]].key)'
    <3>1. item[toRemove[i]].key \in Keys
      BY DEF TypeOK, Item
    <3>2. Removable(item[toRemove[i]].key)
      BY DEF ScanOK
    <3>3. item'[toRemove'[i]].key = item[toRemove[i]].key
      OBVIOUS
    <3>4. QED
      BY ONLY <2>1, <3>1, <3>2, <3>3
  <2>3. (scanStart <= time /\ (phase \notin {"scan", "remove"} => toRemove = <<>>))'
    BY DEF ScanOK, TypeOK
  <2>4. QED
    BY <2>2, <2>3 DEF ScanOK
<1>7. DivisorOK'
  BY DEF DivisorOK, DivisorIsPositive, Linked
<1>8. QED
  BY <1>1, <1>2, <1>3, <1>4, <1>5, <1>6, <1>7

LEMMA GetMissInvariant == ASSUME NEW k \in Keys PROVE IInv /\ GetMiss(k) => IInv'
<1> SUFFICES ASSUME IInv, GetMiss(k) PROVE IInv'
  OBVIOUS
<1>1. NextBufferIndex \in 0..(KeyBufferSize - 1)
  BY KeyBufferAssumption DEF NextBufferIndex, IInv, TypeOK
<1>2. TypeOK'
  BY <1>1 DEF IInv, TypeOK, GetMiss, pool, cleaner
<1>3. QED
  BY <1>2 DEF IInv, GetMiss, pool, cleaner, HandlesOK, IndexOK, StampsOK, LruOK,
              ScanOK, DivisorOK, LruOrderAgreesWithAge, DivisorIsPositive, Linked,
              FitsInPlace, Removable, TooOld

LEMMA GetHitInvariant == ASSUME NEW k \in Keys PROVE IInv /\ GetHit(k) => IInv'
<1> SUFFICES ASSUME IInv, GetHit(k) PROVE IInv'
  OBVIOUS
<1> USE DEF IInv, GetHit, pool, cleaner
<1>1. TypeOK'
  BY DEF TypeOK, Ops
<1>2. HandlesOK'
  BY SlotsAssumption DEF TypeOK, HandlesOK, IndexOK, Linked
<1>3. IndexOK'
  BY DEF IndexOK, HandlesOK, TypeOK, Linked
<1>4. StampsOK'
  BY DEF StampsOK
<1>5. LruOK'
  BY DEF LruOK, LruOrderAgreesWithAge, Linked, HandlesOK
<1>6. ScanOK'
  BY DEF ScanOK, Removable, TooOld
<1>7. DivisorOK'
  BY DEF DivisorOK, DivisorIsPositive, Linked
<1>8. QED
  BY <1>1, <1>2, <1>3, <1>4, <1>5, <1>6, <1>7

\* What an allocation does to the pool: s leaves the index and the list if it
\* was evicted, and nothing else changes but the bytes of s.
LEMMA AllocateEffect ==
    ASSUME IInv, NEW k \in Keys, NEW s \in Slots, Allocate(k, s)
    PROVE  /\ s # handle
           /\ live' = live \cup {s}
           /\ \A j \in Keys : index'[j] # NoSlot => index'[j] = index[j] /\ index'[j] # s
           /\ index' \in [Keys -> Slots \cup {NoSlot}]
           /\ Linked' = Linked \ {s}
           /\ \A pair \in older' : pair \in older /\ pair[1] # s /\ pair[2] # s
           /\ \A t \in Slots \ {s} : item'[t] = item[t]
           /\ item'[s] = [key |-> k, last |-> time, width |-> Width(time)]
           /\ fresh' = s
<1> USE DEF IInv
<1>1. /\ \A t \in Slots \ {s} : item'[t] = item[t]
      /\ item'[s] = [key |-> k, last |-> time, width |-> Width(time)]
      /\ fresh' = s
  BY DEF Allocate, TypeOK
<1>2. Linked \subseteq live
  BY SlotsAssumption DEF IndexOK, Linked
<1>3. CASE TakeFree(s)
  <2>1. s \notin Linked /\ s # handle
    BY <1>2, <1>3, SlotsAssumption DEF TakeFree, HandlesOK
  <2>2. \A pair \in older : pair[1] # s /\ pair[2] # s
    BY <2>1 DEF LruOK
  <2>3. Linked' = Linked
    BY <1>3 DEF TakeFree, Linked
  <2>4. \A j \in Keys : index[j] # s
    BY <2>1 DEF Linked
  <2>5. QED
    BY <1>1, <1>3, <2>1, <2>2, <2>3, <2>4 DEF TakeFree, TypeOK
<1>4. CASE Evict(s)
  <2>1. s \in Linked \ {handle}
    BY <1>4 DEF Evict, IsOldest, Evictable
  <2>2. s \in live
    BY <1>2, <2>1
  <2>3. \A j \in Keys : index'[j] = IF index[j] = s THEN NoSlot ELSE index[j]
    BY <1>4 DEF Evict
  <2>4. index' \in [Keys -> Slots \cup {NoSlot}]
    BY <1>4 DEF Evict, TypeOK
  <2>5. Linked' = Linked \ {s}
    BY <2>3, SlotsAssumption DEF Linked
  <2>6. \A pair \in older' : pair \in older /\ pair[1] # s /\ pair[2] # s
    BY <1>4 DEF Evict, Unlink
  <2>7. live' = live \cup {s}
    BY <1>4, <2>2 DEF Evict
  <2>8. QED
    BY <1>1, <2>1, <2>3, <2>4, <2>5, <2>6, <2>7
<1>5. QED
  BY <1>3, <1>4 DEF Allocate

\* Both put and get may allocate: put for its key, holding nothing, and get
\* for the key of the item it holds.
LEMMA AllocateInvariant ==
    ASSUME IInv, NEW k \in Keys, NEW s \in Slots, Allocate(k, s),
           op \in {"idle", "stamp"}, op' = "insert",
           handle # NoSlot => k = item[handle].key,
           UNCHANGED <<time, handle, keyBufferIndex, samples, cleaner>>
    PROVE  IInv'
<1> USE DEF IInv, cleaner
<1>1. /\ s # handle
      /\ live' = live \cup {s}
      /\ \A j \in Keys : index'[j] # NoSlot => index'[j] = index[j] /\ index'[j] # s
      /\ index' \in [Keys -> Slots \cup {NoSlot}]
      /\ Linked' = Linked \ {s}
      /\ \A pair \in older' : pair \in older /\ pair[1] # s /\ pair[2] # s
      /\ \A t \in Slots \ {s} : item'[t] = item[t]
      /\ item'[s] = [key |-> k, last |-> time, width |-> Width(time)]
      /\ fresh' = s
  BY AllocateEffect
<1>2. time \in Nat /\ Width(time) \in Nat /\ s # NoSlot
  BY WidthMonotone, SlotsAssumption DEF TypeOK
<1>3. fresh = NoSlot
  BY DEF HandlesOK
<1>4. TypeOK'
  <2>1. item' \in [Slots -> Item]
    BY <1>2 DEF TypeOK, Item, Allocate
  <2>2. older' \subseteq Slots \X Slots
    BY <1>1 DEF TypeOK
  <2>3. QED
    BY <1>1, <2>1, <2>2 DEF TypeOK, Ops
<1>5. HandlesOK'
  <2>1. handle # NoSlot => handle \in Slots \ {s}
    BY <1>1 DEF TypeOK
  <2>2. handle # NoSlot => item'[handle] = item[handle]
    BY <1>1, <2>1
  <2>3. QED
    BY <1>1, <1>2, <2>2 DEF HandlesOK
<1>6. IndexOK'
  <2>1. \A j \in Keys : index'[j] # NoSlot => index'[j] \in live' /\ item'[index'[j]].key = j
    BY <1>1 DEF IndexOK, TypeOK
  <2>2. live' \subseteq Linked' \cup {handle', fresh'}
    BY <1>1, <1>3, SlotsAssumption DEF IndexOK, TypeOK
  <2>3. QED
    BY <2>1, <2>2 DEF IndexOK
<1>7. StampsOK'
  BY <1>1, <1>2 DEF StampsOK, TypeOK
<1>8. LruOK'
  <2>1. older' \subseteq Linked' \X Linked'
    BY <1>1 DEF LruOK
  <2>2. LruOrderAgreesWithAge'
    BY <1>1 DEF LruOK, LruOrderAgreesWithAge, TypeOK
  <2>3. \A pair \in older' : pair[1] # handle
    BY <1>1, SlotsAssumption DEF LruOK, HandlesOK, TypeOK
  <2>4. QED
    BY <2>1, <2>2, <2>3 DEF LruOK
<1>9. ScanOK'
  <2>1. ASSUME NEW j \in Keys, Removable(j) PROVE Removable(j)'
    <3>1. index'[j] # NoSlot => index'[j] = index[j] /\ item'[index[j]] = item[index[j]]
      BY <1>1 DEF TypeOK
    <3>2. QED
      BY <1>3, <2>1, <3>1, SMTT(30) DEF Removable, TooOld
  <2>2. ASSUME NEW i \in 1..Len(toRemove) PROVE Removable(item[toRemove[i]].key)'
    <3>1. toRemove[i] \in Slots /\ item[toRemove[i]].key \in Keys
      BY SMTT(30) DEF TypeOK, Item
    <3>2. CASE toRemove[i] = s
      BY <1>1, <1>2, <3>2 DEF Removable
    <3>3. CASE toRemove[i] # s
      <4>1. Removable(item[toRemove[i]].key)
        BY DEF ScanOK
      <4>2. item'[toRemove'[i]] = item[toRemove[i]]
        BY <1>1, <3>1, <3>3
      <4>3. QED
        BY <2>1, <3>1, <4>1, <4>2
    <3>4. QED
      BY <3>2, <3>3
  <2>3. QED
    BY <2>2 DEF ScanOK
<1>10. DivisorOK'
  BY <1>1 DEF DivisorOK, DivisorIsPositive
<1>11. QED
  BY <1>4, <1>5, <1>6, <1>7, <1>8, <1>9, <1>10

LEMMA PutAllocateInvariant == ASSUME NEW k \in Keys PROVE IInv /\ PutAllocate(k) => IInv'
<1> SUFFICES ASSUME IInv, PutAllocate(k) PROVE IInv'
  OBVIOUS
<1>1. PICK s \in Slots : Allocate(k, s)
  BY DEF PutAllocate
<1>2. handle = NoSlot
  BY DEF PutAllocate, IInv, HandlesOK
<1>3. QED
  BY <1>1, <1>2, AllocateInvariant DEF PutAllocate

LEMMA GetReallocateInvariant == IInv /\ GetReallocate => IInv'
<1> SUFFICES ASSUME IInv, GetReallocate PROVE IInv'
  OBVIOUS
<1>1. PICK s \in Slots : Allocate(item[handle].key, s)
  BY DEF GetReallocate
<1>2. item[handle].key \in Keys
  BY DEF GetReallocate, IInv, HandlesOK, TypeOK, Item
<1>3. QED
  BY <1>1, <1>2, AllocateInvariant DEF GetReallocate

LEMMA GetPromoteInvariant == IInv /\ GetPromote => IInv'
<1> SUFFICES ASSUME IInv, GetPromote PROVE IInv'
  OBVIOUS
<1> USE DEF IInv, GetPromote, cleaner
<1>1. \A pair \in older' : /\ pair \in Linked \X Linked
                           /\ pair[1] # handle
                           /\ pair \in older \/ pair[2] = handle
  <2>1. CASE handle \in Linked
    BY <2>1 DEF Promoted, LruOK
  <2>2. CASE handle \notin Linked
    BY <2>2 DEF LruOK
  <2>3. QED
    BY <2>1, <2>2
<1>2. TypeOK'
  <2>1. Linked \subseteq Slots
    BY DEF Linked
  <2>2. QED
    BY <1>1, <2>1 DEF TypeOK, Ops
<1>3. HandlesOK'
  BY DEF HandlesOK, Linked
<1>4. IndexOK'
  BY DEF IndexOK, Linked
<1>5. StampsOK'
  BY DEF StampsOK
<1>6. LruOK'
  <2>1. LruOrderAgreesWithAge'
    BY <1>1 DEF LruOK, LruOrderAgreesWithAge
  <2>2. Linked' = Linked
    BY DEF Linked
  <2>3. QED
    BY <1>1, <2>1, <2>2 DEF LruOK
<1>7. ScanOK'
  BY DEF ScanOK, Removable, TooOld
<1>8. DivisorOK'
  BY DEF DivisorOK, DivisorIsPositive, Linked
<1>9. QED
  BY <1>2, <1>3, <1>4, <1>5, <1>6, <1>7, <1>8

\* The steps of get that only move the thread on.
LEMMA GetMovesInvariant == IInv /\ (GetRead \/ GetStamp \/ GetNullHandle) => IInv'
<1> SUFFICES ASSUME IInv, GetRead \/ GetStamp \/ GetNullHandle PROVE IInv'
  OBVIOUS
<1> USE DEF IInv
<1>1. /\ UNCHANGED <<item, live, index, older, time, handle, fresh, keyBufferIndex>>
      /\ UNCHANGED cleaner
      /\ samples' \in 0..3
      /\ \/ op = "read" /\ op' = "stamp"
         \/ op = "stamp" /\ op' = "copying" /\ FitsInPlace(handle)
         \/ op = "stamp" /\ op' = "crashed"
  BY DEF GetRead, GetStamp, GetNullHandle, pool, TypeOK
<1>2. TypeOK'
  BY <1>1 DEF TypeOK, Ops, cleaner
<1>3. HandlesOK'
  BY <1>1 DEF HandlesOK, Linked
<1>4. IndexOK'
  BY <1>1 DEF IndexOK, Linked
<1>5. StampsOK'
  BY <1>1 DEF StampsOK, FitsInPlace
<1>6. LruOK'
  BY <1>1 DEF LruOK, LruOrderAgreesWithAge, Linked
<1>7. ScanOK'
  BY <1>1 DEF ScanOK, Removable, TooOld, cleaner
<1>8. DivisorOK'
  BY <1>1 DEF DivisorOK, DivisorIsPositive, Linked, cleaner
<1>9. QED
  BY <1>2, <1>3, <1>4, <1>5, <1>6, <1>7, <1>8

\* The text fits because it has exactly as many characters as the old one.
LEMMA GetCopiedInvariant == IInv /\ GetCopied => IInv'
<1> SUFFICES ASSUME IInv, GetCopied PROVE IInv'
  OBVIOUS
<1> USE DEF IInv, GetCopied, pool, cleaner
<1>1. /\ handle \in Slots
      /\ handle \in live
  BY DEF HandlesOK, TypeOK
<1>2. /\ item'[handle] = [item[handle] EXCEPT !.last = time]
      /\ \A t \in Slots \ {handle} : item'[t] = item[t]
      /\ \A t \in Slots : item'[t].key = item[t].key /\ item'[t].width = item[t].width
      /\ item'[handle].last = time
  BY <1>1 DEF TypeOK, Item
<1>3. item[handle].width = Width(time)
  <2>1. /\ item[handle].last \in Nat
        /\ item[handle].last <= time
        /\ item[handle].width = Width(item[handle].last)
        /\ item[handle].width >= Width(time)
    BY <1>1, SMTT(30) DEF StampsOK, FitsInPlace, TypeOK, Item
  <2>2. /\ Width(item[handle].last) <= Width(time)
        /\ Width(item[handle].last) \in Nat
        /\ Width(time) \in Nat
    BY <2>1, WidthMonotone DEF TypeOK
  <2>3. QED
    BY <2>1, <2>2
<1>4. TypeOK'
  <2>1. \A t \in Slots : item'[t] \in Item
    BY <1>1, <1>2, SMTT(30) DEF TypeOK, Item
  <2>2. item' \in [Slots -> Item]
    BY <2>1 DEF TypeOK
  <2>3. QED
    BY <2>2 DEF TypeOK, Ops
<1>5. HandlesOK'
  BY DEF HandlesOK, Linked
<1>6. IndexOK'
  BY <1>2 DEF IndexOK, Linked, TypeOK
<1>7. StampsOK'
  <2>1. \A t \in live : item'[t].last <= time /\ item'[t].width = Width(item'[t].last)
    BY <1>1, <1>2, <1>3 DEF StampsOK, TypeOK
  <2>2. QED
    BY <2>1 DEF StampsOK, Width
<1>8. LruOK'
  <2>1. \A s \in Linked : s \in live /\ item[s].last <= time
    BY SlotsAssumption DEF Linked, IndexOK, StampsOK
  <2>2. LruOrderAgreesWithAge'
    BY <1>1, <1>2, <2>1 DEF LruOK, LruOrderAgreesWithAge, TypeOK
  <2>3. Linked' = Linked
    BY DEF Linked
  <2>4. QED
    BY <2>2, <2>3 DEF LruOK
<1>9. ScanOK'
  <2>1. ASSUME NEW j \in Keys, Removable(j) PROVE Removable(j)'
    <3>1. CASE index[j] = handle
      BY <1>2, <3>1 DEF Removable, ScanOK
    <3>2. CASE index[j] # handle
      BY <1>2, <2>1, <3>2, SMTT(30) DEF Removable, TooOld, HandlesOK, TypeOK
    <3>3. QED
      BY <3>1, <3>2
  <2>2. ASSUME NEW i \in 1..Len(toRemove) PROVE Removable(item[toRemove[i]].key)'
    <3>1. toRemove[i] \in Slots /\ item[toRemove[i]].key \in Keys
      BY SMTT(30) DEF TypeOK, Item
    <3>2. item'[toRemove'[i]].key = item[toRemove[i]].key
      BY <1>2, <3>1
    <3>3. Removable(item[toRemove[i]].key)
      BY DEF ScanOK
    <3>4. QED
      BY <2>1, <3>1, <3>2, <3>3
  <2>3. QED
    BY <2>2 DEF ScanOK
<1>10. DivisorOK'
  BY DEF DivisorOK, DivisorIsPositive, Linked
<1>11. QED
  BY <1>4, <1>5, <1>6, <1>7, <1>8, <1>9, <1>10

LEMMA GetReleaseInvariant == IInv /\ GetRelease => IInv'
<1> SUFFICES ASSUME IInv, GetRelease PROVE IInv'
  OBVIOUS
<1> USE DEF IInv, GetRelease, cleaner
<1>1. Linked' = Linked /\ fresh = NoSlot
  BY DEF Linked, HandlesOK
<1>2. TypeOK'
  BY DEF TypeOK, Ops
<1>3. HandlesOK'
  BY <1>1 DEF HandlesOK
<1>4. IndexOK'
  <2>1. \A k \in Keys : index[k] # NoSlot => index[k] \in live'
    BY DEF IndexOK, Linked, TypeOK
  <2>2. live' \subseteq Linked \cup {NoSlot}
    BY <1>1 DEF IndexOK
  <2>3. QED
    BY <1>1, <2>1, <2>2 DEF IndexOK
<1>5. StampsOK'
  BY DEF StampsOK
<1>6. LruOK'
  BY <1>1 DEF LruOK, LruOrderAgreesWithAge
<1>7. ScanOK'
  BY DEF ScanOK, Removable, TooOld
<1>8. DivisorOK'
  BY <1>1, SlotsAssumption DEF DivisorOK, DivisorIsPositive, TypeOK
<1>9. QED
  BY <1>2, <1>3, <1>4, <1>5, <1>6, <1>7, <1>8

\* insertOrReplace: the item that get still holds is the one it replaces, if
\* that item is linked at all.
LEMMA InsertInvariant == IInv /\ Insert => IInv'
<1> SUFFICES ASSUME IInv, Insert PROVE IInv'
  OBVIOUS
<1> DEFINE k == item[fresh].key
           old == index[k]
<1> USE DEF IInv, cleaner
<1>1. /\ op = "insert" /\ fresh \in Slots /\ fresh # NoSlot /\ k \in Keys
      /\ fresh \in live /\ fresh \notin Linked /\ fresh # handle
      /\ item[fresh].last = time /\ time \in Nat
      /\ handle # NoSlot => k = item[handle].key
  BY DEF Insert, HandlesOK, TypeOK, Item
<1>2. /\ index' = [index EXCEPT ![k] = fresh]
      /\ older' = Promoted(fresh, old)
      /\ live' = IF old = handle THEN live ELSE live \ {old}
      /\ fresh' = NoSlot
      /\ op' = IF handle = NoSlot THEN "idle" ELSE "release"
      /\ UNCHANGED <<item, time, handle, keyBufferIndex, samples, cleaner>>
  BY DEF Insert
<1>3. /\ index'[k] = fresh
      /\ \A j \in Keys \ {k} : index'[j] = index[j]
      /\ index' \in [Keys -> Slots \cup {NoSlot}]
  BY <1>1, <1>2 DEF TypeOK
<1>4. /\ old # fresh
      /\ \A j \in Keys \ {k} : index[j] # NoSlot => index[j] # old
  BY <1>1 DEF IndexOK, Linked, TypeOK
<1>5. Linked' = (Linked \ {old}) \cup {fresh}
  BY <1>1, <1>3, <1>4, SlotsAssumption DEF Linked
<1>6. Linked \subseteq live /\ Linked \subseteq Slots
  BY SlotsAssumption DEF Linked, IndexOK
<1>7. handle # NoSlot /\ handle \in Linked => handle = old
  BY <1>1 DEF Linked, IndexOK
<1>8. \A pair \in older' : /\ pair \in Linked' \X Linked'
                           /\ item[pair[1]].last <= item[pair[2]].last
  <2>1. ASSUME NEW pair \in older, old \notin {pair[1], pair[2]}
        PROVE  /\ pair \in Linked' \X Linked'
               /\ item[pair[1]].last <= item[pair[2]].last
    <3>1. pair \in Linked \X Linked
      BY DEF LruOK
    <3>2. pair[2] # handle
      BY <1>6, <1>7, <2>1, <3>1, SlotsAssumption
    <3>3. QED
      BY <1>5, <2>1, <3>1, <3>2 DEF LruOK, LruOrderAgreesWithAge
  <2>2. ASSUME NEW t \in Linked \ {fresh, old}
        PROVE  /\ <<t, fresh>> \in Linked' \X Linked'
               /\ item[t].last <= item[fresh].last
    BY <1>1, <1>5, <1>6, <2>2 DEF StampsOK
  <2>3. QED
    BY <1>2, <2>1, <2>2 DEF Promoted
<1>9. TypeOK'
  BY <1>1, <1>2, <1>3, <1>6, <1>8, <1>5 DEF TypeOK, Ops
<1>10. HandlesOK'
  BY <1>1, <1>2 DEF HandlesOK
<1>11. IndexOK'
  <2>1. \A j \in Keys : index'[j] # NoSlot => index'[j] \in live' /\ item'[index'[j]].key = j
    BY <1>1, <1>2, <1>3, <1>4 DEF IndexOK
  <2>2. live' \subseteq Linked' \cup {handle', fresh'}
    BY <1>1, <1>2, <1>5 DEF IndexOK
  <2>3. QED
    BY <2>1, <2>2 DEF IndexOK
<1>12. StampsOK'
  BY <1>2 DEF StampsOK, Width
<1>13. LruOK'
  BY <1>2, <1>8 DEF LruOK, LruOrderAgreesWithAge
<1>14. ScanOK'
  <2>1. ASSUME NEW j \in Keys, Removable(j) PROVE Removable(j)'
    <3>1. CASE j = k
      BY <1>1, <1>2, <1>3, <3>1 DEF Removable, ScanOK
    <3>2. CASE j # k
      BY <1>1, <1>2, <1>3, <2>1, <3>2 DEF Removable, TooOld
    <3>3. QED
      BY <3>1, <3>2
  <2>2. QED
    BY <1>2, <2>1 DEF ScanOK, TypeOK, Item
<1>15. DivisorOK'
  BY <1>1, <1>2, <1>4, <1>5 DEF DivisorOK, DivisorIsPositive
<1>16. QED
  BY <1>9, <1>10, <1>11, <1>12, <1>13, <1>14, <1>15

---------------------------------------------------------------------------
(* The steps of the supervisor thread *)

\* The steps of clean that touch neither the pool nor to_remove; the usage
\* that clean decides on is of two allocations at least, and get can only be
\* about to free one.
LEMMA CleanMovesInvariant ==
    IInv /\ (CleanDecide \/ CleanMeasure \/ CleanLock \/ CleanStop \/ CleanRemoved \/ CleanReport)
    => IInv'
<1> SUFFICES ASSUME IInv, CleanDecide \/ CleanMeasure \/ CleanLock
                          \/ CleanStop \/ CleanRemoved \/ CleanReport
             PROVE  IInv'
  OBVIOUS
<1> USE DEF IInv, In
<1>1. UNCHANGED <<item, pool, time, generator, toRemove>>
  BY DEF CleanDecide, CleanMeasure, CleanLock, CleanStop, CleanRemoved, CleanReport
<1>2. live \subseteq Slots /\ Usage \in Nat
  BY UsageIsSize DEF TypeOK
<1>3. phase' = "measure" => \E s \in live : s \in Linked \cup {fresh}
  <2>1. ASSUME ~(\E s \in live : s \in Linked \cup {fresh}) PROVE live \subseteq {handle}
    BY <2>1 DEF IndexOK
  <2>2. ASSUME CleanDecide, phase' = "measure" PROVE Usage > 1
    BY <1>2, <2>2, RequestedAssumption DEF CleanDecide
  <2>3. ASSUME CleanDecide, phase' = "measure" PROVE ~(live \subseteq {handle})
    BY <1>2, <2>2, <2>3, UsageIsSize
  <2>4. QED
    BY <2>1, <2>3 DEF CleanDecide, CleanMeasure, CleanLock, CleanStop, CleanRemoved, CleanReport,
                      DivisorOK
<1>4. TypeOK'
  <2>1. targetedPercentile' \in 0..2 /\ calibrating' \in BOOLEAN
    <3>1. CASE CleanDecide
      <4>1. TargetedPercentile(Usage) \in {0, 1}
        BY DEF TargetedPercentile
      <4>2. targetedPercentile' \in {targetedPercentile, TargetedPercentile(Usage)}
        BY <3>1 DEF CleanDecide
      <4>3. calibrating' \in BOOLEAN
        BY <3>1 DEF CleanDecide
      <4>4. QED
        BY <4>1, <4>2, <4>3 DEF TypeOK
    <3>2. CASE ~CleanDecide
      <4>1. UNCHANGED <<targetedPercentile, calibrating>>
        BY <3>2 DEF CleanMeasure, CleanLock, CleanStop, CleanRemoved, CleanReport
      <4>2. QED
        BY <4>1 DEF TypeOK
    <3>3. QED
      BY <3>1, <3>2
  <2>2. target' \in Nat /\ before' \in Nat
    BY <1>2, EstimatesAssumption
    DEF CleanDecide, CleanMeasure, CleanLock, CleanStop, CleanRemoved, CleanReport, TypeOK
  <2>3. phase' \in Phases /\ nbRemoved' \in Nat /\ scanStart' \in 0..MaxTime
    BY DEF CleanDecide, CleanMeasure, CleanLock, CleanStop, CleanRemoved, CleanReport,
           TypeOK, Phases
  <2>4. QED
    BY <1>1, <2>1, <2>2, <2>3 DEF TypeOK, pool, generator
<1>5. HandlesOK'
  BY <1>1 DEF HandlesOK, Linked, pool, generator
<1>6. IndexOK'
  BY <1>1 DEF IndexOK, Linked, pool, generator
<1>7. StampsOK'
  BY <1>1 DEF StampsOK, FitsInPlace, Width, pool, generator
<1>8. LruOK'
  BY <1>1 DEF LruOK, LruOrderAgreesWithAge, Linked, pool, generator
<1>9. ScanOK'
  <2>1. CASE CleanStop \/ CleanRemoved
    BY <1>1, <2>1 DEF CleanStop, CleanRemoved, ScanOK, Removable, TooOld, pool, generator
  <2>2. CASE CleanDecide \/ CleanMeasure \/ CleanLock \/ CleanReport
    <3>1. toRemove' = <<>>
      BY <1>1, <2>2 DEF CleanDecide, CleanMeasure, CleanLock, CleanReport, ScanOK
    <3>2. scanStart' <= time'
      BY <1>1, <2>2 DEF CleanDecide, CleanMeasure, CleanLock, CleanReport, ScanOK, TypeOK
    <3>3. QED
      BY <3>1, <3>2 DEF ScanOK
  <2>3. QED
    BY <2>1, <2>2
<1>10. DivisorOK'
  <2>1. DivisorIsPositive'
    <3>1. CASE CleanMeasure
      BY <3>1, <1>2, UsageIsSize DEF CleanMeasure, DivisorIsPositive, DivisorOK
    <3>2. CASE ~CleanMeasure
      BY <3>2 DEF CleanDecide, CleanLock, CleanStop, CleanRemoved, CleanReport,
                  DivisorIsPositive, DivisorOK
    <3>3. QED
      BY <3>1, <3>2
  <2>2. phase' = "measure" => \E s \in live' : s \in Linked' \cup {fresh'}
    BY <1>1, <1>3 DEF Linked, pool, generator
  <2>3. QED
    BY <2>1, <2>2 DEF DivisorOK
<1>11. QED
  BY <1>4, <1>5, <1>6, <1>7, <1>8, <1>9, <1>10

\* The item that clean collects is too old, unless get is writing to it.
LEMMA CleanCollectInvariant == ASSUME NEW s \in Slots PROVE IInv /\ CleanCollect(s) => IInv'
<1> SUFFICES ASSUME IInv, CleanCollect(s) PROVE IInv'
  OBVIOUS
<1> USE DEF IInv, CleanCollect, pool, generator
<1>1. s \in Linked
  BY DEF IsOldest
<1>2. /\ item[s].key \in Keys
      /\ index[item[s].key] = s
      /\ item[s].last \in Nat /\ item[s].last <= time
  BY <1>1, SlotsAssumption DEF Linked, IndexOK, StampsOK, TypeOK, Item
<1>3. Removable(item[s].key)
  <2>1. CASE op = "copying" /\ s = handle
    BY <1>2, <2>1 DEF Removable
  <2>2. CASE ~(op = "copying" /\ s = handle)
    <3>1. Expired(item[s].last)
      BY <2>2 DEF ReadLast
    <3>2. Delta(item[s].last) = time - item[s].last
      BY <1>2, DeltaIsAge DEF TypeOK
    <3>3. QED
      BY <1>2, <3>1, <3>2 DEF Expired, Removable, TooOld
  <2>3. QED
    BY <2>1, <2>2
<1>4. TypeOK'
  BY DEF TypeOK
<1>5. HandlesOK'
  BY DEF HandlesOK, Linked
<1>6. IndexOK'
  BY DEF IndexOK, Linked
<1>7. StampsOK'
  BY DEF StampsOK, FitsInPlace, Width
<1>8. LruOK'
  BY DEF LruOK, LruOrderAgreesWithAge, Linked
<1>9. ScanOK'
  <2>0. toRemove \in Seq(Slots) /\ toRemove' = Append(toRemove, s)
    BY DEF TypeOK
  <2>1. \A i \in 1..Len(toRemove') : toRemove'[i] = s \/ (i \in 1..Len(toRemove) /\ toRemove'[i] = toRemove[i])
    BY <2>0
  <2>2. ASSUME NEW i \in 1..Len(toRemove') PROVE Removable(item[toRemove'[i]].key)
    BY <1>3, <2>1 DEF ScanOK
  <2>3. \A j : Removable(j)' = Removable(j)
    BY DEF Removable, TooOld
  <2>4. QED
    BY <2>2, <2>3 DEF ScanOK, In
<1>10. DivisorOK'
  BY DEF DivisorOK, DivisorIsPositive, In
<1>11. QED
  BY <1>4, <1>5, <1>6, <1>7, <1>8, <1>9, <1>10

\* A removal takes at most one linked item out, and clean keeps no view that
\* leads to one it must not take.
LEMMA CleanRemoveInvariant == IInv /\ CleanRemove => IInv'
<1> SUFFICES ASSUME IInv, CleanRemove PROVE IInv'
  OBVIOUS
<1> DEFINE k == item[Head(toRemove)].key
           s == index[k]
<1> USE DEF IInv, generator
<1>1. /\ phase = "remove" /\ toRemove # <<>>
      /\ index' = [index EXCEPT ![k] = NoSlot]
      /\ older' = Unlink(s)
      /\ live' = IF s = handle THEN live ELSE live \ {s}
      /\ toRemove' = Tail(toRemove)
      /\ nbRemoved' = nbRemoved + 1
      /\ UNCHANGED <<item, time, generator, phase, calibrating,
                     targetedPercentile, target, before, scanStart>>
  BY DEF CleanRemove, In
<1>2. k \in Keys
  BY <1>1 DEF TypeOK, Item
<1>3. /\ \A j \in Keys : index'[j] = IF j = k THEN NoSlot ELSE index[j]
      /\ index' \in [Keys -> Slots \cup {NoSlot}]
  BY <1>1, <1>2 DEF TypeOK
<1>4. \A j \in Keys \ {k} : index[j] # NoSlot => index[j] # s
  BY <1>2 DEF IndexOK
<1>5. Linked' = Linked \ {s}
  BY <1>2, <1>3, <1>4, SlotsAssumption DEF Linked
<1>6. \A pair \in older' : pair \in older /\ pair[1] # s /\ pair[2] # s
  BY <1>1 DEF Unlink
<1>7. TypeOK'
  BY <1>1, <1>3, <1>6 DEF TypeOK
<1>8. HandlesOK'
  <2>1. fresh # NoSlot => fresh # s
    BY <1>2 DEF HandlesOK, Linked, TypeOK
  <2>2. QED
    BY <1>1, <1>5, <2>1 DEF HandlesOK
<1>9. IndexOK'
  <2>1. \A j \in Keys : index'[j] # NoSlot => index'[j] \in live' /\ item'[index'[j]].key = j
    BY <1>1, <1>3, <1>4 DEF IndexOK
  <2>2. live' \subseteq Linked' \cup {handle', fresh'}
    BY <1>1, <1>5 DEF IndexOK
  <2>3. QED
    BY <2>1, <2>2 DEF IndexOK
<1>10. StampsOK'
  BY <1>1 DEF StampsOK, FitsInPlace, Width
<1>11. LruOK'
  <2>1. older' \subseteq Linked' \X Linked'
    BY <1>5, <1>6 DEF LruOK
  <2>2. QED
    BY <1>1, <1>6, <2>1 DEF LruOK, LruOrderAgreesWithAge
<1>12. ScanOK'
  <2>1. ASSUME NEW j \in Keys, Removable(j) PROVE Removable(j)'
    BY <1>1, <1>3, <2>1, SMTT(30) DEF Removable, TooOld
  <2>2. \A i \in 1..Len(toRemove') : i + 1 \in 1..Len(toRemove) /\ toRemove'[i] = toRemove[i + 1]
    BY <1>1 DEF TypeOK
  <2>3. ASSUME NEW i \in 1..Len(toRemove') PROVE Removable(item[toRemove[i]].key)'
    <3>1. i + 1 \in 1..Len(toRemove) /\ toRemove'[i] = toRemove[i + 1]
      BY <2>2
    <3>2. toRemove[i + 1] \in Slots /\ item[toRemove[i + 1]].key \in Keys
      BY <3>1 DEF TypeOK, Item
    <3>3. Removable(item[toRemove[i + 1]].key)
      BY <3>1 DEF ScanOK
    <3>4. QED
      BY <1>1, <2>1, <3>1, <3>2, <3>3
  <2>4. QED
    BY <1>1, <2>3 DEF ScanOK
<1>13. DivisorOK'
  BY <1>1 DEF DivisorOK, DivisorIsPositive
<1>14. QED
  BY <1>7, <1>8, <1>9, <1>10, <1>11, <1>12, <1>13

LEMMA UnchangedInvariant == IInv /\ UNCHANGED vars => IInv'
<1> SUFFICES ASSUME IInv, UNCHANGED vars PROVE IInv'
  OBVIOUS
<1> USE DEF vars, IInv
<1>1. TypeOK'
  BY DEF TypeOK
<1>2. HandlesOK' /\ IndexOK'
  BY DEF HandlesOK, IndexOK, Linked
<1>3. StampsOK'
  BY DEF StampsOK, FitsInPlace, Width
<1>4. LruOK'
  BY DEF LruOK, LruOrderAgreesWithAge, Linked
<1>5. ScanOK'
  BY DEF ScanOK, Removable, TooOld
<1>6. DivisorOK'
  BY DEF DivisorOK, DivisorIsPositive, Linked
<1> QED
  BY <1>1, <1>2, <1>3, <1>4, <1>5, <1>6

---------------------------------------------------------------------------
(* The theorems *)

LEMMA NextInvariant == IInv /\ [Next]_vars => IInv'
<1> SUFFICES ASSUME IInv, [Next]_vars PROVE IInv'
  OBVIOUS
<1>1. CASE Tick
  BY <1>1, TickInvariant
<1>2. CASE \E k \in Keys : GetMiss(k) \/ GetHit(k) \/ PutAllocate(k)
  BY <1>2, GetMissInvariant, GetHitInvariant, PutAllocateInvariant
<1>3. CASE GeneratorStep
  BY <1>3, GetPromoteInvariant, GetMovesInvariant, GetCopiedInvariant, GetReallocateInvariant,
     InsertInvariant, GetReleaseInvariant DEF GeneratorStep
<1>4. CASE CleanDecide \/ CleanStep
  BY <1>4, CleanMovesInvariant, CleanCollectInvariant, CleanRemoveInvariant DEF CleanStep
<1>5. CASE PutFails \/ Dead \/ UNCHANGED vars
  BY <1>5, UnchangedInvariant DEF PutFails, Dead
<1>6. QED
  BY <1>1, <1>2, <1>3, <1>4, <1>5 DEF Next

\* The invariant the other theorems rest on: the threads of cachecache.cc never
\* leave it, for any set of keys, size of the pool and estimates.
THEOREM Invariance == Spec => []IInv
<1>1. QED
  BY InitInvariant, NextInvariant, PTL DEF Spec

\* Every variable of the cache stays in its range, _key_buffer_index included.
THEOREM TypeCorrectness == Spec => []TypeOK
<1>1. IInv => TypeOK
  BY DEF IInv
<1>2. QED
  BY <1>1, Invariance, PTL

\* The LRU list that clean scans from its tail is ordered by last_request, but
\* for the item that get is stamping.
THEOREM LruOrder == Spec => []LruOrderAgreesWithAge
<1>1. IInv => LruOrderAgreesWithAge
  BY DEF IInv, LruOK
<1>2. QED
  BY <1>1, Invariance, PTL

\* The text that get writes in place is exactly as long as the one it
\* overwrites.
THEOREM StampsFit == Spec => []ItemHoldsItsStamp
<1>1. IInv => ItemHoldsItsStamp
  BY SlotsAssumption DEF IInv, ItemHoldsItsStamp, StampsOK, IndexOK, Linked
<1>2. QED
  BY <1>1, Invariance, PTL

\* No allocation outlives its place in the index and the handle of get.
THEOREM NoLeak == Spec => []NoSlotLeaks
<1>1. IInv => NoSlotLeaks
  <2> SUFFICES ASSUME IInv, op = "idle" PROVE live = Linked
    BY DEF NoSlotLeaks
  <2>1. handle = NoSlot /\ fresh = NoSlot /\ NoSlot \notin live
    BY SlotsAssumption DEF IInv, HandlesOK, TypeOK
  <2>2. live \subseteq Linked
    BY <2>1 DEF IInv, IndexOK
  <2>3. Linked \subseteq live
    BY SlotsAssumption DEF IInv, IndexOK, Linked
  <2>4. QED
    BY <2>2, <2>3
<1>2. QED
  BY <1>1, Invariance, PTL

\* clean never divides by a size of zero.
THEOREM NoDivisionByZero == Spec => []DivisorIsPositive
<1>1. IInv => DivisorIsPositive
  BY DEF IInv, DivisorOK
<1>2. QED
  BY <1>1, Invariance, PTL

\* A removal by clean never takes out an item that the scan spared and that
\* the generator has left alone since, whatever happened to the slots whose
\* keys clean still looks at.
THEOREM RecentItemsAreSpared == Spec => CleanSparesRecentItems
<1> DEFINE Spares ==
      \A k \in Keys :
          phase = "remove" /\ nbRemoved' # nbRemoved /\ index[k] # NoSlot /\ index'[k] = NoSlot
          => \/ TooOld(index[k])
             \/ item[index[k]].last >= scanStart
             \/ index[k] = handle /\ op = "copying"
             \/ fresh # NoSlot /\ item[fresh].key = k
<1>1. IInv /\ [Next]_vars => [Spares]_vars
  <2> SUFFICES ASSUME IInv, Next, NEW k \in Keys, phase = "remove", nbRemoved' # nbRemoved,
                      index[k] # NoSlot, index'[k] = NoSlot
               PROVE  Removable(k)
    BY DEF Removable, vars
  <2>1. CleanRemove
    BY DEF Next, GeneratorStep, CleanStep, Tick, GetMiss, GetHit, GetPromote, GetRead, GetStamp,
           GetCopied, GetReallocate, GetNullHandle, PutAllocate, PutFails, Insert, GetRelease,
           CleanDecide, CleanMeasure, CleanLock, CleanCollect, CleanStop, CleanRemoved,
           CleanReport, Dead, In, cleaner, vars
  <2>2. k = item[Head(toRemove)].key /\ toRemove # <<>>
    BY <2>1 DEF CleanRemove, IInv, TypeOK
  <2>3. 1 \in 1..Len(toRemove) /\ Head(toRemove) = toRemove[1]
    BY <2>2 DEF IInv, TypeOK
  <2>4. QED
    BY <2>2, <2>3 DEF IInv, ScanOK
<1>2. QED
  BY <1>1, Invariance, PTL DEF Spec, CleanSparesRecentItems

---------------------------------------------------------------------------
(* The scan *)

\* However few of the linked items one looks at, one of them is nearest to the
\* tail: the list orders them all.
ListOK == \A S \in SUBSET Linked : S # {} => \E s \in S : IsOldest(s, S)

\* An item that is taken out leaves the others in order.
LEMMA UnlinkKeepsOrder ==
    ASSUME ListOK, NEW s, Linked' \subseteq Linked \ {s}, Unlink(s) \subseteq older'
    PROVE  ListOK'
<1> SUFFICES ASSUME NEW S \in SUBSET Linked', S # {} PROVE \E o \in S : IsOldest(o, S)'
  BY DEF ListOK
<1>1. S \in SUBSET Linked /\ s \notin S
  OBVIOUS
<1>2. PICK o \in S : \A t \in S \ {o} : <<o, t>> \in older
  BY <1>1 DEF ListOK, IsOldest
<1>3. \A t \in S \ {o} : <<o, t>> \in older'
  BY <1>1, <1>2 DEF Unlink
<1>4. QED
  BY <1>2, <1>3 DEF IsOldest

\* An item that is put at the head is behind none.
LEMMA PromotedKeepsOrder ==
    ASSUME ListOK, NEW s, NEW gone, Linked' \subseteq (Linked \ {gone}) \cup {s},
           older' = Promoted(s, gone)
    PROVE  ListOK'
<1> SUFFICES ASSUME NEW S \in SUBSET Linked', S # {} PROVE \E o \in S : IsOldest(o, S)'
  BY DEF ListOK
<1>1. CASE S \subseteq {s}
  BY <1>1 DEF IsOldest
<1>2. CASE ~(S \subseteq {s})
  <2>1. S \ {s} \in SUBSET (Linked \ {s, gone}) /\ S \ {s} # {}
    <3>1. CASE s = gone
      BY <1>2, <3>1
    <3>2. CASE s # gone
      BY <1>2, <3>2
    <3>3. QED
      BY <3>1, <3>2
  <2>2. PICK o \in S \ {s} : \A t \in (S \ {s}) \ {o} : <<o, t>> \in older
    BY <2>1 DEF ListOK, IsOldest
  <2>3. ASSUME NEW t \in S \ {o} PROVE <<o, t>> \in older'
    <3>1. CASE t = s
      BY <2>1, <3>1 DEF Promoted
    <3>2. CASE t # s
      BY <2>1, <2>2, <3>2 DEF Promoted
    <3>3. QED
      BY <3>1, <3>2
  <2>4. QED
    BY <2>2, <2>3 DEF IsOldest
<1>3. QED
  BY <1>1, <1>2

LEMMA ListStays == ListOK /\ [Next]_vars /\ IInv => ListOK'
<1> SUFFICES ASSUME ListOK, [Next]_vars, IInv PROVE ListOK'
  OBVIOUS
<1>1. ASSUME NEW k \in Keys, NEW s \in Slots, Allocate(k, s) PROVE ListOK'
  <2>1. Linked' = Linked \ {s}
    BY <1>1, AllocateEffect
  <2>2. Unlink(s) \subseteq older'
    BY <1>1 DEF Allocate, TakeFree, Evict, Unlink
  <2>3. QED
    BY <2>1, <2>2, UnlinkKeepsOrder
<1>2. CASE GetReallocate
  <2>1. item[handle].key \in Keys
    BY <1>2 DEF GetReallocate, IInv, HandlesOK, TypeOK, Item
  <2>2. QED
    BY <1>1, <1>2, <2>1 DEF GetReallocate
<1>3. CASE \E k \in Keys : PutAllocate(k)
  BY <1>1, <1>3 DEF PutAllocate
<1>4. CASE GetPromote
  <2>1. Linked' = Linked
    BY <1>4 DEF GetPromote, Linked
  <2>2. CASE handle \in Linked
    <3>1. older' = Promoted(handle, NoSlot) /\ NoSlot \notin Linked
      BY <1>4, <2>2, SlotsAssumption DEF GetPromote, Linked
    <3>2. Linked' \subseteq (Linked \ {NoSlot}) \cup {handle}
      BY <2>1, <3>1
    <3>3. QED
      BY <3>1, <3>2, PromotedKeepsOrder
  <2>3. CASE handle \notin Linked
    BY <1>4, <2>1, <2>3 DEF GetPromote, ListOK, IsOldest
  <2>4. QED
    BY <2>2, <2>3
<1>5. CASE Insert
  <2> DEFINE k == item[fresh].key
             old == index[k]
  <2>1. k \in Keys /\ fresh \in Slots
    BY <1>5, SlotsAssumption DEF Insert, IInv, HandlesOK, TypeOK, Item
  <2>2. index' = [index EXCEPT ![k] = fresh] /\ older' = Promoted(fresh, old)
    BY <1>5 DEF Insert
  <2>3. \A j \in Keys : index[j] = old /\ old # NoSlot => j = k
    BY <2>1 DEF IInv, IndexOK
  <2>4. Linked' \subseteq (Linked \ {old}) \cup {fresh}
    BY <2>1, <2>2, <2>3, SlotsAssumption DEF Linked, IInv, TypeOK
  <2>5. QED
    BY <2>2, <2>4, PromotedKeepsOrder
<1>6. CASE CleanRemove
  <2> DEFINE k == item[Head(toRemove)].key
             s == index[k]
  <2>1. k \in Keys
    BY <1>6 DEF CleanRemove, IInv, TypeOK, Item
  <2>2. index' = [index EXCEPT ![k] = NoSlot] /\ older' = Unlink(s)
    BY <1>6 DEF CleanRemove
  <2>3. \A j \in Keys : index[j] = s /\ s # NoSlot => j = k
    BY <2>1 DEF IInv, IndexOK
  <2>4. Linked' \subseteq Linked \ {s}
    BY <2>1, <2>2, <2>3, SlotsAssumption DEF Linked, IInv, TypeOK
  <2>5. QED
    BY <2>2, <2>4, UnlinkKeepsOrder
<1>7. CASE UNCHANGED <<index, older>>
  BY <1>7 DEF ListOK, IsOldest, Linked
<1>8. QED
  BY <1>2, <1>3, <1>4, <1>5, <1>6, <1>7
  DEF Next, GeneratorStep, CleanStep, Tick, GetMiss, GetHit, GetRead, GetStamp, GetCopied,
      GetNullHandle, GetRelease, PutFails, CleanDecide, CleanMeasure, CleanLock,
      CleanCollect, CleanStop, CleanRemoved, CleanReport, Dead, pool, generator, vars

\* What the scan reads of an item is its stamp, unless get is writing it.
LEMMA ScanStopsRight ==
    ASSUME IInv, ListOK, CleanStop,
           NEW s \in Linked \ Collected, s # handle
    PROVE  ~TooOld(s)
<1>1. PICK o \in Linked \ Collected : IsOldest(o, Linked \ Collected)
  BY DEF ListOK
<1>2. o = s \/ <<o, s>> \in older
  BY <1>1 DEF IsOldest
<1>3. /\ o \in Slots /\ s \in Slots /\ o \in live /\ s \in live
      /\ item[o].last \in Nat /\ item[s].last \in Nat /\ item[o].last <= time
  BY SlotsAssumption DEF Linked, IInv, IndexOK, StampsOK, TypeOK, Item
<1>4. ReadLast(o) = {item[o].last}
  BY <1>2 DEF ReadLast, IInv, LruOK
<1>5. ~Expired(item[o].last)
  BY <1>1, <1>3, <1>4 DEF CleanStop
<1>6. item[o].last <= item[s].last
  BY <1>2, <1>3 DEF IInv, LruOK, LruOrderAgreesWithAge
<1>7. Delta(item[o].last) = time - item[o].last
  BY <1>3, DeltaIsAge DEF IInv, TypeOK
<1>8. time \in Nat /\ target \in Nat
  BY DEF IInv, TypeOK
<1>9. QED
  BY <1>3, <1>5, <1>6, <1>7, <1>8 DEF Expired, TooOld

\* The scan stops at the first recent item it meets, while the generator goes
\* on storing, evicting and stamping: no item that is too old is behind that
\* one, but for the one a get has in its hands (cachecache.cc clean).
THEOREM TooOldItemsAreFound == Spec => ScanFindsAllTooOld
<1> DEFINE Finds == phase = "scan" /\ phase' = "remove" =>
                       \A s \in Linked \ Collected : s = handle \/ ~TooOld(s)
<1>1. Init => ListOK
  BY SlotsAssumption DEF Init, ListOK, Linked
<1>2. IInv /\ ListOK /\ [Next]_vars => [Finds]_vars
  <2> SUFFICES ASSUME IInv, ListOK, Next, phase = "scan", phase' = "remove",
                      NEW s \in Linked \ Collected
               PROVE  s = handle \/ ~TooOld(s)
    BY DEF vars
  <2>1. CleanStop
    BY DEF Next, GeneratorStep, CleanStep, Tick, GetMiss, GetHit, GetPromote, GetRead, GetStamp,
           GetCopied, GetReallocate, GetNullHandle, PutAllocate, PutFails, Insert, GetRelease,
           CleanDecide, CleanMeasure, CleanLock, CleanCollect, CleanStop, CleanRemove,
           CleanRemoved, CleanReport, Dead, In, cleaner, vars
  <2>2. QED
    BY <2>1, ScanStopsRight
<1>3. QED
  BY <1>1, <1>2, ListStays, Invariance, PTL DEF Spec, ScanFindsAllTooOld

---------------------------------------------------------------------------
(* The refinement of AgedCache *)

\* A step that leaves the entries of all keys as they are is a stutter, but
\* for the clock.
LEMMA StampUnchanged ==
    ASSUME UNCHANGED index,
           \A k \in Keys : index[k] # NoSlot => item'[index[k]].last = item[index[k]].last
    PROVE  UNCHANGED Stamp
BY DEF Stamp

\* The entry of at most one key goes when slot s leaves the index.
LEMMA StampDiscarded ==
    ASSUME IInv, NEW s \in Slots,
           \A j \in Keys : index'[j] = IF index[j] = s THEN NoSlot ELSE index[j],
           \A j \in Keys : index[j] # NoSlot /\ index[j] # s =>
                              item'[index[j]].last = item[index[j]].last
    PROVE  \/ UNCHANGED Stamp
           \/ \E k \in Keys : Stamp' = [Stamp EXCEPT ![k] = NoSlot]
<1>1. CASE s \notin Linked
  <2>1. \A j \in Keys : index'[j] = index[j] /\ index[j] # s
    BY <1>1 DEF Linked
  <2>2. QED
    BY <2>1 DEF Stamp
<1>2. CASE s \in Linked
  <2>1. PICK k \in Keys : index[k] = s
    BY <1>2 DEF Linked
  <2>2. \A j \in Keys \ {k} : index[j] # s
    BY <2>1, SlotsAssumption DEF IInv, IndexOK
  <2>3. Stamp' = [Stamp EXCEPT ![k] = NoSlot]
    BY <2>1, <2>2 DEF Stamp
  <2>4. QED
    BY <2>3
<1>3. QED
  BY <1>1, <1>2

LEMMA AllocateRefines ==
    ASSUME IInv, NEW k \in Keys, NEW s \in Slots, Allocate(k, s), UNCHANGED <<time, handle>>,
           fresh = NoSlot,
           handle # NoSlot => k = item[handle].key
    PROVE  [Ages!Next]_<<time, Stamp, InUse>>
<1>1. /\ \A t \in Slots \ {s} : item'[t] = item[t]
      /\ item'[s].key = k
      /\ fresh' = s /\ s # handle /\ s # NoSlot
  <2>1. /\ \A t \in Slots \ {s} : item'[t] = item[t]
        /\ item'[s] = [key |-> k, last |-> time, width |-> Width(time)]
        /\ fresh' = s /\ s # handle
    BY AllocateEffect
  <2>2. QED
    BY <2>1, SlotsAssumption
<1>2. \A j \in Keys : index'[j] = IF index[j] = s THEN NoSlot ELSE index[j]
  <2>1. CASE TakeFree(s)
    BY <2>1, SlotsAssumption DEF TakeFree, IInv, IndexOK
  <2>2. CASE Evict(s)
    BY <2>2 DEF Evict
  <2>3. QED
    BY <2>1, <2>2 DEF Allocate
<1>3. \/ UNCHANGED Stamp
      \/ \E j \in Keys : Stamp' = [Stamp EXCEPT ![j] = NoSlot]
  BY <1>1, <1>2, StampDiscarded DEF IInv, TypeOK
<1>4. CASE handle = NoSlot
  <2>1. InUse = NoSlot /\ InUse' = k
    BY <1>1, <1>4 DEF InUse
  <2>2. QED
    BY <1>3, <2>1 DEF Ages!Next, Ages!Begin, Ages!Discarding
<1>5. CASE handle # NoSlot
  <2>1. InUse' = InUse
    BY <1>1, <1>5 DEF InUse, IInv, TypeOK
  <2>2. QED
    BY <1>3, <2>1 DEF Ages!Next, Ages!Discard, Ages!Discarding
<1>6. QED
  BY <1>4, <1>5

LEMMA GetHitRefines ==
    ASSUME NEW k \in Keys PROVE IInv /\ GetHit(k) => [Ages!Next]_<<time, Stamp, InUse>>
<1> SUFFICES ASSUME IInv, GetHit(k) PROVE [Ages!Next]_<<time, Stamp, InUse>>
  OBVIOUS
<1>1. UNCHANGED Stamp /\ UNCHANGED time
  BY DEF GetHit, pool, Stamp
<1>2. InUse = NoSlot /\ InUse' = k
  BY DEF GetHit, IInv, HandlesOK, IndexOK, InUse
<1>3. QED
  BY <1>1, <1>2 DEF Ages!Next, Ages!Begin, Ages!Discarding

LEMMA GetCopiedRefines == IInv /\ GetCopied => [Ages!Next]_<<time, Stamp, InUse>>
<1> SUFFICES ASSUME IInv, GetCopied PROVE [Ages!Next]_<<time, Stamp, InUse>>
  OBVIOUS
<1>1. /\ handle \in Slots /\ handle # NoSlot
      /\ item'[handle].last = time /\ item'[handle].key = item[handle].key
      /\ \A t \in Slots \ {handle} : item'[t] = item[t]
      /\ UNCHANGED <<index, time, handle, fresh>>
  BY DEF GetCopied, pool, IInv, HandlesOK, TypeOK, Item
<1>2. InUse = item[handle].key /\ InUse' = InUse
  BY <1>1 DEF InUse
<1>3. CASE handle \notin Linked
  <2>1. \A j \in Keys : index[j] # NoSlot => index[j] \in Slots \ {handle}
    BY <1>3 DEF Linked, IInv, TypeOK
  <2>2. QED
    BY <1>1, <1>2, <2>1, StampUnchanged
<1>4. CASE handle \in Linked
  <2>1. PICK k \in Keys : index[k] = handle
    BY <1>4 DEF Linked
  <2>2. \A j \in Keys \ {k} : index[j] # NoSlot => index[j] \in Slots \ {handle}
    BY <2>1, SlotsAssumption DEF IInv, IndexOK, TypeOK
  <2>3. Stamp' = [Stamp EXCEPT ![k] = time]
    BY <1>1, <2>1, <2>2, SlotsAssumption DEF Stamp
  <2>4. InUse = k
    BY <1>1, <1>2, <2>1 DEF IInv, IndexOK
  <2>5. QED
    BY <1>1, <1>2, <2>3, <2>4 DEF Ages!Next, Ages!Stamp
<1>5. QED
  BY <1>3, <1>4

LEMMA InsertRefines == IInv /\ Insert => [Ages!Next]_<<time, Stamp, InUse>>
<1> SUFFICES ASSUME IInv, Insert PROVE [Ages!Next]_<<time, Stamp, InUse>>
  OBVIOUS
<1> DEFINE k == item[fresh].key
<1>1. /\ fresh \in Slots /\ fresh # NoSlot /\ k \in Keys
      /\ item[fresh].last = time
      /\ handle # NoSlot => k = item[handle].key
      /\ index' = [index EXCEPT ![k] = fresh]
      /\ fresh' = NoSlot
      /\ UNCHANGED <<item, time, handle>>
  BY DEF Insert, IInv, HandlesOK, TypeOK, Item
<1>2. \A j \in Keys : index'[j] = IF j = k THEN fresh ELSE index[j]
  BY <1>1 DEF IInv, TypeOK
<1>3. Stamp' = [Stamp EXCEPT ![k] = time]
  <2>1. Stamp' = [j \in Keys |-> IF j = k THEN time ELSE Stamp[j]]
    <3> HIDE DEF k
    <3>1. k \in Keys /\ item[fresh].last = time
      BY <1>1
    <3>2. QED
      BY <1>1, <1>2, <3>1 DEF Stamp
  <2>2. QED
    BY <2>1 DEF Stamp
<1>4. InUse = k /\ InUse' \in {k, NoSlot}
  BY <1>1 DEF InUse
<1>5. QED
  BY <1>1, <1>3, <1>4 DEF Ages!Next, Ages!Stamp

LEMMA GetReleaseRefines == IInv /\ UsedOK /\ GetRelease => [Ages!Next]_<<time, Stamp, InUse>>
<1> SUFFICES ASSUME IInv, UsedOK, GetRelease PROVE [Ages!Next]_<<time, Stamp, InUse>>
  OBVIOUS
<1>1. UNCHANGED Stamp /\ UNCHANGED time
  BY DEF GetRelease, Stamp
<1>2. InUse' = NoSlot
  BY DEF GetRelease, IInv, HandlesOK, InUse
<1>3. handle \in Slots /\ item[handle].key \in Keys /\ InUse = item[handle].key
  BY SlotsAssumption DEF GetRelease, IInv, HandlesOK, TypeOK, Item, InUse
<1>4. Stamp[InUse] \in {NoSlot, time}
  BY <1>3 DEF GetRelease, UsedOK, Stamp
<1>5. CASE InUse = NoSlot
  BY <1>1, <1>2, <1>5
<1>6. CASE InUse # NoSlot
  BY <1>1, <1>2, <1>4, <1>6 DEF Ages!Next, Ages!End
<1>7. QED
  BY <1>5, <1>6

LEMMA CleanRemoveRefines == IInv /\ CleanRemove => [Ages!Next]_<<time, Stamp, InUse>>
<1> SUFFICES ASSUME IInv, CleanRemove PROVE [Ages!Next]_<<time, Stamp, InUse>>
  OBVIOUS
<1> DEFINE k == item[Head(toRemove)].key
<1>1. /\ k \in Keys
      /\ index' = [index EXCEPT ![k] = NoSlot]
      /\ UNCHANGED <<item, time, handle, fresh>>
  BY DEF CleanRemove, generator, IInv, TypeOK, Item
<1>2. \A j \in Keys : index'[j] = IF j = k THEN NoSlot ELSE index[j]
  BY <1>1 DEF IInv, TypeOK
<1>3. Stamp' = [Stamp EXCEPT ![k] = NoSlot]
  <2>1. Stamp' = [j \in Keys |-> IF j = k THEN NoSlot ELSE Stamp[j]]
    <3> HIDE DEF k
    <3>1. QED
      BY <1>1, <1>2 DEF Stamp
  <2>2. QED
    BY <2>1 DEF Stamp
<1>4. UNCHANGED InUse
  BY <1>1 DEF InUse
<1>5. QED
  BY <1>1, <1>3, <1>4 DEF Ages!Next, Ages!Discard, Ages!Discarding

\* The other thread may take the entry of the key that get works for out, and
\* nobody can put another one in its place before get does.
LEMMA UsedInvariant == IInv /\ UsedOK /\ [Next]_vars => UsedOK'
<1> SUFFICES ASSUME IInv, UsedOK, [Next]_vars PROVE UsedOK'
  OBVIOUS
<1>1. CASE op' \notin {"promote", "read", "stamp", "copying", "release"}
  BY <1>1 DEF UsedOK
<1>2. CASE \E k \in Keys : GetHit(k)
  <2>1. PICK k \in Keys : GetHit(k)
    BY <1>2
  <2>2. item[index[k]].key = k
    BY <2>1 DEF GetHit, IInv, IndexOK
  <2>3. QED
    BY <2>1, <2>2 DEF GetHit, pool, UsedOK
<1>3. CASE GetPromote \/ GetRead \/ GetStamp
  BY <1>3 DEF GetPromote, GetRead, GetStamp, pool, UsedOK
<1>4. CASE GetCopied
  <2>1. /\ handle \in Slots /\ handle # NoSlot
        /\ item'[handle].last = time /\ item'[handle].key = item[handle].key
        /\ UNCHANGED <<index, time, handle>>
    BY <1>4 DEF GetCopied, pool, IInv, HandlesOK, TypeOK, Item
  <2>2. index[item[handle].key] \in {handle, NoSlot}
    BY <1>4 DEF GetCopied, UsedOK
  <2>3. op' = "release"
    BY <1>4 DEF GetCopied
  <2>4. QED
    BY <2>1, <2>2, <2>3 DEF UsedOK
<1>5. CASE Insert /\ handle # NoSlot
  <2>1. /\ item[fresh].key = item[handle].key /\ item[fresh].key \in Keys
        /\ item[fresh].last = time
        /\ index' = [index EXCEPT ![item[fresh].key] = fresh]
        /\ UNCHANGED <<item, time, handle>>
        /\ op' = "release"
    BY <1>5 DEF Insert, IInv, HandlesOK, TypeOK, Item
  <2>2. index'[item[handle].key] = fresh
    BY <2>1 DEF IInv, TypeOK
  <2>3. QED
    BY <2>1, <2>2 DEF UsedOK
<1>6. CASE CleanRemove
  <2>1. /\ UNCHANGED <<item, time, op, handle>>
        /\ \A j \in Keys : index'[j] \in {index[j], NoSlot}
    BY <1>6 DEF CleanRemove, generator, IInv, TypeOK
  <2>2. op \in {"promote", "read", "stamp", "copying", "release"} => item[handle].key \in Keys
    BY DEF IInv, HandlesOK, TypeOK, Item
  <2>3. QED
    BY <2>1, <2>2 DEF UsedOK
<1>7. CASE UNCHANGED <<item, index, time, op, handle>>
  BY <1>7 DEF UsedOK
<1>8. QED
  <2>1. ASSUME Insert, handle = NoSlot PROVE op' = "idle"
    BY <2>1 DEF Insert
  <2>2. QED
    BY <1>1, <1>2, <1>3, <1>4, <1>5, <1>6, <1>7, <2>1
    DEF Next, GeneratorStep, CleanStep, Tick, GetMiss, PutAllocate, GetReallocate,
        GetNullHandle, GetRelease, PutFails, CleanDecide, CleanMeasure, CleanLock,
        CleanCollect, CleanStop, CleanRemoved, CleanReport, Dead, pool, generator, vars

\* The generator thread and the supervisor thread together, with every
\* interleaving of their steps, do to the entries what AgedCache allows: each
\* entry carries the time of the last use of its own key.
THEOREM Refinement == Spec => ImplementsAgedCache
<1>1. Init => Ages!Init
  BY DEF Init, Ages!Init, Stamp, InUse
<1>2. IInv /\ UsedOK /\ [Next]_vars => [Ages!Next]_<<time, Stamp, InUse>>
  <2> SUFFICES ASSUME IInv, UsedOK, [Next]_vars PROVE [Ages!Next]_<<time, Stamp, InUse>>
    OBVIOUS
  <2>1. CASE Tick
    <3>1. UNCHANGED <<item, index, handle, fresh>> /\ time' = time + 1 /\ InUse = NoSlot
      BY <2>1 DEF Tick, pool, generator, IInv, HandlesOK, InUse
    <3>2. UNCHANGED Stamp /\ UNCHANGED InUse
      BY <3>1 DEF Stamp, InUse
    <3>3. QED
      BY <3>1, <3>2 DEF Ages!Next, Ages!Tick
  <2>2. CASE GetReallocate
    <3>1. /\ item[handle].key \in Keys /\ handle # NoSlot /\ fresh = NoSlot
          /\ UNCHANGED <<time, handle>>
      BY <2>2 DEF GetReallocate, IInv, HandlesOK, TypeOK, Item
    <3>2. PICK s \in Slots : Allocate(item[handle].key, s)
      BY <2>2 DEF GetReallocate
    <3>3. QED
      BY <3>1, <3>2, AllocateRefines
  <2>3. CASE \E k \in Keys : PutAllocate(k)
    <3>1. handle = NoSlot /\ fresh = NoSlot /\ UNCHANGED <<time, handle>>
      BY <2>3 DEF PutAllocate, IInv, HandlesOK
    <3>2. PICK k \in Keys, s \in Slots : Allocate(k, s)
      BY <2>3 DEF PutAllocate
    <3>3. QED
      BY <3>1, <3>2, AllocateRefines
  <2>4. CASE \E k \in Keys : GetHit(k)
    BY <2>4, GetHitRefines
  <2>5. CASE GetCopied \/ Insert \/ GetRelease \/ CleanRemove
    BY <2>5, GetCopiedRefines, InsertRefines, GetReleaseRefines, CleanRemoveRefines
  <2>6. CASE UNCHANGED <<item, index, time, handle, fresh>>
    BY <2>6 DEF Stamp, InUse
  <2>7. QED
    BY <2>1, <2>2, <2>3, <2>4, <2>5, <2>6
    DEF Next, GeneratorStep, CleanStep, GetMiss, GetPromote, GetRead, GetStamp,
        GetNullHandle, PutFails, CleanDecide, CleanMeasure, CleanLock, CleanCollect,
        CleanStop, CleanRemoved, CleanReport, Dead, pool, generator, vars
<1>3. Init => UsedOK
  BY DEF Init, UsedOK
<1>4. QED
  BY <1>1, <1>2, <1>3, UsedInvariant, Invariance, PTL DEF Spec, ImplementsAgedCache, Ages!Spec

---------------------------------------------------------------------------
(* Calls and cleanings get nearer to their ends *)

\* The steps that get or put has before it at most.
CallLeft ==
    CASE op \in {"idle", "crashed"} -> 0
      [] op = "release" -> 1
      [] op \in {"copying", "insert"} -> 2
      [] op = "stamp" -> 3
      [] op = "read" -> 4
      [] op = "promote" -> 5

\* The steps that clean has before it at most: an item is collected in one and
\* removed in another.
CleanLeft ==
    CASE phase = "idle" -> 0
      [] phase = "report" -> 1
      [] phase = "remove" -> Len(toRemove) + 2
      [] phase = "scan" -> 2 * Cardinality(Linked \ Collected) + Len(toRemove) + 3
      [] phase = "lock" -> 2 * Cardinality(Slots) + 4
      [] phase = "measure" -> 2 * Cardinality(Slots) + 5

\* Each step of a call takes it nearer to its end, each step of clean takes the
\* cleaning nearer to its end, and neither thread takes the other back.
ThreadsAdvance ==
    [][/\ CallLeft \in Nat /\ (CallLeft = 0 <=> op \in {"idle", "crashed"})
       /\ CleanLeft \in Nat /\ (CleanLeft = 0 <=> phase = "idle")
       /\ GeneratorStep => CallLeft' < CallLeft
       /\ CleanStep => CleanLeft' < CleanLeft
       /\ CleanDecide \/ CleanStep => CallLeft' = CallLeft
       /\ ~(CleanDecide \/ CleanStep) => CleanLeft' = CleanLeft]_vars

\* What the scan has not collected is finite, and there are two slots to spare.
LEMMA UncollectedIsSize ==
    ASSUME IInv
    PROVE  /\ IsFiniteSet(Linked \ Collected)
           /\ Cardinality(Linked \ Collected) \in Nat
           /\ Cardinality(Slots) \in Nat
           /\ Cardinality(Linked \ Collected) <= Cardinality(Slots)
           /\ Len(toRemove) \in Nat
<1>1. Linked \ Collected \in SUBSET Slots
  BY DEF Linked
<1>2. /\ IsFiniteSet(Linked \ Collected)
      /\ Cardinality(Linked \ Collected) <= Cardinality(Slots)
  BY <1>1, SlotsAssumption, FS_Subset
<1>3. Cardinality(Linked \ Collected) \in Nat /\ Cardinality(Slots) \in Nat
  BY <1>2, SlotsAssumption, FS_CardinalityType
<1>4. Len(toRemove) \in Nat
  BY DEF IInv, TypeOK
<1>5. QED
  BY <1>2, <1>3, <1>4

LEMMA WorkLeftIsNat ==
    ASSUME IInv
    PROVE  /\ CallLeft \in Nat /\ (CallLeft = 0 <=> op \in {"idle", "crashed"})
           /\ CleanLeft \in Nat /\ (CleanLeft = 0 <=> phase = "idle")
<1>1. op \in Ops /\ phase \in Phases
  BY DEF IInv, TypeOK
<1>2. CallLeft \in Nat /\ (CallLeft = 0 <=> op \in {"idle", "crashed"})
  BY <1>1 DEF CallLeft, Ops
<1>3. CleanLeft \in Nat /\ (CleanLeft = 0 <=> phase = "idle")
  <2>1. /\ Cardinality(Linked \ Collected) \in Nat /\ Cardinality(Slots) \in Nat
        /\ Len(toRemove) \in Nat
    BY UncollectedIsSize
  <2>2. CASE phase \in {"idle", "report", "remove"}
    BY <2>1, <2>2 DEF CleanLeft
  <2>3. CASE phase = "scan"
    BY <2>1, <2>3 DEF CleanLeft
  <2>4. CASE phase \in {"lock", "measure"}
    BY <2>1, <2>4 DEF CleanLeft
  <2>5. QED
    BY <1>1, <2>2, <2>3, <2>4 DEF Phases
<1>4. QED
  BY <1>2, <1>3

LEMMA CallAdvances == GeneratorStep => CallLeft' < CallLeft
<1> SUFFICES ASSUME GeneratorStep PROVE CallLeft' < CallLeft
  OBVIOUS
<1>1. \/ op = "promote" /\ op' = "read"
      \/ op = "read" /\ op' = "stamp"
      \/ op = "stamp" /\ op' \in {"copying", "insert", "crashed"}
      \/ op = "copying" /\ op' = "release"
      \/ op = "insert" /\ op' \in {"idle", "release"}
      \/ op = "release" /\ op' = "idle"
  BY DEF GeneratorStep, GetPromote, GetRead, GetStamp, GetCopied, GetReallocate, GetNullHandle,
         Insert, GetRelease
<1>2. QED
  BY <1>1 DEF CallLeft

\* The list is locked while clean collects: each item is found once.
LEMMA CollectAdvances ==
    ASSUME IInv, NEW s \in Slots, CleanCollect(s)
    PROVE  CleanLeft' < CleanLeft
<1>1. /\ phase = "scan" /\ phase' = "scan" /\ toRemove' = Append(toRemove, s)
      /\ s \in Linked \ Collected /\ Linked' = Linked
  BY DEF CleanCollect, In, IsOldest, Linked, pool
<1>2. toRemove \in Seq(Slots)
  BY DEF IInv, TypeOK
<1>3. Len(toRemove') = Len(toRemove) + 1 /\ Collected' = Collected \cup {s}
  <2>1. Len(toRemove') = Len(toRemove) + 1
    BY <1>1, <1>2
  <2>2. \A i \in 1..Len(toRemove) : toRemove'[i] = toRemove[i]
    BY <1>1, <1>2
  <2>3. toRemove'[Len(toRemove) + 1] = s
    BY <1>1, <1>2
  <2>4. QED
    BY <1>2, <2>1, <2>2, <2>3 DEF Collected
<1>4. Linked' \ Collected' = (Linked \ Collected) \ {s}
  BY <1>1, <1>3
<1>5. Cardinality(Linked' \ Collected') = Cardinality(Linked \ Collected) - 1
  BY <1>1, <1>4, UncollectedIsSize, FS_RemoveElement
<1>6. QED
  BY <1>1, <1>3, <1>5, UncollectedIsSize DEF CleanLeft

LEMMA CleanAdvances ==
    ASSUME IInv, CleanStep
    PROVE  CleanLeft' < CleanLeft
<1>1. CASE \E s \in Slots : CleanCollect(s)
  BY <1>1, CollectAdvances
<1>2. CASE CleanLock
  <2>1. phase = "lock" /\ phase' = "scan" /\ toRemove = <<>> /\ toRemove' = <<>>
    BY <1>2 DEF CleanLock, In, IInv, ScanOK
  <2>2. Linked' \ Collected' \in SUBSET Slots
    BY DEF Linked
  <2>3. /\ Cardinality(Linked' \ Collected') \in Nat /\ Cardinality(Slots) \in Nat
        /\ Cardinality(Linked' \ Collected') <= Cardinality(Slots)
    BY <2>2, SlotsAssumption, FS_Subset, FS_CardinalityType
  <2>4. QED
    BY <2>1, <2>3 DEF CleanLeft
<1>3. CASE CleanMeasure \/ CleanStop \/ CleanRemoved \/ CleanReport
  <2>1. /\ toRemove' = toRemove
        /\ \/ phase = "measure" /\ phase' = "lock"
           \/ phase = "scan" /\ phase' = "remove"
           \/ phase = "remove" /\ phase' = "report"
           \/ phase = "report" /\ phase' = "idle"
    BY <1>3 DEF CleanMeasure, CleanStop, CleanRemoved, CleanReport, In
  <2>2. QED
    BY <2>1, UncollectedIsSize DEF CleanLeft
<1>4. CASE CleanRemove
  <2>1. /\ phase = "remove" /\ phase' = "remove" /\ toRemove # <<>>
        /\ toRemove' = Tail(toRemove)
    BY <1>4 DEF CleanRemove, In
  <2>2. Len(toRemove') = Len(toRemove) - 1 /\ Len(toRemove) \in Nat
    BY <2>1 DEF IInv, TypeOK
  <2>3. QED
    BY <2>1, <2>2 DEF CleanLeft
<1>5. QED
  BY <1>1, <1>2, <1>3, <1>4 DEF CleanStep

\* Nothing is linked or taken out by get or put while clean holds the list.
LEMMA GeneratorLeavesClean ==
    ASSUME [Next]_vars, ~(CleanDecide \/ CleanStep)
    PROVE  CleanLeft' = CleanLeft
<1>1. phase' = phase /\ toRemove' = toRemove
  BY DEF Next, GeneratorStep, Tick, GetMiss, GetHit, GetPromote, GetRead, GetStamp, GetCopied,
         GetReallocate, GetNullHandle, PutAllocate, PutFails, Insert, GetRelease, Dead,
         cleaner, vars
<1>2. phase = "scan" => index' = index
  BY DEF Next, GeneratorStep, Tick, GetMiss, GetHit, GetPromote, GetRead, GetStamp, GetCopied,
         GetReallocate, GetNullHandle, PutAllocate, PutFails, Insert, GetRelease, Dead,
         Allocate, TakeFree, Evict, LruUnlocked, pool, vars
<1>3. phase = "scan" => Linked' = Linked /\ Collected' = Collected
  BY <1>1, <1>2 DEF Linked, Collected
<1>4. QED
  BY <1>1, <1>3 DEF CleanLeft

LEMMA CleanLeavesCall == CleanDecide \/ CleanStep => CallLeft' = CallLeft
<1>1. CleanDecide \/ CleanStep => op' = op
  BY DEF CleanDecide, CleanStep, CleanMeasure, CleanLock, CleanCollect, CleanStop, CleanRemove,
         CleanRemoved, CleanReport, generator
<1>2. QED
  BY <1>1 DEF CallLeft

\* get, put and clean have a bounded number of steps, whatever the other thread
\* does, for any number of keys and slots: what ServiceEnds needs of the cache,
\* but for the fairness of the LRU lock (cachecache.cc get, put, clean).
THEOREM CallsAndCleaningsGetShorter == Spec => ThreadsAdvance
<1>1. IInv /\ [Next]_vars =>
         [/\ CallLeft \in Nat /\ (CallLeft = 0 <=> op \in {"idle", "crashed"})
          /\ CleanLeft \in Nat /\ (CleanLeft = 0 <=> phase = "idle")
          /\ GeneratorStep => CallLeft' < CallLeft
          /\ CleanStep => CleanLeft' < CleanLeft
          /\ CleanDecide \/ CleanStep => CallLeft' = CallLeft
          /\ ~(CleanDecide \/ CleanStep) => CleanLeft' = CleanLeft]_vars
  BY WorkLeftIsNat, CallAdvances, CleanAdvances, CleanLeavesCall, GeneratorLeavesClean
<1>2. QED
  BY <1>1, Invariance, PTL DEF Spec, ThreadsAdvance

---------------------------------------------------------------------------
(* What the two disagreements rest on *)

\* The null handle that get writes through is a failed eviction, and nothing
\* else: where eviction does not fail there is always a slot, free or to evict,
\* since get holds one item only (cachecache.cc get).
THEOREM NullHandleNeedsFailedEviction ==
    ASSUME EvictionMayFail = FALSE
    PROVE  Spec => []AllocationFailureIsHandled
<1>1. IInv /\ GetNullHandle => FALSE
  <2> SUFFICES ASSUME IInv, GetNullHandle PROVE FALSE
    OBVIOUS
  <2>1. op = "stamp" /\ Slots \subseteq live /\ Linked \ {handle} = {}
    BY DEF GetNullHandle, AllocationFails, Evictable
  <2>2. fresh = NoSlot
    BY <2>1 DEF IInv, HandlesOK
  <2>3. Slots \subseteq {handle}
    BY <2>1, <2>2, SlotsAssumption DEF IInv, IndexOK
  <2>4. Cardinality({handle}) = 1 /\ IsFiniteSet({handle})
    BY FS_Singleton
  <2>5. Cardinality(Slots) <= 1
    BY <2>3, <2>4, FS_Subset
  <2>6. QED
    BY <2>5, SlotsAssumption, FS_CardinalityType
<1>2. Init => AllocationFailureIsHandled
  BY DEF Init, AllocationFailureIsHandled
<1>3. IInv /\ AllocationFailureIsHandled /\ [Next]_vars => AllocationFailureIsHandled'
  BY <1>1
  DEF AllocationFailureIsHandled, Next, GeneratorStep, CleanStep, Tick, GetMiss, GetHit,
      GetPromote, GetRead, GetStamp, GetCopied, GetReallocate, PutAllocate, PutFails, Insert,
      GetRelease, CleanDecide, CleanMeasure, CleanLock, CleanCollect, CleanStop, CleanRemove,
      CleanRemoved, CleanReport, Dead, generator, vars
<1>4. QED
  BY <1>2, <1>3, Invariance, PTL DEF Spec

\* The size of an eviction wraps because of allocations made during clean, and
\* for no other reason: while the generator allocates nothing, what clean
\* reports is a size (cachecache.cc clean).
THEOREM SizeWrapsOnlyByAllocations ==
    Spec /\ [][phase # "idle" => live' \subseteq live]_vars => []SizeEvictionIsASize
<1> DEFINE Shrunk == phase \in {"lock", "scan", "remove", "report"} => Usage <= before
           Quiet  == phase # "idle" => live' \subseteq live
<1>1. Init => Shrunk
  BY DEF Init
<1>2. IInv /\ Shrunk /\ [Next]_vars /\ [Quiet]_vars => Shrunk'
  <2> SUFFICES ASSUME IInv, Shrunk, [Next]_vars, [Quiet]_vars,
                      phase' \in {"lock", "scan", "remove", "report"}
               PROVE  Usage' <= before'
    OBVIOUS
  <2>1. Usage \in Nat
    BY UsageIsSize DEF IInv, TypeOK
  <2>2. CASE CleanMeasure
    BY <2>1, <2>2 DEF CleanMeasure, pool, Usage
  <2>3. CASE ~CleanMeasure
    <3>1. phase \in {"lock", "scan", "remove", "report"} /\ before' = before
      BY <2>3
      DEF Next, GeneratorStep, CleanStep, Tick, GetMiss, GetHit, GetPromote, GetRead, GetStamp,
          GetCopied, GetReallocate, GetNullHandle, PutAllocate, PutFails, Insert, GetRelease,
          CleanDecide, CleanLock, CleanCollect, CleanStop, CleanRemove, CleanRemoved,
          CleanReport, Dead, In, cleaner, vars
    <3>2. live' \subseteq live
      BY <3>1 DEF vars
    <3>3. IsFiniteSet(live)
      BY SlotsAssumption, FS_Subset DEF IInv, TypeOK
    <3>4. Usage' \in Nat /\ Usage' <= Usage
      BY <3>2, <3>3, FS_Subset, FS_CardinalityType DEF Usage
    <3>5. before \in Nat
      BY DEF IInv, TypeOK
    <3>6. QED
      BY <2>1, <3>1, <3>4, <3>5
  <2>4. QED
    BY <2>2, <2>3
<1>3. Shrunk => SizeEvictionIsASize
  BY DEF SizeEvictionIsASize
<1>4. QED
  BY <1>1, <1>2, <1>3, Invariance, PTL DEF Spec
=============================================================================
