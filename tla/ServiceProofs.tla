--------------------------- MODULE ServiceProofs ---------------------------
(***************************************************************************)
(* The cache inside the program, for caches of any size and traces of any  *)
(* length: the composition is a cache as module Cachecache describes it    *)
(* and a program as modules Generator and Supervisor describe it, so that  *)
(* what is proved of either holds of the whole; and the two together give  *)
(* what neither could say: which keys of the trace clean takes out.        *)
(***************************************************************************)
EXTENDS Service, CachecacheProofs

\* The theorems about the program.
Shown == INSTANCE SupervisorProofs WITH
               Caches <- {Cache}, at <- At, time <- second, clock <- Time, content <- Content

---------------------------------------------------------------------------
(* The composition is a cache *)

\* A line that was read is a line.
LineTyped == line \in [{Cache} -> Program!Line]

LEMMA KeyIsKey == LineTyped => Key \in Keys
  BY DEF LineTyped, Key, Program!Line

\* Each step of the service is one of the cache, or leaves it alone.
LEMMA ServiceStepsCache ==
    ASSUME LineTyped, [ServiceNext]_all
    PROVE  [Next]_vars
<1>1. CASE Alive /\ GeneratorThread
  <2>1. CASE Replay
    BY <2>1 DEF Replay, Goes
  <2>2. CASE UpdateClock
    BY <2>2 DEF UpdateClock, Next
  <2>3. CASE Get
    BY <2>3, KeyIsKey DEF Get, Next
  <2>4. CASE Put
    BY <2>4, KeyIsKey DEF Put, Next
  <2>5. CASE PutInsert
    BY <2>5 DEF PutInsert, Next, GeneratorStep
  <2>6. CASE GetGoesOn
    BY <2>6 DEF GetGoesOn, Next
  <2> QED BY <1>1, <2>1, <2>2, <2>3, <2>4, <2>5, <2>6 DEF GeneratorThread
<1>2. CASE Alive /\ MainThread
  BY <1>2 DEF MainThread, Supervise, Clean, Next
<1>3. CASE UNCHANGED all
  BY <1>3 DEF all
<1> QED BY <1>1, <1>2, <1>3 DEF ServiceNext

\* Only the reading of a line changes it.
LEMMA LineStaysTyped ==
    ASSUME LineTyped, [ServiceNext]_all
    PROVE  LineTyped'
<1>1. CASE UNCHANGED line
  BY <1>1 DEF LineTyped, Program!Line
<1>2. CASE Program!ReadLine(Cache)
  BY <1>2 DEF LineTyped, Program!ReadLine, Program!Line
<1>3. line' = line \/ Program!ReadLine(Cache)
  <2>1. CASE Alive /\ GeneratorThread
    BY <2>1 DEF GeneratorThread, Replay, UpdateClock, Get, Put, PutInsert, GetGoesOn, trace,
                Program!Open, Program!OpenFails, Program!ReadBadLine, Program!Close,
                Program!Finish, Program!SameSecond, Program!UpdateClock, Program!PushMetrics,
                Program!Get, Program!Put, Program!Executing
  <2>2. CASE Alive /\ MainThread
    BY <2>2 DEF MainThread, Supervise, Clean, trace
  <2>3. CASE UNCHANGED all
    BY <2>3 DEF all, trace
  <2> QED BY <2>1, <2>2, <2>3 DEF ServiceNext
<1> QED BY <1>1, <1>2, <1>3

LEMMA InitLineTyped == ServiceInit => LineTyped
<1>1. (CHOOSE l \in Program!Line : l.timestamp = 0) \in Program!Line
  <2>1. PICK k \in Keys, o \in Operations : TRUE
    BY ServiceAssumption
  <2>2. [op |-> o, key |-> k, timestamp |-> 0] \in Program!Line
    BY <2>1, ServiceAssumption DEF Program!Line
  <2>3. \E l \in Program!Line : l.timestamp = 0
    BY <2>2
  <2> QED BY <2>3
<1> QED BY <1>1 DEF ServiceInit, Program!SInit, Program!Init, LineTyped

\* The cache inside the program is the cache of module Cachecache: what is
\* proved of the two threads there holds when a trace and main drive them.
THEOREM ServiceRefinesCache == ServiceSpec => Spec
<1>1. ServiceInit => Init
  BY DEF ServiceInit
<1> QED BY <1>1, InitLineTyped, LineStaysTyped, ServiceStepsCache, PTL DEF ServiceSpec, Spec

---------------------------------------------------------------------------
(* The parts agree *)

\* get keeps its item, and with it its key, until it returns.
LEMMA GetKeepsItsKey ==
    ASSUME IInv, handle # NoSlot, GeneratorStep
    PROVE  \/ op # "idle" /\ op' # "idle" /\ handle' = handle /\ InUse' = InUse
           \/ op = "release" /\ op' = "idle" /\ handle' = NoSlot /\ fresh' = NoSlot
<1>1. CASE GetReallocate
  <2>1. PICK s \in Slots : Allocate(item[handle].key, s)
    BY <1>1 DEF GetReallocate
  <2>2. item[handle].key \in Keys /\ handle \in Slots
    BY SlotsAssumption DEF IInv, HandlesOK, TypeOK, Item
  <2>3. item'[handle] = item[handle]
    BY <2>1, <2>2, AllocateEffect
  <2> QED BY <1>1, <2>3 DEF GetReallocate, InUse
<1>2. CASE GetCopied
  <2>1. item'[handle].key = item[handle].key
    BY <1>2 DEF GetCopied, IInv, HandlesOK, TypeOK, Item
  <2> QED BY <1>2, <2>1 DEF GetCopied, InUse
<1>3. CASE GetRelease
  <2>1. fresh' = NoSlot
    BY <1>3 DEF GetRelease, IInv, HandlesOK
  <2> QED BY <1>3, <2>1 DEF GetRelease
<1>4. CASE GetPromote \/ GetRead \/ GetStamp \/ GetNullHandle \/ Insert
  BY <1>4 DEF GetPromote, GetRead, GetStamp, GetNullHandle, Insert, InUse
<1> QED BY <1>1, <1>2, <1>3, <1>4 DEF GeneratorStep

\* clean touches nothing that get and put hold.
LEMMA CleanKeepsOperations ==
    ASSUME CleanDecide \/ CleanStep
    PROVE  UNCHANGED <<item, op, handle, fresh, time>> /\ InUse' = InUse
<1>1. UNCHANGED <<item, op, handle, fresh, time>>
  BY DEF CleanDecide, CleanStep, CleanMeasure, CleanLock, CleanCollect, CleanStop,
         CleanRemove, CleanRemoved, CleanReport, generator
<1> QED BY <1>1 DEF InUse

\* Between two calls nothing is held.
LEMMA IdleHoldsNothing ==
    ASSUME IInv, op = "idle"
    PROVE  handle = NoSlot /\ fresh = NoSlot
  BY DEF IInv, HandlesOK

LEMMA ReplayKeepsAgreement ==
    ASSUME IInv, ServiceTypeOK, Alive, Cache \in spawned, Replay
    PROVE  ServiceTypeOK'
<1>1. op = "idle" /\ UNCHANGED <<vars, history, supervisor>>
  BY DEF Replay, Goes
<1>2. UNCHANGED <<op, handle, fresh, phase, main, spawned, todo, lastUse, touched>>
  BY <1>1 DEF vars, history, supervisor
<1>3. handle = NoSlot /\ fresh = NoSlot
  BY <1>1, IdleHoldsNothing
<1>4. LineTyped'
  BY LineStaysTyped DEF ServiceTypeOK, LineTyped, ServiceNext, GeneratorThread
<1>5. place' \in Program!Places
  BY DEF Replay, Goes, Program!Places, ServiceTypeOK
<1> QED BY <1>1, <1>2, <1>3, <1>4, <1>5 DEF ServiceTypeOK, LineTyped

LEMMA UpdateClockKeepsAgreement ==
    ASSUME IInv, ServiceTypeOK, UpdateClock
    PROVE  ServiceTypeOK'
<1>1. /\ op = "idle" /\ place' = "push" /\ line' = line
      /\ UNCHANGED <<op, handle, fresh, phase, main, spawned, todo, lastUse, touched>>
  BY DEF UpdateClock, Tick, generator, cleaner, Program!UpdateClock, supervisor, history
<1>2. handle = NoSlot /\ fresh = NoSlot
  BY <1>1, IdleHoldsNothing
<1> QED BY <1>1, <1>2 DEF ServiceTypeOK, Program!Places

LEMMA UseTyped ==
    ASSUME ServiceTypeOK, Use
    PROVE  lastUse' \in [Keys -> 0..MaxTimestamp] /\ touched' \subseteq Keys
  BY KeyIsKey DEF ServiceTypeOK, Use, LineTyped, Program!Line

LEMMA GetKeepsAgreement ==
    ASSUME IInv, ServiceTypeOK, Get
    PROVE  ServiceTypeOK'
<1>1. /\ op = "idle" /\ line' = line /\ ~Program!IsPut(Cache)
      /\ UNCHANGED <<item, fresh, phase, main, spawned, todo>>
  BY DEF Get, GetMiss, GetHit, cleaner, Program!Get, Program!Executing, supervisor
<1>2. handle = NoSlot /\ fresh = NoSlot
  BY <1>1, IdleHoldsNothing
<1>3. CASE GetMiss(Key) /\ place' = "read" /\ UNCHANGED history
  BY <1>1, <1>2, <1>3 DEF GetMiss, ServiceTypeOK, Program!Places, history
<1>4. CASE GetHit(Key) /\ place' = "execute" /\ Use
  <2>1. /\ op' = "promote" /\ handle' = index[Key] /\ handle' # NoSlot
        /\ item[handle'].key = Key
    BY <1>4, KeyIsKey DEF GetHit, ServiceTypeOK, LineTyped, IInv, IndexOK
  <2>2. InUse' = Key' /\ ~Program!IsPut(Cache)'
    BY <1>1, <2>1 DEF InUse, Key, Program!IsPut
  <2>3. place' = "execute"
    BY <1>4
  <2> QED BY <1>1, <1>2, <1>4, <2>1, <2>2, <2>3, UseTyped DEF ServiceTypeOK, Program!Places
<1> QED BY <1>3, <1>4 DEF Get

LEMMA PutKeepsAgreement ==
    ASSUME IInv, ServiceTypeOK, Put
    PROVE  ServiceTypeOK'
<1>1. /\ op = "idle" /\ place = "execute" /\ line' = line /\ Program!IsPut(Cache)
      /\ UNCHANGED <<phase, main, spawned, todo>>
  BY DEF Put, PutAllocate, PutFails, cleaner, vars, trace, Program!Put, Program!Executing,
         supervisor
<1>2. handle = NoSlot /\ fresh = NoSlot
  BY <1>1, IdleHoldsNothing
<1>3. CASE PutAllocate(Key) /\ place' = place /\ Use
  <2>1. PICK s \in Slots : Allocate(Key, s)
    BY <1>3 DEF PutAllocate
  <2>2. item'[s].key = Key /\ fresh' = s /\ s # NoSlot
    <3>1. Key \in Keys
      BY KeyIsKey DEF ServiceTypeOK, LineTyped
    <3>2. item'[s] = [key |-> Key, last |-> time, width |-> Width(time)] /\ fresh' = s
      BY <2>1, <3>1, AllocateEffect
    <3> QED BY <3>2, SlotsAssumption
  <2>3. handle' = NoSlot /\ op' = "insert"
    BY <1>2, <1>3 DEF PutAllocate
  <2>4. InUse' = Key' /\ Program!IsPut(Cache)'
    BY <1>1, <2>2, <2>3 DEF InUse, Key, Program!IsPut
  <2> QED BY <1>1, <1>3, <2>3, <2>4, UseTyped DEF ServiceTypeOK
<1>4. CASE PutFails /\ place' = "read" /\ UNCHANGED history
  BY <1>1, <1>2, <1>4 DEF PutFails, vars, history, ServiceTypeOK, Program!Places
<1> QED BY <1>3, <1>4 DEF Put

LEMMA PutInsertKeepsAgreement ==
    ASSUME IInv, ServiceTypeOK, PutInsert
    PROVE  ServiceTypeOK'
<1>1. /\ op' = "idle" /\ handle' = NoSlot /\ fresh' = NoSlot /\ place' = "read" /\ line' = line
      /\ UNCHANGED <<phase, main, spawned, todo, lastUse, touched>>
  BY DEF PutInsert, Insert, cleaner, Program!Put, Program!Executing, supervisor, history
<1> QED BY <1>1 DEF ServiceTypeOK, Program!Places

LEMMA GetGoesOnKeepsAgreement ==
    ASSUME IInv, ServiceTypeOK, GetGoesOn
    PROVE  ServiceTypeOK'
<1>1. /\ UNCHANGED <<line, main, spawned, todo, lastUse, touched>>
      /\ place' = IF op' = "idle" THEN "read" ELSE place
      /\ handle # NoSlot /\ GeneratorStep
  BY DEF GetGoesOn, trace, supervisor, history
<1>2. phase' = phase
  BY <1>1 DEF GeneratorStep, GetPromote, GetRead, GetStamp, GetCopied, GetReallocate,
              GetNullHandle, Insert, GetRelease, cleaner
<1>3. CASE op # "idle" /\ op' # "idle" /\ handle' = handle /\ InUse' = InUse
  <2>1. InUse' = Key' /\ ~Program!IsPut(Cache)'
    BY <1>1, <1>3 DEF Key, Program!IsPut, ServiceTypeOK
  <2> QED BY <1>1, <1>2, <1>3, <2>1 DEF ServiceTypeOK
<1>4. CASE op = "release" /\ op' = "idle" /\ handle' = NoSlot /\ fresh' = NoSlot
  BY <1>1, <1>2, <1>4 DEF ServiceTypeOK, Program!Places
<1> QED BY <1>1, <1>3, <1>4, GetKeepsItsKey

LEMMA CleanKeepsAgreement ==
    ASSUME IInv, ServiceTypeOK, Clean
    PROVE  ServiceTypeOK'
<1>1. /\ UNCHANGED <<place, line, main, spawned, lastUse>>
      /\ main = "clean" /\ Cache \in todo
      /\ todo' = IF phase' = "idle" THEN todo \ {Cache} ELSE todo
      /\ touched' \in {touched, {InUse} \cap Keys}
  BY DEF Clean, Returns, trace
<1>2. UNCHANGED <<item, op, handle, fresh>> /\ InUse' = InUse
  BY CleanKeepsOperations DEF Clean
<1>3. Key' = Key /\ Program!IsPut(Cache)' = Program!IsPut(Cache)
  BY <1>1 DEF Key, Program!IsPut
<1> QED BY <1>1, <1>2, <1>3 DEF ServiceTypeOK

LEMMA SuperviseKeepsAgreement ==
    ASSUME IInv, ServiceTypeOK, Supervise
    PROVE  ServiceTypeOK'
<1>1. UNCHANGED <<item, op, handle, fresh, phase, place, line, lastUse, touched>>
  BY DEF Supervise, vars, trace, history
<1>2. InUse' = InUse /\ Key' = Key /\ Program!IsPut(Cache)' = Program!IsPut(Cache)
  BY <1>1 DEF InUse, Key, Program!IsPut
<1>3. /\ spawned' \subseteq {Cache}
      /\ main' # "spawn" => spawned' = {Cache}
      /\ phase # "idle" => main' = "clean" /\ Cache \in todo'
  BY DEF Supervise, ServiceTypeOK, Program!Spawn, Program!StartChecking, Program!Check,
         Program!Checked, Program!Join, Program!Return
<1> QED BY <1>1, <1>2, <1>3 DEF ServiceTypeOK

LEMMA AgreementStays ==
    ASSUME IInv, ServiceTypeOK, [ServiceNext]_all
    PROVE  ServiceTypeOK'
<1>1. CASE Alive /\ GeneratorThread
  BY <1>1, ReplayKeepsAgreement, UpdateClockKeepsAgreement, GetKeepsAgreement,
     PutKeepsAgreement, PutInsertKeepsAgreement, GetGoesOnKeepsAgreement DEF GeneratorThread
<1>2. CASE Alive /\ MainThread
  BY <1>2, SuperviseKeepsAgreement, CleanKeepsAgreement DEF MainThread
<1>3. CASE UNCHANGED all
  <2>1. UNCHANGED <<item, op, handle, fresh, phase, place, line, main, spawned, todo,
                    lastUse, touched>>
    BY <1>3 DEF all, vars, trace, supervisor, history
  <2>2. InUse' = InUse /\ Key' = Key /\ Program!IsPut(Cache)' = Program!IsPut(Cache)
    BY <2>1 DEF InUse, Key, Program!IsPut
  <2> QED BY <2>1, <2>2 DEF ServiceTypeOK
<1> QED BY <1>1, <1>2, <1>3 DEF ServiceNext

\* The parts agree on what they are doing, whichever thread ran last.
THEOREM PartsAgree == ServiceSpec => []ServiceTypeOK
<1>1. ServiceInit => ServiceTypeOK
  <2> SUFFICES ASSUME ServiceInit PROVE ServiceTypeOK
    OBVIOUS
  <2>1. LineTyped
    BY InitLineTyped
  <2>2. /\ place = "open" /\ lastUse = [k \in Keys |-> 0] /\ touched = {}
        /\ spawned = {} /\ main = "spawn"
        /\ op = "idle" /\ handle = NoSlot /\ fresh = NoSlot /\ phase = "idle"
    BY DEF ServiceInit, Program!SInit, Init
  <2> QED BY <2>1, <2>2, ServiceAssumption DEF ServiceTypeOK, LineTyped, Program!Places
<1> QED BY <1>1, AgreementStays, ServiceRefinesCache, Invariance, PTL DEF ServiceSpec

---------------------------------------------------------------------------
(* The composition is a program *)

\* What the program sees of the cache, but for its entries.
LEMMA CacheUnseen ==
    ASSUME UNCHANGED <<trace, supervisor>>, At' = At, UNCHANGED time, UNCHANGED index
    PROVE  UNCHANGED Program!vars
<1>1. Time' = Time /\ Content' = Content
  BY DEF Time, Content
<1> QED BY <1>1 DEF Program!vars, Program!gvars, Program!svars, trace, supervisor

\* A step that only takes entries out of the index.
LEMMA EntriesGo ==
    ASSUME UNCHANGED trace, At' = At, UNCHANGED time,
           \A k \in Keys : index'[k] \in {index[k], NoSlot}
    PROVE  Program!Lose(Cache)
<1> DEFINE K == {k \in Keys : index[k] # NoSlot /\ index'[k] = NoSlot}
<1>1. Content' = [Content EXCEPT ![Cache] = @ \ K]
  <2>1. {k \in Keys : index'[k] # NoSlot} = {k \in Keys : index[k] # NoSlot} \ K
    OBVIOUS
  <2> HIDE DEF K
  <2> QED BY <2>1 DEF Content
<1>2. Time' = Time
  BY DEF Time
<1>3. K \in SUBSET Keys
  OBVIOUS
<1> HIDE DEF K
<1> QED BY <1>1, <1>2, <1>3 DEF Program!Lose, trace

LEMMA EvictionSeen ==
    ASSUME Alive, Cache \in spawned, UNCHANGED <<trace, supervisor>>, At' = At, UNCHANGED time,
           \A k \in Keys : index'[k] \in {index[k], NoSlot}
    PROVE  Program!SNext
  BY EntriesGo DEF Alive, Program!SNext, Program!Evict, Program!svars, supervisor

\* An entry that is inserted for the key of the line.
LEMMA EntryStored ==
    ASSUME IInv, ServiceTypeOK, Insert
    PROVE  Program!Stored(Cache)
<1>1. /\ index' = [index EXCEPT ![item[fresh].key] = fresh]
      /\ fresh # NoSlot /\ op # "idle"
  BY DEF Insert, IInv, HandlesOK
<1>2. item[fresh].key = Key /\ Key \in Keys
  <2>1. InUse = Key /\ LineTyped
    BY <1>1 DEF ServiceTypeOK, LineTyped
  <2>2. handle # NoSlot => item[fresh].key = item[handle].key
    BY <1>1 DEF IInv, HandlesOK
  <2> QED BY <1>1, <2>1, <2>2, KeyIsKey DEF InUse
<1>3. {k \in Keys : index'[k] # NoSlot} = {k \in Keys : index[k] # NoSlot} \cup {Key}
  BY <1>1, <1>2 DEF IInv, TypeOK
<1>4. Content' = [Content EXCEPT ![Cache] = @ \cup {Key}]
  BY <1>3 DEF Content
<1> QED BY <1>4 DEF Program!Stored, Key

\* The steps that are written as those of the program.
LEMMA ReplaySeen ==
    ASSUME Alive, Cache \in spawned, Replay \/ UpdateClock \/ Get \/ PutInsert
    PROVE  Program!SNext
<1>1. Program!Run(Cache)
  BY DEF Replay, UpdateClock, Get, PutInsert, Program!Run, Alive
<1>2. UNCHANGED supervisor
  BY DEF Replay, UpdateClock, Get, PutInsert
<1> QED BY <1>1, <1>2 DEF Program!SNext, Program!Generate, Program!svars, supervisor

LEMMA PutSeen ==
    ASSUME IInv, ServiceTypeOK, Alive, Cache \in spawned, Put
    PROVE  [Program!SNext]_Program!vars
<1>1. CASE Program!Put(Cache)
  <2>1. Program!Run(Cache)
    BY <1>1 DEF Program!Run, Alive
  <2>2. UNCHANGED supervisor
    BY DEF Put
  <2> QED BY <2>1, <2>2 DEF Program!SNext, Program!Generate, Program!svars, supervisor
<1>2. CASE PutAllocate(Key) /\ place' = place /\ UNCHANGED trace
  <2>1. PICK s \in Slots : Allocate(Key, s)
    BY <1>2 DEF PutAllocate
  <2>2. Key \in Keys
    BY KeyIsKey DEF ServiceTypeOK, LineTyped
  <2>3. \A j \in Keys : index'[j] # NoSlot => index'[j] = index[j]
    BY <2>1, <2>2, AllocateEffect
  <2>4. handle' = NoSlot /\ handle = NoSlot /\ UNCHANGED <<time, supervisor>>
    BY <1>2, IdleHoldsNothing DEF Put, PutAllocate
  <2>5. At' = At
    BY <1>2, <2>4 DEF At
  <2> QED BY <1>2, <2>3, <2>4, <2>5, EvictionSeen
<1> QED BY <1>1, <1>2 DEF Put

\* get is seen to end when it has written the stamp of its entry.
LEMMA GetGoesOnSeen ==
    ASSUME IInv, ServiceTypeOK, Alive, Cache \in spawned, GetGoesOn
    PROVE  [Program!SNext]_Program!vars
<1>1. /\ UNCHANGED <<trace, supervisor>> /\ handle # NoSlot /\ GeneratorStep
      /\ place' = IF op' = "idle" THEN "read" ELSE place
      /\ place = "execute"
  <2>1. op # "idle"
    BY DEF GetGoesOn, IInv, HandlesOK
  <2> QED BY <2>1 DEF GetGoesOn, ServiceTypeOK
<1>2. CASE GetPromote \/ GetRead \/ GetStamp \/ GetNullHandle
  <2>1. /\ op # "release" /\ op' # "idle" /\ op' # "release" /\ handle' = handle
        /\ UNCHANGED <<index, time>>
    BY <1>2 DEF GetPromote, GetRead, GetStamp, GetNullHandle, pool
  <2>2. At' = At
    BY <1>1, <2>1 DEF At
  <2> QED BY <1>1, <2>1, <2>2, CacheUnseen
<1>3. CASE GetReallocate
  <2>1. PICK s \in Slots : Allocate(item[handle].key, s)
    BY <1>3 DEF GetReallocate
  <2>2. item[handle].key \in Keys
    BY <1>1 DEF IInv, HandlesOK, TypeOK, Item
  <2>3. \A j \in Keys : index'[j] # NoSlot => index'[j] = index[j]
    BY <2>1, <2>2, AllocateEffect
  <2>4. op = "stamp" /\ op' = "insert" /\ handle' = handle /\ UNCHANGED time
    BY <1>3 DEF GetReallocate
  <2>5. At' = At
    BY <1>1, <2>4 DEF At
  <2> QED BY <1>1, <2>3, <2>4, <2>5, EvictionSeen
<1>4. CASE GetCopied \/ Insert
  <2>1. /\ op # "release" /\ op' = "release" /\ handle' = handle /\ UNCHANGED time
    BY <1>1, <1>4 DEF GetCopied, Insert
  <2>2. At[Cache] = "refresh" /\ At' = [At EXCEPT ![Cache] = "read"]
    BY <1>1, <2>1 DEF At
  <2>3. Time' = Time
    BY <2>1 DEF Time
  <2>4. CASE GetCopied
    <3>1. Content' = Content
      BY <2>4 DEF GetCopied, pool, Content
    <3>2. Program!Stored(Cache)
      BY <3>1 DEF Program!Stored
    <3>3. Program!Refresh(Cache)
      BY <1>1, <2>2, <2>3, <3>2 DEF Program!Refresh, trace
    <3> QED BY <1>1, <3>3 DEF Program!Run, Program!Generate, Program!SNext, Alive,
                             Program!svars, supervisor
  <2>5. CASE Insert
    <3>1. Program!Refresh(Cache)
      BY <1>1, <2>2, <2>3, <2>5, EntryStored DEF Program!Refresh, trace
    <3> QED BY <1>1, <3>1 DEF Program!Run, Program!Generate, Program!SNext, Alive,
                             Program!svars, supervisor
  <2> QED BY <1>4, <2>4, <2>5
<1>5. CASE GetRelease
  <2>1. /\ op = "release" /\ op' = "idle" /\ handle' = NoSlot /\ UNCHANGED <<index, time>>
    BY <1>5 DEF GetRelease
  <2>2. At' = At
    BY <1>1, <2>1 DEF At
  <2> QED BY <1>1, <2>1, <2>2, CacheUnseen
<1> QED BY <1>1, <1>2, <1>3, <1>4, <1>5 DEF GeneratorStep

\* clean is seen to take its entries out one by one, and then to return.
LEMMA CleanSeen ==
    ASSUME IInv, ServiceTypeOK, Alive, Clean
    PROVE  [Program!SNext]_Program!vars
<1>1. /\ UNCHANGED <<place, trace, main, spawned, allFinished>>
      /\ main = "clean" /\ Cache \in todo /\ Cache \in spawned
      /\ todo' = IF phase' = "idle" THEN todo \ {Cache} ELSE todo
  BY DEF Clean, Returns, ServiceTypeOK
<1>2. UNCHANGED <<op, handle, time>>
  BY CleanKeepsOperations DEF Clean
<1>3. At' = At
  BY <1>1, <1>2 DEF At
<1>4. \A k \in Keys : index'[k] \in {index[k], NoSlot}
  BY DEF Clean, CleanDecide, CleanStep, CleanMeasure, CleanLock, CleanCollect, CleanStop,
         CleanRemove, CleanRemoved, CleanReport, pool, IInv, TypeOK
<1>5. CASE phase' = "idle"
  <2>1. Program!Lose(Cache)
    BY <1>1, <1>2, <1>3, <1>4, EntriesGo
  <2>2. Program!Clean(Cache)
    BY <1>1, <1>5, <2>1 DEF Program!Clean
  <2> QED BY <2>2 DEF Program!SNext, Program!Supervise, Alive
<1>6. CASE phase' # "idle"
  BY <1>1, <1>2, <1>3, <1>4, <1>6, EvictionSeen DEF supervisor
<1> QED BY <1>5, <1>6

LEMMA ServiceStepsProgram ==
    ASSUME IInv, ServiceTypeOK, [ServiceNext]_all
    PROVE  [Program!SNext]_Program!vars
<1>1. CASE Alive /\ GeneratorThread
  BY <1>1, ReplaySeen, PutSeen, GetGoesOnSeen DEF GeneratorThread
<1>2. CASE Alive /\ Supervise
  BY <1>2 DEF Supervise, Program!SNext, Program!Supervise, Alive, ServiceTypeOK
<1>3. CASE Alive /\ Clean
  BY <1>3, CleanSeen
<1>4. CASE UNCHANGED all
  <2>1. UNCHANGED <<trace, supervisor, time, index>> /\ At' = At
    BY <1>4 DEF all, vars, At
  <2> QED BY <2>1, CacheUnseen
<1> QED BY <1>1, <1>2, <1>3, <1>4 DEF ServiceNext, MainThread

\* The program with the inside of its cache does what modules Generator and
\* Supervisor allow: to the other parts, get, put and clean are what the single
\* steps there say of them.
THEOREM ServiceRefinesProgram == ServiceSpec => ImplementsProgram
<1>1. ServiceInit => Program!SInit
  BY DEF ServiceInit
<1> QED BY <1>1, ServiceStepsProgram, ServiceRefinesCache, Invariance, PartsAgree, PTL
        DEF ServiceSpec, ImplementsProgram, Program!SSpec

---------------------------------------------------------------------------
(* What is proved of the program holds *)

\* The two instances are the same program.
LEMMA SameProgram == Program!SSpec => Shown!SSpec
<1>1. Program!SInit => Shown!SInit
  BY DEF Program!SInit, Shown!SInit, Program!Init, Shown!Init, Program!Line, Shown!Line,
         Program!Zero, Shown!Zero
<1>2. [Program!SNext]_Program!vars => [Shown!SNext]_Shown!vars
  BY DEF Program!SNext, Shown!SNext, Program!vars, Shown!vars, Program!svars,
         Shown!svars, Program!Supervise, Shown!Supervise, Program!Spawn, Shown!Spawn,
         Program!StartChecking, Shown!StartChecking, Program!Check, Shown!Check,
         Program!Checked, Shown!Checked, Program!Clean, Shown!Clean, Program!Join,
         Shown!Join, Program!Return, Shown!Return, Program!Generate, Shown!Generate,
         Program!Evict, Shown!Evict, Program!gvars, Shown!gvars, Program!Zero,
         Shown!Zero, Program!Run, Shown!Run, Program!Lose, Shown!Lose, Program!Open,
         Shown!Open, Program!OpenFails, Shown!OpenFails, Program!ReadLine,
         Shown!ReadLine, Program!ReadBadLine, Shown!ReadBadLine, Program!Close,
         Shown!Close, Program!Finish, Shown!Finish, Program!SameSecond,
         Shown!SameSecond, Program!UpdateClock, Shown!UpdateClock, Program!PushMetrics,
         Shown!PushMetrics, Program!Get, Shown!Get, Program!Refresh, Shown!Refresh,
         Program!Put, Shown!Put, Program!Executing, Shown!Executing, Program!Stored,
         Shown!Stored, Program!NewSecond, Shown!NewSecond, Program!LimitReached,
         Shown!LimitReached, Program!IsPut, Shown!IsPut, Program!Plus, Shown!Plus,
         Program!Gap, Shown!Gap, Program!Line, Shown!Line
<1> QED BY <1>1, <1>2, PTL DEF Program!SSpec, Shown!SSpec

\* What module SupervisorProofs proves of every program: the clock is not ahead of
\* the trace and not behind it but for skipped seconds, the replay stops at its
\* limit, nothing that was served is missing in the reports, and main joins
\* generators that have finished.
THEOREM ServiceKeepsPromises ==
    ServiceSpec => /\ []Program!ClockNotAhead
                   /\ []Program!LinesOnTime
                   /\ []Program!OneLineAfterTheEnd
                   /\ []Program!RequestsAreReported
                   /\ []Program!JoinsWhenAllFinished
                   /\ []Program!EverythingIsReported
<1>1. ServiceSpec => Shown!SSpec
  BY ServiceRefinesProgram, SameProgram DEF ImplementsProgram
<1>2. Shown!SSpec => Shown!Spec
  BY Shown!SupervisorRefinesGenerator, ServiceAssumption
<1>3. Shown!Spec => []Shown!ClockNotAhead
  BY Shown!ClockFollowsTrace, ServiceAssumption
<1>4. Shown!Spec => []Shown!LinesOnTime
  BY Shown!NoLineIsLate, ServiceAssumption
<1>5. Shown!Spec => []Shown!OneLineAfterTheEnd
  BY Shown!ReplayEnds, ServiceAssumption
<1>6. Shown!Spec => []Shown!RequestsAreReported
  BY Shown!ReportsAddUp, ServiceAssumption
<1>7. Shown!SSpec => []Shown!JoinsWhenAllFinished
  BY Shown!JoinsOnlyTheFinished, ServiceAssumption
<1>8. Shown!SSpec => []Shown!EverythingIsReported
  BY Shown!NothingIsLost, ServiceAssumption
<1>9. /\ Shown!ClockNotAhead => Program!ClockNotAhead
      /\ Shown!LinesOnTime => Program!LinesOnTime
      /\ Shown!OneLineAfterTheEnd => Program!OneLineAfterTheEnd
      /\ Shown!RequestsAreReported => Program!RequestsAreReported
      /\ Shown!JoinsWhenAllFinished => Program!JoinsWhenAllFinished
      /\ Shown!EverythingIsReported => Program!EverythingIsReported
  BY DEF Program!ClockNotAhead, Shown!ClockNotAhead, Program!LinesOnTime, Shown!LinesOnTime,
         Program!OneLineAfterTheEnd, Shown!OneLineAfterTheEnd,
         Program!RequestsAreReported, Shown!RequestsAreReported, Program!Plus, Shown!Plus,
         Program!JoinsWhenAllFinished, Shown!JoinsWhenAllFinished,
         Program!EverythingIsReported, Shown!EverythingIsReported
<1> QED BY <1>1, <1>2, <1>3, <1>4, <1>5, <1>6, <1>7, <1>8, <1>9, PTL

---------------------------------------------------------------------------
(* clean and the trace: the invariant *)

\* What is known of the program in every state.
Known ==
    /\ IInv /\ UsedOK /\ ServiceTypeOK
    /\ Program!ClockNotAhead /\ Program!LinesOnTime
    /\ latest \in [{Cache} -> Nat] /\ skipped \in [{Cache} -> Nat]

\* While a line is executed the clock is behind it by no more than was skipped.
Timely == place = "execute" => line[Cache].timestamp <= time + skipped[Cache]

\* The last request of every entry is as recent as the trace says, but for the
\* key in use.
Dated ==
    /\ op # "idle" => lastUse[Key] = line[Cache].timestamp
    /\ \A k \in Keys :
          index[k] # NoSlot /\ (op = "idle" \/ k # Key)
          => lastUse[k] <= item[index[k]].last + skipped[Cache]

\* The views that clean keeps lead to entries that are too old, or of keys that
\* were in use since it took the lock.
Due(k) == index[k] = NoSlot \/ TooOld(index[k]) \/ k \in touched

Collecting ==
    phase \in {"scan", "remove"} =>
        /\ op # "idle" => Key \in touched
        /\ \A i \in 1..Len(toRemove) : Due(item[toRemove[i]].key)

JInv == Timely /\ Dated /\ Collecting

LEMMA KnownAlways == ServiceSpec => []Known
<1>1. ServiceSpec => Shown!SSpec
  BY ServiceRefinesProgram, SameProgram DEF ImplementsProgram
<1>2. Shown!SSpec => []Shown!STypeOK
  BY Shown!SupervisorTypeCorrect, ServiceAssumption
<1>3. Shown!STypeOK => latest \in [{Cache} -> Nat] /\ skipped \in [{Cache} -> Nat]
  BY ServiceAssumption DEF Shown!STypeOK, Shown!TypeOK
<1>4. Spec => []UsedOK
  <2>1. Init => UsedOK
    BY DEF Init, UsedOK
  <2> QED BY <2>1, UsedInvariant, Invariance, PTL DEF Spec
<1> QED BY <1>1, <1>2, <1>3, <1>4, ServiceRefinesCache, Invariance, PartsAgree,
           ServiceKeepsPromises, PTL DEF Known

---------------------------------------------------------------------------
(* What the generator's thread does to entries and history *)

\* The steps that change entries.
LEMMA GeneratorKinds ==
    ASSUME GeneratorThread
    PROVE  \/ UNCHANGED <<item, index>>
           \/ PutAllocate(Key) /\ line' = line
           \/ (GetReallocate \/ Insert \/ GetCopied) /\ line' = line
<1>1. CASE Replay \/ UpdateClock \/ Get
  BY <1>1 DEF Replay, Goes, vars, UpdateClock, Tick, pool, Get, GetMiss, GetHit
<1>2. CASE Put
  BY <1>2 DEF Put, PutFails, vars, trace
<1>3. CASE PutInsert
  BY <1>3 DEF PutInsert, Program!Put, Program!Executing
<1>4. CASE GetGoesOn
  BY <1>4 DEF GetGoesOn, GeneratorStep, GetPromote, GetRead, GetStamp, GetNullHandle,
              GetRelease, pool, trace
<1> QED BY <1>1, <1>2, <1>3, <1>4 DEF GeneratorThread

\* What get and put hold is of the key of the line.
LEMMA HoldsKey ==
    ASSUME Known
    PROVE  /\ Key \in Keys
           /\ op # "idle" => InUse = Key
           /\ handle # NoSlot => handle \in Slots /\ item[handle].key = Key
           /\ fresh # NoSlot => fresh \in Slots /\ item[fresh].key = Key
<1>1. Key \in Keys
  BY KeyIsKey DEF Known, ServiceTypeOK, LineTyped
<1>2. op # "idle" => InUse = Key
  BY DEF Known, ServiceTypeOK
<1>3. /\ handle # NoSlot => op # "idle"
      /\ fresh # NoSlot => op # "idle"
      /\ handle # NoSlot /\ fresh # NoSlot => item[fresh].key = item[handle].key
      /\ handle \in Slots \cup {NoSlot} /\ fresh \in Slots \cup {NoSlot}
  BY DEF Known, IInv, HandlesOK, TypeOK
<1> QED BY <1>1, <1>2, <1>3 DEF InUse

\* The generator writes the entry of no key but the one in use, and a slot only
\* changes its key for that key.
LEMMA OtherEntriesStay ==
    ASSUME Known, GeneratorThread
    PROVE  /\ \A k \in Keys :
                 index'[k] # NoSlot /\ (op = "idle" \/ k # Key) /\ (op' = "idle" \/ k # Key')
                 => index'[k] = index[k] /\ item'[index[k]] = item[index[k]]
           /\ \A s \in Slots : \/ item'[s].key = item[s].key
                               \/ op' # "idle" /\ item'[s].key = Key'
<1>1. CASE UNCHANGED <<item, index>>
  BY <1>1
<1>2. ASSUME NEW s \in Slots, Allocate(Key, s), op' = "insert", line' = line
      PROVE  /\ \A k \in Keys :
                   index'[k] # NoSlot /\ (op' = "idle" \/ k # Key')
                   => index'[k] = index[k] /\ item'[index[k]] = item[index[k]]
             /\ \A t \in Slots : \/ item'[t].key = item[t].key
                                 \/ op' # "idle" /\ item'[t].key = Key'
  <2>1. /\ \A j \in Keys : index'[j] # NoSlot => index'[j] = index[j] /\ index'[j] # s
        /\ index \in [Keys -> Slots \cup {NoSlot}]
        /\ \A t \in Slots \ {s} : item'[t] = item[t]
        /\ item'[s] = [key |-> Key, last |-> time, width |-> Width(time)]
    BY <1>2, HoldsKey, AllocateEffect DEF Known, IInv, TypeOK
  <2>2. Key' = Key
    BY <1>2 DEF Key
  <2> QED BY <1>2, <2>1, <2>2
<1>3. CASE PutAllocate(Key) /\ line' = line
  BY <1>2, <1>3 DEF PutAllocate
<1>4. CASE GetReallocate /\ line' = line
  <2>1. item[handle].key = Key
    BY <1>4, HoldsKey DEF GetReallocate, Known, IInv, HandlesOK
  <2> QED BY <1>2, <1>4, <2>1 DEF GetReallocate
<1>5. CASE Insert /\ line' = line
  <2>1. /\ item' = item /\ op # "idle"
        /\ index' = [index EXCEPT ![Key] = fresh]
    BY <1>5, HoldsKey DEF Insert, Known, IInv, HandlesOK
  <2> QED BY <2>1 DEF Known, IInv, TypeOK
<1>6. CASE GetCopied /\ line' = line
  <2>1. /\ index' = index /\ op # "idle"
        /\ item' = [item EXCEPT ![handle].last = time]
        /\ handle \in Slots /\ item[handle].key = Key
    BY <1>6, HoldsKey DEF GetCopied, pool, Known, IInv, HandlesOK
  <2>2. \A k \in Keys : index[k] # NoSlot => index[k] \in Slots /\ item[index[k]].key = k
    BY DEF Known, IInv, IndexOK, TypeOK
  <2>3. \A s \in Slots : item'[s].key = item[s].key
    BY <2>1 DEF Known, IInv, TypeOK, Item
  <2>4. \A s \in Slots \ {handle} : item'[s] = item[s]
    BY <2>1 DEF Known, IInv, TypeOK
  <2> QED BY <2>1, <2>2, <2>3, <2>4
<1> QED BY <1>1, <1>3, <1>4, <1>5, <1>6, GeneratorKinds

\* The history: a use is of the key in use, and touches it.
LEMMA HistoryGrows ==
    ASSUME Known, GeneratorThread
    PROVE  /\ \A k \in Keys : lastUse'[k] = lastUse[k] \/ (op' # "idle" /\ k = Key')
           /\ touched \subseteq touched'
           /\ op = "idle" /\ op' # "idle" =>
                 Key' \in touched' /\ lastUse'[Key'] = line'[Cache].timestamp
           /\ op # "idle" => UNCHANGED <<lastUse, touched, line>>
           /\ UNCHANGED <<phase, toRemove, target, scanStart>>
<1>1. UNCHANGED <<phase, toRemove, target, scanStart>>
  BY DEF GeneratorThread, Replay, Goes, vars, UpdateClock, Tick, Get, GetMiss, GetHit, Put,
         PutAllocate, PutFails, PutInsert, GetGoesOn, GeneratorStep, GetPromote, GetRead,
         GetStamp, GetCopied, GetReallocate, GetNullHandle, Insert, GetRelease, cleaner
<1>2. CASE Use /\ op = "idle" /\ op' # "idle" /\ line' = line
  BY <1>1, <1>2, HoldsKey DEF Use, Key, Known, ServiceTypeOK
<1>3. CASE UNCHANGED <<lastUse, touched>> /\ (op # "idle" => line' = line)
                                          /\ (op = "idle" => op' = "idle")
  BY <1>1, <1>3
<1>4. CASE Replay \/ UpdateClock
  BY <1>3, <1>4 DEF Replay, Goes, UpdateClock, Tick, vars, generator, history
<1>5. CASE Get
  BY <1>2, <1>3, <1>5 DEF Get, GetMiss, GetHit, Program!Get, Program!Executing, history
<1>6. CASE Put
  BY <1>2, <1>3, <1>6 DEF Put, PutAllocate, PutFails, Program!Put, Program!Executing, history,
                          trace, vars
<1>7. CASE PutInsert
  <2>1. UNCHANGED <<lastUse, touched, line>> /\ op = "insert"
    BY <1>7 DEF PutInsert, Insert, history, Program!Put, Program!Executing
  <2> QED BY <1>3, <2>1
<1>8. CASE GetGoesOn
  <2>1. UNCHANGED <<lastUse, touched, line>> /\ op # "idle"
    BY <1>8 DEF GetGoesOn, history, trace, Known, IInv, HandlesOK
  <2> QED BY <1>3, <2>1
<1> QED BY <1>4, <1>5, <1>6, <1>7, <1>8 DEF GeneratorThread

\* Time and the seconds that were skipped only grow, and stand still in a call.
LEMMA ClocksGrow ==
    ASSUME Known, Known', GeneratorThread
    PROVE  /\ time <= time' /\ skipped[Cache] <= skipped'[Cache]
           /\ op # "idle" => UNCHANGED <<time, skipped>>
           /\ time \in Nat /\ time' \in Nat
<1>1. time \in Nat /\ time' \in Nat
  BY ClockAssumption DEF Known, IInv, TypeOK
<1>2. time' = time \/ (op = "idle" /\ time' = time + 1)
  BY DEF GeneratorThread, Replay, Goes, vars, UpdateClock, Tick, Get, GetMiss, GetHit, Put,
         PutAllocate, PutFails, PutInsert, GetGoesOn, GeneratorStep, GetPromote, GetRead,
         GetStamp, GetCopied, GetReallocate, GetNullHandle, Insert, GetRelease
<1>3. skipped' = skipped \/ (op = "idle" /\ Program!ReadLine(Cache))
  <2>1. CASE Replay
    BY <2>1 DEF Replay, Goes, Program!Open, Program!OpenFails, Program!ReadBadLine,
                Program!Close, Program!Finish, Program!SameSecond, Program!PushMetrics
  <2>2. CASE UpdateClock \/ Get \/ Put \/ PutInsert \/ GetGoesOn
    BY <2>2 DEF UpdateClock, Get, Put, PutInsert, GetGoesOn, trace, Program!UpdateClock,
                Program!Get, Program!Put, Program!Executing
  <2> QED BY <2>1, <2>2 DEF GeneratorThread
<1>4. ASSUME Program!ReadLine(Cache)
      PROVE  skipped[Cache] <= skipped'[Cache]
  <2>1. PICK l \in Program!Line :
            skipped' = [skipped EXCEPT ![Cache] = @ + Program!Gap(latest[Cache], l.timestamp)]
    BY <1>4 DEF Program!ReadLine
  <2>2. Program!Gap(latest[Cache], l.timestamp) \in Nat
    BY ServiceAssumption DEF Program!Gap, Program!Line, Known
  <2>3. skipped'[Cache] = skipped[Cache] + Program!Gap(latest[Cache], l.timestamp)
    BY <2>1 DEF Known
  <2> QED BY <2>2, <2>3 DEF Known
<1>5. skipped[Cache] <= skipped'[Cache]
  BY <1>3, <1>4 DEF Known
<1> QED BY <1>1, <1>2, <1>3, <1>5

\* When get or put returns, the entry of its key has the current time.
LEMMA ReturnsStamped ==
    ASSUME Known, GeneratorThread, op # "idle", op' = "idle"
    PROVE  index'[Key] # NoSlot => item'[index'[Key]].last = time
<1>1. CASE PutInsert
  <2>1. /\ item' = item /\ fresh \in Slots /\ Key \in Keys
        /\ index' = [index EXCEPT ![Key] = fresh]
        /\ item[fresh].last = time
    BY <1>1, HoldsKey DEF PutInsert, Insert, Known, IInv, HandlesOK
  <2> QED BY <2>1 DEF Known, IInv, TypeOK
<1>2. CASE GetGoesOn
  <2>1. GetRelease
    BY <1>2 DEF GetGoesOn, GeneratorStep, GetPromote, GetRead, GetStamp, GetCopied,
                GetReallocate, GetNullHandle, Insert
  <2>2. item[handle].key = Key
    BY <1>2, HoldsKey DEF GetGoesOn
  <2> QED BY <2>1, <2>2 DEF GetRelease, Known, UsedOK
<1> QED BY <1>1, <1>2 DEF GeneratorThread, Replay, Goes, UpdateClock, Tick, Get, GetMiss,
           GetHit, Put, PutAllocate, PutFails

---------------------------------------------------------------------------
(* clean and the trace: the invariant is inductive *)

LEMMA TimelyStays ==
    ASSUME Known, Known', Timely, [ServiceNext]_all
    PROVE  Timely'
<1>1. CASE place' = "execute" /\ handle' = NoSlot
  <2>1. At'[Cache] = "execute" /\ Time'[Cache] = time'
    BY <1>1 DEF At, Time
  <2> QED BY <2>1 DEF Timely, Known, Program!LinesOnTime
<1>2. ASSUME place' = "execute", handle' # NoSlot
      PROVE  place = "execute" /\ UNCHANGED <<time, line, skipped>>
  <2>1. CASE Alive /\ GeneratorThread /\ op # "idle"
    BY <2>1, HistoryGrows, ClocksGrow DEF Known, ServiceTypeOK
  <2>2. CASE Alive /\ GeneratorThread /\ op = "idle"
    <3>1. handle = NoSlot
      BY <2>2, IdleHoldsNothing DEF Known
    <3>2. Get /\ GetHit(Key)
      BY <1>2, <2>2, <3>1 DEF GeneratorThread, Replay, Goes, vars, UpdateClock, Tick, generator,
                     Get, GetMiss, Put, PutAllocate, PutFails, PutInsert, Insert, GetGoesOn
    <3>3. At[Cache] = "execute" /\ At[Cache] = place
      BY <3>1, <3>2 DEF Get, Program!Get, Program!Executing, At
    <3> QED BY <3>2, <3>3 DEF Get, GetHit, Program!Get, Program!Executing
  <2>3. CASE Alive /\ MainThread
    <3>1. UNCHANGED <<place, handle, time, line, skipped>>
      BY <2>3, CleanKeepsOperations DEF MainThread, Supervise, Clean, vars, trace
    <3>2. op # "idle"
      BY <1>2, <3>1 DEF Known, IInv, HandlesOK
    <3> QED BY <3>1, <3>2 DEF Known, ServiceTypeOK
  <2>4. CASE UNCHANGED all
    BY <1>2, <2>4 DEF all, vars, trace
  <2> QED BY <2>1, <2>2, <2>3, <2>4 DEF ServiceNext
<1> QED BY <1>1, <1>2 DEF Timely

\* clean takes entries out and writes none.
LEMMA CleanTakesOut ==
    ASSUME Known, CleanDecide \/ CleanStep
    PROVE  \A k \in Keys : index'[k] # NoSlot => index'[k] = index[k]
<1>1. CASE CleanRemove
  BY <1>1 DEF CleanRemove, Known, IInv, TypeOK
<1>2. CASE ~CleanRemove
  BY <1>2 DEF CleanDecide, CleanStep, CleanMeasure, CleanLock, CleanCollect, CleanStop,
              CleanRemoved, CleanReport, pool
<1> QED BY <1>1, <1>2

LEMMA DatedStays ==
    ASSUME Known, Known', Timely, Dated, [ServiceNext]_all
    PROVE  Dated'
<1>1. ASSUME Alive, GeneratorThread
      PROVE  Dated'
  <2>1. op' # "idle" => lastUse'[Key'] = line'[Cache].timestamp
    BY <1>1, HistoryGrows DEF Dated, Key
  <2>2. ASSUME NEW k \in Keys, index'[k] # NoSlot, op' = "idle" \/ k # Key'
        PROVE  lastUse'[k] <= item'[index'[k]].last + skipped'[Cache]
    <3>1. lastUse'[k] = lastUse[k] /\ lastUse[k] \in Nat
      BY <1>1, <2>2, HistoryGrows, ServiceAssumption DEF Known, ServiceTypeOK
    <3>2. skipped[Cache] \in Nat /\ skipped'[Cache] \in Nat /\ skipped[Cache] <= skipped'[Cache]
      BY <1>1, ClocksGrow DEF Known
    <3>3. CASE op = "idle" \/ k # Key
      <4>1. index'[k] = index[k] /\ item'[index[k]] = item[index[k]]
        BY <1>1, <2>2, <3>3, OtherEntriesStay
      <4>2. item[index[k]].last \in Nat
        BY <2>2, <4>1 DEF Known, IInv, TypeOK, Item
      <4> QED BY <2>2, <3>1, <3>2, <3>3, <4>1, <4>2 DEF Dated
    <3>4. CASE op # "idle" /\ k = Key
      <4>1. Key' = Key
        BY <1>1, <3>4, HistoryGrows DEF Key
      <4>2. op' = "idle"
        BY <2>2, <3>4, <4>1
      <4>3. item'[index'[k]].last = time /\ skipped' = skipped
        BY <1>1, <2>2, <3>4, <4>2, ReturnsStamped, ClocksGrow
      <4>4. lastUse[k] <= time + skipped[Cache]
        BY <3>4 DEF Dated, Timely, Known, ServiceTypeOK
      <4> QED BY <3>1, <4>3, <4>4
    <3> QED BY <3>3, <3>4
  <2> QED BY <2>1, <2>2 DEF Dated
<1>2. CASE Alive /\ MainThread
  <2>1. CASE Clean
    <3>1. UNCHANGED <<item, op, lastUse, line, skipped>> /\ Key' = Key
      BY <2>1, CleanKeepsOperations DEF Clean, trace, Key
    <3>2. \A k \in Keys : index'[k] # NoSlot => index'[k] = index[k]
      BY <2>1, CleanTakesOut DEF Clean
    <3> QED BY <3>1, <3>2 DEF Dated
  <2>2. CASE Supervise
    BY <2>2 DEF Supervise, vars, trace, history, Dated, Key
  <2> QED BY <1>2, <2>1, <2>2 DEF MainThread
<1>3. CASE UNCHANGED all
  BY <1>3 DEF all, vars, trace, history, Dated, Key
<1> QED BY <1>1, <1>2, <1>3 DEF ServiceNext

\* The generator leads no view of clean to another entry that is not due.
LEMMA DueStays ==
    ASSUME Known, Known', Collecting, GeneratorThread, phase \in {"scan", "remove"},
           NEW k \in Keys, Due(k)
    PROVE  Due(k)'
<1>1. CASE k \in touched
  BY <1>1, HistoryGrows DEF Due
<1>2. CASE ~((op = "idle" \/ k # Key) /\ (op' = "idle" \/ k # Key'))
  BY <1>2, HistoryGrows DEF Due, Collecting, Key
<1>3. CASE /\ k \notin touched /\ index'[k] # NoSlot
           /\ (op = "idle" \/ k # Key) /\ (op' = "idle" \/ k # Key')
  <2>1. index'[k] = index[k] /\ item'[index[k]] = item[index[k]]
    BY <1>3, OtherEntriesStay
  <2>2. TooOld(index[k])
    BY <1>3, <2>1 DEF Due
  <2>3. time <= time' /\ time \in Nat /\ time' \in Nat /\ target' = target /\ target \in Nat
    BY ClocksGrow, HistoryGrows DEF Known, IInv, TypeOK
  <2>4. item[index[k]].last \in Nat
    BY <1>3, <2>1 DEF Known, IInv, TypeOK, Item
  <2> QED BY <2>1, <2>2, <2>3, <2>4 DEF Due, TooOld
<1> QED BY <1>1, <1>2, <1>3 DEF Due

LEMMA GeneratorKeepsCollecting ==
    ASSUME Known, Known', Collecting, GeneratorThread
    PROVE  Collecting'
<1> SUFFICES ASSUME phase' \in {"scan", "remove"}
             PROVE  Collecting'
  BY DEF Collecting
<1>1. phase' = phase /\ toRemove' = toRemove /\ toRemove \in Seq(Slots)
  BY HistoryGrows DEF Known, IInv, TypeOK
<1>2. op' # "idle" => Key' \in touched'
  BY <1>1, HistoryGrows DEF Collecting, Key
<1>3. \A k \in Keys : Due(k) => Due(k)'
  BY <1>1, DueStays
<1>4. ASSUME NEW i \in 1..Len(toRemove)
      PROVE  Due(item[toRemove[i]].key)'
  <2>1. toRemove[i] \in Slots
    BY <1>1
  <2>2. item[toRemove[i]].key \in Keys
    BY <2>1 DEF Known, IInv, TypeOK, Item
  <2>3. Due(item[toRemove[i]].key)
    BY <1>1 DEF Collecting
  <2>4. CASE item'[toRemove[i]].key = item[toRemove[i]].key
    BY <1>1, <1>3, <2>2, <2>3, <2>4 DEF Due
  <2>5. CASE op' # "idle" /\ item'[toRemove[i]].key = Key'
    BY <1>1, <1>2, <2>5 DEF Due
  <2> QED BY <2>1, <2>4, <2>5, OtherEntriesStay
<1> QED BY <1>1, <1>2, <1>4 DEF Collecting

\* The entry the scan collects is too old, unless its text is being written.
LEMMA CollectedIsDue ==
    ASSUME Known, Collecting, NEW s \in Slots, CleanCollect(s)
    PROVE  Due(item[s].key)
<1>1. s \in Linked /\ phase = "scan"
  BY DEF CleanCollect, IsOldest, In
<1>2. index[item[s].key] = s /\ s \in live
  <2>1. PICK k \in Keys : index[k] = s
    BY <1>1 DEF Linked
  <2> QED BY <2>1, SlotsAssumption DEF Known, IInv, IndexOK
<1>3. PICK last \in ReadLast(s) : Expired(last)
  BY DEF CleanCollect
<1>4. CASE op = "copying" /\ s = handle
  <2>1. item[s].key = Key /\ op # "idle"
    BY <1>4, HoldsKey DEF Known, IInv, HandlesOK
  <2> QED BY <1>1, <2>1 DEF Collecting, Due
<1>5. CASE ~(op = "copying" /\ s = handle)
  <2>1. last = item[s].last
    BY <1>3, <1>5 DEF ReadLast
  <2>2. item[s].last \in Nat /\ item[s].last <= time
    BY <1>2 DEF Known, IInv, TypeOK, Item, StampsOK
  <2>3. TooOld(s)
    BY <1>3, <2>1, <2>2, DeltaIsAge DEF Expired, TooOld, Known, IInv, TypeOK
  <2> QED BY <1>2, <2>3 DEF Due
<1> QED BY <1>4, <1>5

LEMMA CleanKeepsCollecting ==
    ASSUME Known, Known', Collecting, Clean
    PROVE  Collecting'
<1>1. /\ UNCHANGED <<item, op, time, line>> /\ Key' = Key /\ InUse' = InUse
      /\ touched' = IF phase # "scan" /\ phase' = "scan" THEN {InUse} \cap Keys ELSE touched
      /\ \A k \in Keys : index'[k] # NoSlot => index'[k] = index[k]
  BY CleanKeepsOperations, CleanTakesOut DEF Clean, trace, Key
<1>2. CASE CleanDecide \/ CleanMeasure \/ CleanRemoved \/ CleanReport
  BY <1>2 DEF CleanDecide, CleanMeasure, CleanRemoved, CleanReport, In, Collecting
<1>3. CASE CleanLock
  <2>1. toRemove' = <<>> /\ touched' = {InUse} \cap Keys
    BY <1>1, <1>3 DEF CleanLock, In, Known, IInv, ScanOK
  <2>2. op # "idle" => Key \in touched'
    BY <2>1, HoldsKey
  <2> QED BY <1>1, <2>1, <2>2 DEF Collecting
<1>4. ASSUME NEW s \in Slots, CleanCollect(s)
      PROVE  Collecting'
  <2>1. /\ phase = "scan" /\ touched' = touched /\ index' = index /\ target' = target
        /\ toRemove' = Append(toRemove, s) /\ toRemove \in Seq(Slots)
    BY <1>1, <1>4 DEF CleanCollect, In, pool, Known, IInv, TypeOK
  <2>2. Due(item[s].key)
    BY <1>4, CollectedIsDue
  <2>3. \A i \in 1..Len(toRemove') : Due(item[toRemove'[i]].key)
    <3> TAKE i \in 1..Len(toRemove')
    <3>1. CASE i \in 1..Len(toRemove)
      BY <2>1, <3>1 DEF Collecting
    <3>2. CASE i = Len(toRemove) + 1
      BY <2>1, <2>2, <3>2
    <3> QED BY <2>1, <3>1, <3>2
  <2>4. \A k : Due(k) => Due(k)'
    BY <1>1, <2>1 DEF Due, TooOld
  <2> QED BY <1>1, <2>1, <2>3, <2>4 DEF Collecting
<1>5. CASE CleanStop
  BY <1>1, <1>5 DEF CleanStop, In, pool, Collecting, Due, TooOld
<1>6. CASE CleanRemove
  <2>1. /\ phase = "remove" /\ phase' = "remove" /\ touched' = touched /\ target' = target
        /\ toRemove # <<>> /\ toRemove' = Tail(toRemove) /\ toRemove \in Seq(Slots)
    BY <1>1, <1>6 DEF CleanRemove, In, Known, IInv, TypeOK
  <2>2. \A k \in Keys : Due(k) => Due(k)'
    BY <1>1, <2>1 DEF Due, TooOld
  <2>3. \A i \in 1..Len(toRemove') :
            /\ i + 1 \in 1..Len(toRemove)
            /\ toRemove'[i] = toRemove[i + 1]
    BY <2>1
  <2>4. \A s \in Slots : item[s].key \in Keys
    BY DEF Known, IInv, TypeOK, Item
  <2>5. ASSUME NEW i \in 1..Len(toRemove')
        PROVE  Due(item[toRemove[i]].key)'
    <3>1. toRemove'[i] \in Slots /\ item[toRemove'[i]].key \in Keys
      BY <2>1, <2>3, <2>4
    <3>2. Due(item[toRemove'[i]].key)
      BY <2>1, <2>3 DEF Collecting
    <3> QED BY <1>1, <2>2, <3>1, <3>2 DEF Due
  <2> QED BY <1>1, <2>1, <2>5 DEF Collecting
<1> QED BY <1>2, <1>3, <1>4, <1>5, <1>6 DEF Clean, CleanStep

LEMMA CollectingStays ==
    ASSUME Known, Known', Collecting, [ServiceNext]_all
    PROVE  Collecting'
<1>1. CASE Supervise \/ UNCHANGED all
  BY <1>1 DEF Supervise, all, vars, trace, history, Collecting, Due, TooOld, Key
<1> QED BY <1>1, GeneratorKeepsCollecting, CleanKeepsCollecting DEF ServiceNext, MainThread

LEMMA JInvariant == ServiceSpec => []JInv
<1>1. ServiceInit => JInv
  BY DEF ServiceInit, JInv, Init, Timely, Dated, Collecting
<1>2. Known /\ Known' /\ JInv /\ [ServiceNext]_all => JInv'
  BY TimelyStays, DatedStays, CollectingStays DEF JInv
<1> QED BY <1>1, <1>2, KnownAlways, PTL DEF ServiceSpec

\* What clean takes out, in a program with any trace: nothing but entries of
\* keys that the trace left alone for longer than the target, if the seconds
\* that had no line are counted on top, or that were in use since clean took the
\* LRU lock.
THEOREM CleaningFollowsTheTrace == ServiceSpec => CleanGoesByTheTrace
<1>1. ASSUME Known, JInv, [ServiceNext]_all, NEW k \in Keys,
             phase = "remove", nbRemoved' # nbRemoved, index[k] # NoSlot, index'[k] = NoSlot
      PROVE  \/ 10 * (latest[Cache] - lastUse[k] + skipped[Cache]) > 11 * target
             \/ k \in touched
  <2>1. CleanRemove
    BY <1>1 DEF ServiceNext, GeneratorThread, Replay, Goes, vars, UpdateClock, Tick, Get,
         GetMiss, GetHit, Put, PutAllocate, PutFails, PutInsert, GetGoesOn, GeneratorStep,
         GetPromote, GetRead, GetStamp, GetCopied, GetReallocate, GetNullHandle, Insert,
         GetRelease, cleaner, MainThread, Supervise, Clean, CleanDecide, CleanStep,
         CleanMeasure, CleanLock, CleanCollect, CleanStop, CleanRemoved, CleanReport, In, all
  <2>2. toRemove # <<>> /\ item[Head(toRemove)].key = k
    BY <1>1, <2>1 DEF CleanRemove, Known, IInv, TypeOK
  <2>3. Due(k)
    BY <1>1, <2>2 DEF JInv, Collecting, Known, IInv, TypeOK
  <2>4. CASE op # "idle" /\ k = Key
    BY <1>1, <2>4 DEF JInv, Collecting
  <2>5. CASE TooOld(index[k]) /\ (op = "idle" \/ k # Key)
    <3>1. lastUse[k] <= item[index[k]].last + skipped[Cache]
      BY <1>1, <2>5 DEF JInv, Dated
    <3>2. time <= latest[Cache]
      BY <1>1 DEF Known, Program!ClockNotAhead, Time
    <3>3. /\ time \in Nat /\ target \in Nat /\ item[index[k]].last \in Nat
          /\ lastUse[k] \in Nat /\ skipped[Cache] \in Nat /\ latest[Cache] \in Nat
      BY <1>1, ClockAssumption, ServiceAssumption
         DEF Known, IInv, TypeOK, Item, ServiceTypeOK
    <3> QED BY <2>5, <3>1, <3>2, <3>3 DEF TooOld
  <2> QED BY <1>1, <2>3, <2>4, <2>5 DEF Due
<1>2. Known /\ JInv /\ [ServiceNext]_all =>
          \A k \in Keys :
              phase = "remove" /\ nbRemoved' # nbRemoved /\ index[k] # NoSlot /\ index'[k] = NoSlot
              => \/ 10 * (latest[Cache] - lastUse[k] + skipped[Cache]) > 11 * target
                 \/ k \in touched
  BY <1>1
<1> QED BY <1>2, KnownAlways, JInvariant, PTL DEF ServiceSpec, CleanGoesByTheTrace

---------------------------------------------------------------------------
(* The program gets nearer to its end *)

\* The steps of its replay and, within a line, those of the call that executes
\* it, of which none has been taken yet when the thread comes to the line.
ReplayLeft == Shown!StepsLeft(Cache)

CallToCome == IF place = "execute" /\ op = "idle" THEN 6 ELSE CallLeft

\* The generator's thread has less of its replay before it, or as much of it and
\* less of a call.
GeneratorAdvances ==
    \/ ReplayLeft' < ReplayLeft
    \/ ReplayLeft' = ReplayLeft /\ CallToCome' < CallToCome

LEMMA LeftIsNat ==
    ASSUME Known, lines \in [{Cache} -> 0..MaxLines]
    PROVE  ReplayLeft \in Nat /\ CallToCome \in Nat
<1>1. lines[Cache] \in 0..MaxLines /\ 5 * (MaxLines - lines[Cache]) \in Nat
  BY ServiceAssumption
<1>2. At[Cache] \in {"open", "read", "process", "push", "execute", "refresh", "closed", "end"}
  BY DEF Known, ServiceTypeOK, Program!Places, At
<1>3. ReplayLeft \in Nat
  BY <1>1, <1>2 DEF ReplayLeft, Shown!StepsLeft
<1>4. CallToCome \in Nat
  BY WorkLeftIsNat DEF CallToCome, Known
<1> QED BY <1>3, <1>4

\* A step outside the calls.
LEMMA PlaceAdvances ==
    ASSUME Known, lines \in [{Cache} -> 0..MaxLines], Replay \/ UpdateClock
    PROVE  GeneratorAdvances \/ exited'
<1>1. /\ op = "idle" /\ op' = "idle" /\ handle = NoSlot /\ handle' = NoSlot
      /\ place \in Program!Places
  BY DEF Replay, Goes, vars, UpdateClock, Tick, generator, Known, IInv, HandlesOK, ServiceTypeOK
<1>2. At[Cache] = place /\ At'[Cache] = place'
  BY <1>1 DEF At
<1>3. lines[Cache] \in 0..MaxLines /\ 5 * (MaxLines - lines[Cache]) \in Nat
  BY ServiceAssumption
<1>4. CASE Replay /\ Program!OpenFails(Cache)
  BY <1>4 DEF Program!OpenFails
<1>5. CASE Replay /\ (Program!ReadLine(Cache) \/ Program!ReadBadLine(Cache))
           /\ place' \in {"read", "process"}
  <2>1. place = "read" /\ lines'[Cache] = lines[Cache] + 1
    BY <1>2, <1>5 DEF Program!ReadLine, Program!ReadBadLine
  <2>2. 5 * (MaxLines - lines'[Cache]) = 5 * (MaxLines - lines[Cache]) - 5
    BY <1>3, <2>1, ServiceAssumption
  <2> QED BY <1>2, <1>3, <1>5, <2>1, <2>2 DEF GeneratorAdvances, ReplayLeft, Shown!StepsLeft
<1>6. CASE /\ lines' = lines
           /\ \/ place = "open" /\ place' = "read"
              \/ place = "read" /\ place' = "closed"
              \/ place = "closed" /\ place' = "end"
              \/ place = "process" /\ place' \in {"push", "execute"}
              \/ place = "push" /\ place' = "execute"
  BY <1>2, <1>3, <1>6 DEF GeneratorAdvances, ReplayLeft, Shown!StepsLeft
<1> QED
  BY <1>2, <1>4, <1>5, <1>6
     DEF Replay, Goes, UpdateClock, Program!Open, Program!Close, Program!Finish,
         Program!SameSecond, Program!UpdateClock, Program!PushMetrics

\* A step of a call.
LEMMA CallStepAdvances ==
    ASSUME Known, lines \in [{Cache} -> 0..MaxLines], Get \/ Put \/ PutInsert \/ GetGoesOn
    PROVE  GeneratorAdvances
<1>1. lines[Cache] \in 0..MaxLines /\ 5 * (MaxLines - lines[Cache]) \in Nat
  BY ServiceAssumption
<1>2. place = "execute" /\ lines' = lines
  BY DEF Get, Put, PutInsert, GetGoesOn, Insert, trace, Program!Get, Program!Put,
         Program!Executing, At, Known, IInv, HandlesOK, ServiceTypeOK
<1>3. op = "idle" => handle = NoSlot
  BY DEF Known, IInv, HandlesOK
<1>4. CASE Get
  <2>1. At[Cache] = "execute" /\ At'[Cache] \in {"read", "refresh"}
    BY <1>2, <1>3, <1>4, SlotsAssumption
       DEF Get, GetMiss, GetHit, At, Known, IInv, TypeOK, Program!Get, Program!Executing
  <2> QED BY <1>1, <1>2, <2>1 DEF GeneratorAdvances, ReplayLeft, Shown!StepsLeft
<1>5. CASE Put
  <2>1. CASE PutAllocate(Key) /\ place' = place
    <3>1. op = "idle" /\ op' = "insert" /\ handle = NoSlot /\ handle' = NoSlot
      BY <1>3, <2>1 DEF PutAllocate
    <3>2. ReplayLeft' = ReplayLeft
      BY <1>2, <2>1, <3>1 DEF At, ReplayLeft, Shown!StepsLeft
    <3> QED BY <1>2, <3>1, <3>2 DEF GeneratorAdvances, CallToCome, CallLeft
  <2>2. CASE PutFails /\ place' = "read"
    <3>1. At[Cache] = "execute" /\ At'[Cache] = "read"
      BY <1>2, <1>3, <2>2 DEF PutFails, vars, At
    <3> QED BY <1>1, <1>2, <3>1 DEF GeneratorAdvances, ReplayLeft, Shown!StepsLeft
  <2> QED BY <1>5, <2>1, <2>2 DEF Put
<1>6. CASE PutInsert
  <2>1. At[Cache] = "execute" /\ At'[Cache] = "read"
    BY <1>2, <1>6 DEF PutInsert, At
  <2> QED BY <1>1, <1>2, <2>1 DEF GeneratorAdvances, ReplayLeft, Shown!StepsLeft
<1>7. CASE GetGoesOn
  <2>1. /\ CallLeft' < CallLeft /\ op # "idle" /\ handle # NoSlot
        /\ place' = IF op' = "idle" THEN "read" ELSE "execute"
    BY <1>2, <1>3, <1>7, CallAdvances DEF GetGoesOn
  <2>2. CallToCome = CallLeft /\ CallToCome' = CallLeft'
    BY <2>1 DEF CallToCome
  <2>3. \/ At'[Cache] = At[Cache]
        \/ At[Cache] = "refresh" /\ At'[Cache] = "read"
    <3>1. \/ op # "release" /\ op' \notin {"idle", "release"} /\ handle' = handle
          \/ op # "release" /\ op' = "release" /\ handle' = handle
          \/ op = "release" /\ op' = "idle"
      BY <1>7, <2>1 DEF GetGoesOn, GeneratorStep, GetPromote, GetRead, GetStamp, GetCopied,
                        GetReallocate, GetNullHandle, Insert, GetRelease
    <3> QED BY <1>2, <2>1, <3>1 DEF At
  <2>4. CASE At'[Cache] = At[Cache]
    <3>1. ReplayLeft' = ReplayLeft
      BY <1>2, <2>4 DEF ReplayLeft, Shown!StepsLeft
    <3> QED BY <2>1, <2>2, <3>1 DEF GeneratorAdvances
  <2>5. CASE At[Cache] = "refresh" /\ At'[Cache] = "read"
    BY <1>1, <1>2, <2>5 DEF GeneratorAdvances, ReplayLeft, Shown!StepsLeft
  <2> QED BY <2>3, <2>4, <2>5
<1> QED BY <1>4, <1>5, <1>6, <1>7

\* When the generator has finished: the steps main has before it, a cleaning
\* counting for one, and within it those of the cleaning, of which none has been
\* taken yet when main comes to the cache.
MainLeft ==
    LET ahead == IF Cache \in todo THEN 1 ELSE 0
    IN  CASE main = "done" -> 0
          [] main = "join" -> ahead + 1
          [] main = "check" /\ allFinished -> ahead + 3
          [] main = "clean" -> ahead + 5
          [] main = "check" /\ ~allFinished -> ahead + 7
          [] main = "spawn" -> IF Cache \in spawned THEN 5 ELSE 6

CleaningToCome ==
    IF main = "clean" /\ phase = "idle" THEN 2 * Cardinality(Slots) + 6 ELSE CleanLeft

MainThreadAdvances ==
    \/ MainLeft' < MainLeft
    \/ MainLeft' = MainLeft /\ CleaningToCome' < CleaningToCome

LEMMA SupervisingAdvances ==
    ASSUME Known, main \in Program!Stages, finished[Cache] = TRUE, Supervise
    PROVE  MainLeft' < MainLeft
<1>1. spawned \subseteq {Cache} /\ (main # "spawn" => spawned = {Cache})
  BY DEF Known, ServiceTypeOK
<1>2. CASE Program!Spawn(Cache) /\ Cache \notin spawned
  BY <1>2 DEF Program!Spawn, MainLeft
<1>3. CASE Program!StartChecking
  <2>1. main' = "check" /\ allFinished' = TRUE
    BY <1>3 DEF Program!StartChecking
  <2>2. MainLeft' <= 4 /\ MainLeft' \in Nat
    BY <2>1 DEF MainLeft
  <2>3. MainLeft \in Nat /\ MainLeft >= 5
    BY <1>3 DEF Program!StartChecking, MainLeft
  <2> QED BY <2>2, <2>3
<1>4. CASE Program!Check(Cache)
  <2>1. /\ main = "check" /\ main' = "check" /\ Cache \in todo /\ Cache \notin todo'
        /\ allFinished' <=> allFinished
    BY <1>4 DEF Program!Check
  <2> QED BY <2>1 DEF MainLeft
<1>5. CASE Program!Checked
  <2>1. main = "check" /\ main' = (IF allFinished THEN "join" ELSE "clean")
    BY <1>5 DEF Program!Checked
  <2> QED BY <1>5, <2>1 DEF Program!Checked, MainLeft
<1>6. CASE Program!Join(Cache)
  BY <1>6 DEF Program!Join, MainLeft
<1>7. CASE Program!Return
  BY <1>7 DEF Program!Return, MainLeft
<1> QED BY <1>2, <1>3, <1>4, <1>5, <1>6, <1>7 DEF Supervise

LEMMA CleaningAdvances ==
    ASSUME Known, Clean
    PROVE  MainThreadAdvances
<1>1. /\ main = "clean" /\ main' = "clean" /\ Cache \in todo
      /\ todo' = IF phase' = "idle" THEN todo \ {Cache} ELSE todo
  BY DEF Clean, Returns
<1>2. CASE phase' = "idle"
  BY <1>1, <1>2 DEF MainThreadAdvances, MainLeft
<1>3. CASE phase' # "idle"
  <2>1. MainLeft' = MainLeft
    BY <1>1, <1>3 DEF MainLeft
  <2>2. CASE CleanDecide
    <3>1. phase = "idle" /\ phase' = "measure"
      BY <1>3, <2>2 DEF CleanDecide, In
    <3>2. Cardinality(Slots) \in Nat
      BY SlotsAssumption, FS_CardinalityType
    <3> QED BY <1>1, <2>1, <3>1, <3>2 DEF MainThreadAdvances, CleaningToCome, CleanLeft
  <2>3. CASE CleanStep
    <3>1. CleanLeft' < CleanLeft
      BY <2>3, CleanAdvances DEF Known
    <3>2. phase # "idle"
      BY <2>3 DEF CleanStep, CleanMeasure, CleanLock, CleanCollect, CleanStop, CleanRemove,
                  CleanRemoved, CleanReport, In
    <3> QED BY <1>3, <2>1, <3>1, <3>2 DEF MainThreadAdvances, CleaningToCome
  <2> QED BY <2>2, <2>3 DEF Clean
<1> QED BY <1>2, <1>3

\* The generator's thread neither takes main back nor a cleaning.
LEMMA GeneratorLeavesMain ==
    ASSUME Known, GeneratorThread
    PROVE  UNCHANGED <<MainLeft, CleaningToCome>>
<1>1. UNCHANGED <<main, todo, allFinished, spawned>>
  BY DEF GeneratorThread, Replay, UpdateClock, Get, Put, PutInsert, GetGoesOn, supervisor
<1>2. phase' = phase /\ toRemove' = toRemove
  BY HistoryGrows
<1>3. phase = "scan" => index' = index
  BY DEF GeneratorThread, Replay, Goes, UpdateClock, Tick, Get, GetMiss, GetHit, Put,
         PutAllocate, PutFails, PutInsert, GetGoesOn, GeneratorStep, GetPromote, GetRead,
         GetStamp, GetCopied, GetReallocate, GetNullHandle, Insert, GetRelease, Allocate,
         TakeFree, Evict, LruUnlocked, pool, vars
<1>4. CleanLeft' = CleanLeft
  <2>1. phase = "scan" => Linked' \ Collected' = Linked \ Collected
    BY <1>2, <1>3 DEF Linked, Collected
  <2> QED BY <1>2, <2>1 DEF CleanLeft
<1>5. MainLeft' = MainLeft
  BY <1>1 DEF MainLeft
<1> QED BY <1>1, <1>2, <1>4, <1>5 DEF CleaningToCome

\* main neither takes the generator's thread back nor a call.
LEMMA MainLeavesGenerator ==
    ASSUME MainThread
    PROVE  UNCHANGED <<ReplayLeft, CallToCome>>
<1>1. UNCHANGED <<place, lines, op, handle>>
  BY CleanKeepsOperations DEF MainThread, Supervise, Clean, trace, vars, generator
<1>2. At' = At
  BY <1>1 DEF At
<1> QED BY <1>1, <1>2 DEF ReplayLeft, Shown!StepsLeft, CallToCome, CallLeft

\* Each step of the generator's thread takes it nearer to the end of its replay,
\* or the process ends; once the generator has finished, each step of main takes
\* main nearer to its end; and neither thread takes the other back.
ServiceAdvances ==
    [][/\ ReplayLeft \in Nat /\ CallToCome \in Nat
       /\ GeneratorThread => GeneratorAdvances \/ ~Alive'
       /\ MainThread => UNCHANGED <<ReplayLeft, CallToCome>>
       /\ MainLeft \in Nat /\ CleaningToCome \in Nat
       /\ MainThread /\ finished[Cache] => MainThreadAdvances
       /\ GeneratorThread => UNCHANGED <<MainLeft, CleaningToCome>>]_all

\* The whole program has a bounded number of steps but for the turns main takes
\* while the generator is at work, although either thread is again and again kept
\* from the LRU list by the other: what ServiceEnds needs, but for the fairness.
THEOREM ServiceGetsToItsEnd == ServiceSpec => ServiceAdvances
<1> DEFINE Typed == /\ lines \in [{Cache} -> 0..MaxLines]
                    /\ main \in Program!Stages
                    /\ allFinished \in BOOLEAN
                    /\ finished \in [{Cache} -> BOOLEAN]
<1>1. ServiceSpec => []Typed
  <2>1. ServiceSpec => Shown!SSpec
    BY ServiceRefinesProgram, SameProgram DEF ImplementsProgram
  <2>2. Shown!SSpec => []Shown!STypeOK
    BY Shown!SupervisorTypeCorrect, ServiceAssumption
  <2>3. Shown!STypeOK => Typed
    BY DEF Shown!STypeOK, Shown!TypeOK, Shown!Stages, Program!Stages
  <2> QED BY <2>1, <2>2, <2>3, PTL
<1>2. ASSUME Known, Typed
      PROVE  MainLeft \in Nat /\ CleaningToCome \in Nat
  <2>1. Cardinality(Slots) \in Nat
    BY SlotsAssumption, FS_CardinalityType
  <2> QED BY <1>2, <2>1, WorkLeftIsNat DEF MainLeft, CleaningToCome, Program!Stages, Known
<1>3. Known /\ Typed =>
         [/\ ReplayLeft \in Nat /\ CallToCome \in Nat
          /\ GeneratorThread => GeneratorAdvances \/ ~Alive'
          /\ MainThread => UNCHANGED <<ReplayLeft, CallToCome>>
          /\ MainLeft \in Nat /\ CleaningToCome \in Nat
          /\ MainThread /\ finished[Cache] => MainThreadAdvances
          /\ GeneratorThread => UNCHANGED <<MainLeft, CleaningToCome>>]_all
  <2>1. ASSUME Known, Typed, GeneratorThread PROVE GeneratorAdvances \/ ~Alive'
    BY <2>1, PlaceAdvances, CallStepAdvances DEF GeneratorThread, Alive
  <2>2. ASSUME Known, Typed, MainThread, finished[Cache] PROVE MainThreadAdvances
    BY <2>2, SupervisingAdvances, CleaningAdvances DEF MainThread, MainThreadAdvances
  <2> QED BY <1>2, <2>1, <2>2, LeftIsNat, MainLeavesGenerator, GeneratorLeavesMain
<1> QED BY <1>1, <1>3, KnownAlways, PTL DEF ServiceAdvances
=============================================================================
