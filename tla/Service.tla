------------------------------ MODULE Service ------------------------------
(***************************************************************************)
(* The program with the inside of one cache: the generator's thread        *)
(* replays its trace (module Generator) by calls of get and put (module    *)
(* Cachecache), while the main thread (module Supervisor) calls clean on   *)
(* the same cache.  What the two modules leave open is fixed here by each  *)
(* other: get and put are called for the lines of a trace, the clock moves *)
(* with the timestamps, and clean runs when main has found a generator     *)
(* that has not finished.                                                  *)
(***************************************************************************)
EXTENDS Cachecache

CONSTANTS
    Cache,         \* the cache
    Operations, MaxLines, MaxTimestamp, MaxGap, NbSeconds  \* of the trace

ASSUME ServiceAssumption == /\ Keys # {} /\ Operations # {}
                            /\ MaxLines \in Nat /\ MaxTimestamp \in Nat /\ MaxGap \in Nat
                            /\ NbSeconds \in Nat
\* The clock of the cache never gets to the bound of module Cachecache.
ASSUME ClockBoundAssumption == MaxTimestamp <= MaxTime

VARIABLES
    \* Those of modules Generator and Supervisor, where second is its time
    place,         \* where the generator's thread is in run and process
    line, lines, second, stop, finished, counters, exited,
    latest, skipped, served, reported, late,
    main, spawned, todo, allFinished,
    \* History
    lastUse,       \* the second of the trace in which each key was last found or stored
    touched        \* the keys that were in use since clean took the LRU lock

trace == <<line, lines, second, stop, finished, counters, exited,
           latest, skipped, served, reported, late>>
supervisor == <<main, spawned, todo, allFinished>>
history == <<lastUse, touched>>
all == <<vars, place, trace, supervisor, history>>

---------------------------------------------------------------------------
(* The program, seen from outside the cache *)

\* get is over, for the program, once it has written its stamp.
At == [c \in {Cache} |-> IF place # "execute" \/ handle = NoSlot THEN place
                         ELSE IF op = "release" THEN "read" ELSE "refresh"]

Time == [c \in {Cache} |-> time]

Content == [c \in {Cache} |-> {k \in Keys : index[k] # NoSlot}]

Program == INSTANCE Supervisor WITH
               Caches <- {Cache}, at <- At, time <- second, clock <- Time, content <- Content

\* The key of the line that is processed.
Key == line[Cache].key

\* No thread has called exit, and none has died.
Alive == ~exited /\ op # "crashed"

---------------------------------------------------------------------------
(* The generator's thread *)

\* The thread reads the next line while a call is still at work.
GoesAtOnce(next) == place' = next /\ UNCHANGED <<vars, history>>

\* A step outside the cache, which begins when the call before has returned.
Goes(next) == op = "idle" /\ place' = next /\ UNCHANGED <<vars, history>>

\* run and process up to the call that executes the line.
Replay ==
    /\ \/ Goes("read") /\ Program!Open(Cache)
       \/ Goes(place) /\ Program!OpenFails(Cache)
       \/ Goes("process") /\ Program!ReadLine(Cache)
       \/ Goes("read") /\ Program!ReadBadLine(Cache)
       \/ Goes("closed") /\ Program!Close(Cache)
       \/ Goes("end") /\ Program!Finish(Cache)
       \/ Goes("execute") /\ Program!SameSecond(Cache)
       \/ Goes("execute") /\ Program!PushMetrics(Cache)
    /\ UNCHANGED supervisor

UpdateClock ==
    /\ place' = "push"
    /\ Tick
    /\ Program!UpdateClock(Cache)
    /\ UNCHANGED <<supervisor, history>>

\* The line is executed: its key is found or stored.
Use ==
    /\ lastUse' = [lastUse EXCEPT ![Key] = line[Cache].timestamp]
    /\ touched' = touched \cup {Key}

Get ==
    /\ \/ GetMiss(Key) /\ place' = "read" /\ UNCHANGED history
       \/ GetHit(Key) /\ place' = "execute" /\ Use
    /\ Program!Get(Cache)
    /\ UNCHANGED supervisor

\* put has its allocation, or returns without one.
Put ==
    /\ place = "execute"
    /\ Program!IsPut(Cache)
    /\ \/ PutAllocate(Key) /\ place' = place /\ Use /\ UNCHANGED trace
       \/ PutFails /\ place' = "read" /\ UNCHANGED history /\ Program!Put(Cache)
    /\ UNCHANGED supervisor

\* put returns when it has inserted its allocation.
PutInsert ==
    /\ handle = NoSlot
    /\ Insert
    /\ place' = "read"
    /\ Program!Put(Cache)
    /\ UNCHANGED <<supervisor, history>>

\* get goes on, and returns with the release of its handle.
GetGoesOn ==
    /\ handle # NoSlot
    /\ GeneratorStep
    /\ place' = IF op' = "idle" THEN "read" ELSE place
    /\ UNCHANGED <<trace, supervisor, history>>

GeneratorThread ==
    /\ Cache \in spawned
    /\ Replay \/ UpdateClock \/ Get \/ Put \/ PutInsert \/ GetGoesOn

---------------------------------------------------------------------------
(* The main thread *)

\* A run that does not wait for clean.
ReturnsAtOnce == todo' = todo \ {Cache}

\* run goes on to the next cache when clean returns.
Returns == todo' = IF phase' = "idle" THEN todo \ {Cache} ELSE todo

Clean ==
    /\ main = "clean"
    /\ Cache \in todo
    /\ CleanDecide \/ CleanStep
    /\ Returns
    /\ touched' = IF phase # "scan" /\ phase' = "scan" THEN {InUse} \cap Keys ELSE touched
    /\ UNCHANGED <<place, trace, main, spawned, allFinished, lastUse>>

\* The steps of run outside the cache.
Supervise ==
    /\ UNCHANGED <<vars, place, trace, history>>
    /\ \/ Cache \notin spawned /\ Program!Spawn(Cache)
       \/ Program!StartChecking
       \/ Program!Check(Cache)
       \/ Program!Checked
       \/ Program!Join(Cache)
       \/ Program!Return

MainThread == Supervise \/ Clean

---------------------------------------------------------------------------
(* The specification *)

ServiceInit ==
    /\ Init
    /\ place = "open"
    /\ Program!SInit
    /\ lastUse = [k \in Keys |-> 0]
    /\ touched = {}

ServiceNext == Alive /\ (GeneratorThread \/ MainThread)

ServiceSpec == ServiceInit /\ [][ServiceNext]_all

\* Both threads are scheduled again and again.  The generator may find the LRU
\* lock taken, but main sleeps for seconds between two scans.
FairServiceSpec ==
    ServiceSpec /\ WF_all(Alive /\ MainThread) /\ SF_all(Alive /\ GeneratorThread)

---------------------------------------------------------------------------
(* Properties *)

\* The parts agree on what they are doing, whichever thread ran last: the
\* operation inside the cache is that of the line being executed, and clean is
\* only at work within main's loop, after the generator has got its thread.
ServiceTypeOK ==
    /\ place \in Program!Places
    /\ line \in [{Cache} -> Program!Line]
    /\ spawned \subseteq {Cache}
    /\ lastUse \in [Keys -> 0..MaxTimestamp]
    /\ touched \subseteq Keys
    /\ op # "idle" => place = "execute" /\ InUse = Key
    /\ handle # NoSlot => ~Program!IsPut(Cache)
    /\ fresh # NoSlot /\ handle = NoSlot => Program!IsPut(Cache)
    /\ main # "spawn" => spawned = {Cache}
    /\ phase # "idle" => main = "clean" /\ Cache \in todo

\* The program with the inside of its cache is a program as modules Generator
\* and Supervisor have it: what they say of get, put and clean in one step each
\* is all that the other parts see of the many steps.
ImplementsProgram == Program!SSpec

\* What clean promises to the trace: the entry that it takes out is of a key
\* that the trace left alone for longer than the target, if the seconds that had
\* no line are counted on top (the clock makes up for them later), or that was
\* in use when clean took the LRU lock or since.
CleanGoesByTheTrace ==
    [][\A k \in Keys :
          phase = "remove" /\ nbRemoved' # nbRemoved /\ index[k] # NoSlot /\ index'[k] = NoSlot
          => \/ 10 * (latest[Cache] - lastUse[k] + skipped[Cache]) > 11 * target
             \/ k \in touched]_all

\* The whole program ends, although main and the generator keep each other from
\* the LRU list again and again: by itself, because there is no trace, or by a
\* failed allocation.
ServiceEnds == <>(main = "done" \/ ~Alive)
=============================================================================
