----------------------------- MODULE Simulation -----------------------------
(***************************************************************************)
(* The simulation (simulation/src): main hands the runs to a pool of       *)
(* worker threads.  A run seeds the random engine if the configuration,    *)
(* which all runs read, says so, draws the start and the length of each    *)
(* virtual machine of the configuration, and then iterates: it spawns the  *)
(* machines whose start has come, and lets its data centre go on, until    *)
(* there is none left.                                                     *)
(*                                                                         *)
(* The data centre of a run is its own, but the random engine belongs to   *)
(* the process: all runs seed it and draw from it, and nothing locks it.   *)
(* Pool, engine and data centre are those of the libraries, which are not  *)
(* under src/.                                                             *)
(***************************************************************************)
EXTENDS Naturals, FiniteSets

CONSTANTS
    NbRun,         \* the number of executions
    MaxWorkers,    \* the most threads of the pool (8 in the code)
    NbMachines,    \* the instances of all virtual machines of the configuration
    Period,        \* after how many draws the engine is where it was
    StartOf,       \* StartOf[n]: the start the engine gives n draws after its seed
    LengthOf,      \* LengthOf[n]: the length it gives
    ClockSeeds,    \* where seeds from the clock put the engine
    IndexModulus,  \* uint32_t index (2^32 in the code)
    Never          \* not an iteration

ASSUME PoolAssumption == NbRun \in Nat \ {0} /\ MaxWorkers \in Nat \ {0}
ASSUME MachinesAssumption == NbMachines \in Nat
ASSUME EngineAssumption == /\ Period \in Nat \ {0}
                           /\ 2 * NbMachines <= Period
                           /\ StartOf \in [0..(Period - 1) -> 0..(IndexModulus - 1)]
                           /\ LengthOf \in [0..(Period - 1) -> Nat]
                           /\ ClockSeeds \subseteq 0..(Period - 1)
ASSUME IndexAssumption == /\ IndexModulus \in Nat \ {0}
                          /\ Never \notin Nat

VARIABLES
    seeding,    \* what the configuration says of the seed
    main,       \* how many runs main has submitted
    joined,     \* whether join has returned
    at,         \* where a run is
    drawn,      \* how far the engine is from where the configured seed puts it
    seen,       \* the state of the engine that a draw of the run has read
    made,       \* the draws of the run
    start, len, \* of its machines
    future,     \* _futureVMs: the machines it has not spawned
    remaining,  \* what its data centre has left to do for each machine
    index,      \* index
    \* History
    spawnedAt,  \* the iteration in which it spawned each machine
    disturbed   \* whether another run came to the engine since this one seeded it

config == <<seen, made, start, len>>
execution == <<future, remaining, index, spawnedAt>>
vars == <<seeding, main, joined, at, drawn, config, execution, disturbed>>

Runs == 0..(NbRun - 1)
Machines == 1..NbMachines
NbWorkers == IF NbRun < MaxWorkers THEN NbRun ELSE MaxWorkers

Seedings == {"configured", "clock", "none"}

Places == {"new", "queued", "seed", "look", "draw", "execute", "done"}
Configuring == {"look", "draw"}
AtWork == {"seed", "execute"} \cup Configuring

---------------------------------------------------------------------------
(* main and its pool *)

Submit ==
    /\ main < NbRun
    /\ at' = [at EXCEPT ![main] = "queued"]
    /\ main' = main + 1
    /\ UNCHANGED <<seeding, joined, drawn, config, execution, disturbed>>

\* A worker that is free takes the run that has waited longest.
Take(r) ==
    /\ at[r] = "queued"
    /\ \A u \in Runs : at[u] = "queued" => r <= u
    /\ Cardinality({u \in Runs : at[u] \in AtWork}) < NbWorkers
    /\ at' = [at EXCEPT ![r] = "seed"]
    /\ UNCHANGED <<seeding, main, joined, drawn, config, execution, disturbed>>

Join ==
    /\ main = NbRun
    /\ ~joined
    /\ \A r \in Runs : at[r] = "done"
    /\ joined' = TRUE
    /\ UNCHANGED <<seeding, main, at, drawn, config, execution, disturbed>>

---------------------------------------------------------------------------
(* configure *)

\* The engine changes under the runs that are configuring themselves.
Disturb(r) == disturbed' = [u \in Runs |->
                               u # r /\ (disturbed[u] \/ at[u] \in Configuring)]

\* A loop over the instances that is one draw too long.
AfterDrawsTooMany(n) == IF n > 2 * NbMachines THEN "execute" ELSE "look"

AfterDraws(n) == IF n = 2 * NbMachines THEN "execute" ELSE "look"

\* A run that goes on with the engine as the one before it left it.
SeedNothing(r) ==
    /\ at[r] = "seed"
    /\ at' = [at EXCEPT ![r] = AfterDraws(0)]
    /\ Disturb(r)
    /\ UNCHANGED <<seeding, main, joined, drawn, config, execution>>

\* configureGlobals, if there is a "global" in the configuration; the seed is that
\* of the configuration, or else the time.
Seed(r) ==
    /\ at[r] = "seed"
    /\ \/ seeding = "configured" /\ drawn' = 0
       \/ seeding = "clock" /\ drawn' \in ClockSeeds
       \/ seeding = "none" /\ UNCHANGED drawn
    /\ at' = [at EXCEPT ![r] = AfterDraws(0)]
    /\ Disturb(r)
    /\ UNCHANGED <<seeding, main, joined, config, execution>>

\* configureVMs calls the engine, which reads its state ...
Look(r) ==
    /\ at[r] = "look"
    /\ seen' = [seen EXCEPT ![r] = drawn]
    /\ at' = [at EXCEPT ![r] = "draw"]
    /\ UNCHANGED <<seeding, main, joined, drawn, made, start, len, execution, disturbed>>

\* ... and goes on to the next.  A machine gets its start first, then its length.
Draw(r) ==
    LET m == made[r] \div 2 + 1
    IN  /\ at[r] = "draw"
        /\ IF made[r] % 2 = 0
           THEN start' = [start EXCEPT ![r][m] = StartOf[seen[r]]] /\ UNCHANGED len
           ELSE len' = [len EXCEPT ![r][m] = LengthOf[seen[r]]] /\ UNCHANGED start
        /\ drawn' = (seen[r] + 1) % Period
        /\ seen' = [seen EXCEPT ![r] = 0]
        /\ made' = [made EXCEPT ![r] = @ + 1]
        /\ at' = [at EXCEPT ![r] = AfterDraws(made[r] + 1)]
        /\ disturbed' = [u \in Runs |->
                            disturbed[u] \/ (u # r /\ at[u] \in Configuring)]
        /\ UNCHANGED <<seeding, main, joined, execution>>

---------------------------------------------------------------------------
(* execute *)

\* The machines spawnFutureVMs finds in _futureVMs.
Due(r) == {m \in future[r] : start[r][m] = index[r]}

\* A spawnFutureVMs without its erase.
KeepAll(r) == future[r]

\* Those that are left after its erase.
Left(r) == future[r] \ Due(r)

\* One iteration of the data centre: a machine is there for its length.
NextOf(todo) == IF todo > 0 THEN todo - 1 ELSE 0

\* dc.next, after the spawns.
AfterNext(r) == [m \in Machines |-> NextOf(IF m \in Due(r) THEN len[r][m] ELSE remaining[r][m])]

\* A loop that only asks the data centre.
IsOver(r) == \A m \in Machines : AfterNext(r)[m] = 0

\* The test for the break: isFinished of the data centre, and nothing to come.
Over(r) == Left(r) = {} /\ \A m \in Machines : AfterNext(r)[m] = 0

Iterate(r) ==
    /\ at[r] = "execute"
    /\ future' = [future EXCEPT ![r] = Left(r)]
    /\ remaining' = [remaining EXCEPT ![r] = AfterNext(r)]
    /\ spawnedAt' = [spawnedAt EXCEPT ![r] =
                        [m \in Machines |-> IF m \in Due(r) THEN index[r] ELSE @[m]]]
    /\ IF Over(r)
       THEN at' = [at EXCEPT ![r] = "done"] /\ UNCHANGED index
       ELSE index' = [index EXCEPT ![r] = (@ + 1) % IndexModulus] /\ UNCHANGED at
    /\ UNCHANGED <<seeding, main, joined, drawn, config, disturbed>>

---------------------------------------------------------------------------
(* The specification *)

Init ==
    /\ seeding \in Seedings
    /\ main = 0
    /\ joined = FALSE
    /\ at = [r \in Runs |-> "new"]
    /\ drawn = 0
    /\ seen = [r \in Runs |-> 0]
    /\ made = [r \in Runs |-> 0]
    /\ start = [r \in Runs |-> [m \in Machines |-> 0]]
    /\ len = [r \in Runs |-> [m \in Machines |-> 0]]
    /\ future = [r \in Runs |-> Machines]
    /\ remaining = [r \in Runs |-> [m \in Machines |-> 0]]
    /\ index = [r \in Runs |-> 0]
    /\ spawnedAt = [r \in Runs |-> [m \in Machines |-> Never]]
    /\ disturbed = [r \in Runs |-> FALSE]

Work(r) == Take(r) \/ Seed(r) \/ Look(r) \/ Draw(r) \/ Iterate(r)

Main == Submit \/ Join

Next == Main \/ \E r \in Runs : Work(r)

Spec == Init /\ [][Next]_vars

\* Every thread runs.
FairSpec == Spec /\ WF_vars(Main) /\ \A r \in Runs : WF_vars(Work(r))

---------------------------------------------------------------------------
(* Properties *)

\* Every variable stays in its range: a run draws two numbers for each machine,
\* and its loop over the instances asks for no more.
TypeOK ==
    /\ seeding \in Seedings
    /\ main \in 0..NbRun
    /\ joined \in BOOLEAN
    /\ at \in [Runs -> Places]
    /\ drawn \in 0..(Period - 1)
    /\ seen \in [Runs -> 0..(Period - 1)]
    /\ made \in [Runs -> 0..(2 * NbMachines)]
    /\ start \in [Runs -> [Machines -> 0..(IndexModulus - 1)]]
    /\ len \in [Runs -> [Machines -> Nat]]
    /\ future \in [Runs -> SUBSET Machines]
    /\ remaining \in [Runs -> [Machines -> Nat]]
    /\ index \in [Runs -> 0..(IndexModulus - 1)]
    /\ spawnedAt \in [Runs -> [Machines -> 0..(IndexModulus - 1) \cup {Never}]]
    /\ disturbed \in [Runs -> BOOLEAN]

\* A run is not over before each of its machines has been spawned, in the
\* iteration it drew for it, and has done its work: no break between two
\* machines that leave the data centre empty, and no machine that is passed
\* over (simulation.cc execute, spawnFutureVMs).
EveryMachineRuns ==
    \A r \in Runs : at[r] = "done" =>
        /\ spawnedAt[r] = start[r]
        /\ \A m \in Machines : remaining[r][m] = 0

\* A configured seed decides what is simulated, also when other runs have used the
\* engine before, unless another run used it while this one drew its machines
\* (simulation.cc configureGlobals, configureVMs).
UndisturbedRunsRepeat ==
    seeding = "configured" =>
    \A r \in Runs : at[r] \in {"execute", "done"} /\ ~disturbed[r] =>
        /\ start[r] = [m \in Machines |-> StartOf[2 * (m - 1)]]
        /\ len[r] = [m \in Machines |-> LengthOf[2 * (m - 1) + 1]]

\* All runs end, and main with them: the loop comes to each start, whatever was
\* drawn, and the pool to each run.
SimulationsEnd == <>joined
=============================================================================
