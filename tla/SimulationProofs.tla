-------------------------- MODULE SimulationProofs --------------------------
(***************************************************************************)
(* The simulation, for any number of runs, workers and machines and for    *)
(* whatever the engine gives: a run spawns each machine in its iteration   *)
(* and lets it end, a run that had the engine to itself draws what its     *)
(* seed says, and every step brings a run nearer to its end.               *)
(***************************************************************************)
EXTENDS Simulation, Integers, TLAPS

---------------------------------------------------------------------------
(* The inductive invariant *)

\* How far a run has got: main hands the runs over in order, and a run makes its
\* draws between its seed and its first iteration.
StageOK(r) ==
    /\ r >= main => at[r] = "new"
    /\ at[r] \in {"new", "queued", "seed"} => made[r] = 0
    /\ at[r] \in Configuring => made[r] < 2 * NbMachines
    /\ at[r] \in {"execute", "done"} => made[r] = 2 * NbMachines

\* Each machine is to come, or has been spawned when it should; in the end all
\* have been, and have ended.
MachinesOK(r) ==
    /\ at[r] \notin {"execute", "done"} => future[r] = Machines
    /\ at[r] \in {"execute", "done"} =>
          \A m \in Machines : m \in future[r] \/ spawnedAt[r][m] = start[r][m]
    /\ at[r] = "done" =>
          future[r] = {} /\ \A m \in Machines : remaining[r][m] = 0

\* A run that had a seed and that nobody disturbs finds the engine where it left it.
EngineOK(r) ==
    seeding = "configured" /\ ~disturbed[r] =>
        /\ at[r] \in Configuring => drawn = made[r]
        /\ at[r] = "draw" => seen[r] = made[r]
        /\ at[r] \in Configuring \cup {"execute", "done"} =>
              \A m \in Machines :
                  /\ 2 * (m - 1) < made[r] => start[r][m] = StartOf[2 * (m - 1)]
                  /\ 2 * (m - 1) + 1 < made[r] => len[r][m] = LengthOf[2 * (m - 1) + 1]

SimInv == TypeOK /\ \A r \in Runs : StageOK(r) /\ MachinesOK(r) /\ EngineOK(r)

LEMMA InitSim == Init => SimInv
<1> SUFFICES ASSUME Init PROVE SimInv
  OBVIOUS
<1>1. TypeOK
  <2>1. /\ 0 \in 0..NbRun /\ 0 \in 0..(Period - 1) /\ 0 \in 0..(2 * NbMachines)
        /\ 0 \in 0..(IndexModulus - 1)
    BY PoolAssumption, MachinesAssumption, EngineAssumption, IndexAssumption
  <2> QED BY <2>1 DEF Init, TypeOK, Places
<1>2. ASSUME NEW r \in Runs PROVE StageOK(r) /\ MachinesOK(r) /\ EngineOK(r)
  BY DEF Init, StageOK, MachinesOK, EngineOK, Configuring
<1> QED BY <1>1, <1>2 DEF SimInv

---------------------------------------------------------------------------
(* Its steps *)

\* The remainder of a division, and that of a number below the divisor.
LEMMA Remainder ==
    ASSUME NEW a \in Nat, NEW b \in Nat \ {0}
    PROVE  a % b \in 0..(b - 1) /\ (a < b => a % b = a)
  OBVIOUS

LEMMA PoolStep ==
    ASSUME SimInv, Submit \/ Join \/ \E r \in Runs : Take(r)
    PROVE  SimInv'
<1>1. /\ UNCHANGED <<seeding, drawn, config, execution, disturbed>>
      /\ main' \in 0..NbRun /\ joined' \in BOOLEAN
      /\ at' \in [Runs -> Places]
      /\ \A r \in Runs : \/ at'[r] = at[r] /\ (r >= main' => r >= main)
                         \/ /\ at[r] \in {"new", "queued"} /\ at'[r] \in {"queued", "seed"}
                            /\ ~(r >= main')
  <2>1. CASE Submit
    <3>1. main \in Runs /\ at[main] = "new" /\ main' = main + 1
      BY <2>1, PoolAssumption DEF Submit, SimInv, TypeOK, StageOK, Runs
    <3> QED BY <2>1, <3>1, PoolAssumption DEF Submit, SimInv, TypeOK, Places, Runs
  <2>2. CASE Join
    BY <2>2 DEF Join, SimInv, TypeOK
  <2>3. CASE \E r \in Runs : Take(r)
    <3>1. PICK r \in Runs : Take(r)
      BY <2>3
    <3>2. /\ at' = [at EXCEPT ![r] = "seed"] /\ at[r] = "queued" /\ ~(r >= main)
          /\ UNCHANGED <<seeding, main, joined, drawn, config, execution, disturbed>>
      BY <3>1 DEF Take, SimInv, StageOK
    <3> QED BY <3>2 DEF SimInv, TypeOK, Places
  <2> QED BY <2>1, <2>2, <2>3
<1>2. TypeOK'
  BY <1>1 DEF SimInv, TypeOK, config, execution
<1>3. ASSUME NEW r \in Runs PROVE StageOK(r)' /\ MachinesOK(r)' /\ EngineOK(r)'
  <2>1. StageOK(r)'
    BY <1>1 DEF SimInv, StageOK, config, Configuring
  <2>2. MachinesOK(r)' /\ EngineOK(r)'
    BY <1>1 DEF SimInv, MachinesOK, EngineOK, config, execution, Configuring
  <2> QED BY <2>1, <2>2
<1> QED BY <1>2, <1>3 DEF SimInv

LEMMA SeedStep ==
    ASSUME SimInv, NEW r \in Runs, Seed(r)
    PROVE  SimInv'
<1>1. AfterDraws(0) \in {"execute", "look"} /\ (AfterDraws(0) = "execute" <=> NbMachines = 0)
  BY MachinesAssumption DEF AfterDraws
<1>2. drawn' \in 0..(Period - 1) /\ (seeding = "configured" => drawn' = 0)
  <2>1. drawn \in 0..(Period - 1) /\ 0 \in 0..(Period - 1) /\ ClockSeeds \subseteq 0..(Period - 1)
    BY EngineAssumption DEF SimInv, TypeOK
  <2> QED BY <2>1 DEF Seed
<1>3. /\ at' = [at EXCEPT ![r] = AfterDraws(0)] /\ at[r] = "seed"
      /\ UNCHANGED <<seeding, main, joined, config, execution>>
      /\ disturbed' \in [Runs -> BOOLEAN]
      /\ \A u \in Runs \ {r} : disturbed'[u] = (disturbed[u] \/ at[u] \in Configuring)
      /\ made[r] = 0 /\ r < main
  BY PoolAssumption DEF Seed, Disturb, SimInv, TypeOK, StageOK, Runs, Configuring
<1>4. TypeOK'
  BY <1>1, <1>2, <1>3 DEF SimInv, TypeOK, config, execution, Places
<1>5. ASSUME NEW u \in Runs PROVE StageOK(u)' /\ MachinesOK(u)' /\ EngineOK(u)'
  <2>1. CASE u # r
    BY <1>3, <2>1 DEF SimInv, TypeOK, StageOK, MachinesOK, EngineOK, config, execution, Configuring
  <2>2. CASE u = r
    <3>1. StageOK(r)'
      BY <1>1, <1>3, PoolAssumption, MachinesAssumption
         DEF SimInv, TypeOK, StageOK, config, Configuring, Runs
    <3>2. MachinesOK(r)'
      BY <1>1, <1>3 DEF SimInv, TypeOK, MachinesOK, config, execution
    <3>3. EngineOK(r)'
      <4>1. (seeding' = "configured" => drawn' = 0) /\ made'[r] = 0 /\ at'[r] = AfterDraws(0)
        BY <1>3, <1>2 DEF SimInv, TypeOK, config
      <4>2. \A m \in Machines : ~(2 * (m - 1) < 0) /\ ~(2 * (m - 1) + 1 < 0)
        BY MachinesAssumption DEF Machines
      <4> QED BY <1>1, <4>1, <4>2 DEF EngineOK
    <3> QED BY <2>2, <3>1, <3>2, <3>3
  <2> QED BY <2>1, <2>2
<1> QED BY <1>4, <1>5 DEF SimInv

LEMMA LookStep ==
    ASSUME SimInv, NEW r \in Runs, Look(r)
    PROVE  SimInv'
<1>1. TypeOK'
  BY DEF Look, SimInv, TypeOK, execution, Places
<1>2. ASSUME NEW u \in Runs PROVE StageOK(u)' /\ MachinesOK(u)' /\ EngineOK(u)'
  BY DEF Look, SimInv, TypeOK, StageOK, MachinesOK, EngineOK, execution, Configuring
<1> QED BY <1>1, <1>2 DEF SimInv

\* An odd number of draws is that of whole machines and one more.
LEMMA Odd ==
    ASSUME NEW a \in Nat, a % 2 # 0
    PROVE  2 * (a \div 2) + 1 = a
<1>1. a % 2 = 1
  <2>1. a % 2 \in 0..1
    OBVIOUS
  <2> QED BY <2>1
<1>2. a = 2 * (a \div 2) + (a % 2)
  OBVIOUS
<1> QED BY <1>1, <1>2

LEMMA DrawStep ==
    ASSUME SimInv, NEW r \in Runs, Draw(r)
    PROVE  SimInv'
<1> DEFINE n == made[r]
           m == n \div 2 + 1
<1>1. /\ at[r] = "draw" /\ n \in Nat /\ n < 2 * NbMachines /\ seen[r] \in 0..(Period - 1)
      /\ NbMachines \in Nat
  BY MachinesAssumption DEF Draw, SimInv, TypeOK, StageOK, Configuring
<1>2. /\ drawn' = (seen[r] + 1) % Period
      /\ seen' = [seen EXCEPT ![r] = 0]
      /\ made' = [made EXCEPT ![r] = n + 1]
      /\ at' = [at EXCEPT ![r] = AfterDraws(n + 1)]
      /\ disturbed' \in [Runs -> BOOLEAN] /\ disturbed'[r] = disturbed[r]
      /\ \A u \in Runs \ {r} : disturbed'[u] = (disturbed[u] \/ at[u] \in Configuring)
      /\ UNCHANGED <<seeding, main, joined, future, remaining, index, spawnedAt>>
  BY DEF Draw, execution, SimInv, TypeOK
<1>3. /\ AfterDraws(n + 1) \in {"execute", "look"}
      /\ AfterDraws(n + 1) = "execute" <=> n + 1 = 2 * NbMachines
  BY DEF AfterDraws
<1>4. m \in Machines
  BY <1>1 DEF Machines
<1>5. \/ /\ n % 2 = 0 /\ len' = len
         /\ start' = [start EXCEPT ![r][m] = StartOf[seen[r]]]
      \/ /\ n % 2 # 0 /\ start' = start
         /\ len' = [len EXCEPT ![r][m] = LengthOf[seen[r]]]
  BY DEF Draw
<1>6. TypeOK'
  <2> DEFINE s == StartOf[seen[r]]
             l == LengthOf[seen[r]]
  <2>1. start' \in [Runs -> [Machines -> 0..(IndexModulus - 1)]]
    <3>1. s \in 0..(IndexModulus - 1)
      BY <1>1, EngineAssumption
    <3>2. [start[r] EXCEPT ![m] = s] \in [Machines -> 0..(IndexModulus - 1)]
      BY <3>1 DEF SimInv, TypeOK
    <3>3. start' = start \/ start' = [start EXCEPT ![r] = [start[r] EXCEPT ![m] = s]]
      BY <1>5
    <3> QED BY <3>2, <3>3 DEF SimInv, TypeOK
  <2>2. len' \in [Runs -> [Machines -> Nat]]
    <3>1. l \in Nat
      BY <1>1, EngineAssumption
    <3>2. [len[r] EXCEPT ![m] = l] \in [Machines -> Nat]
      BY <3>1 DEF SimInv, TypeOK
    <3>3. len' = len \/ len' = [len EXCEPT ![r] = [len[r] EXCEPT ![m] = l]]
      BY <1>5
    <3> QED BY <3>2, <3>3 DEF SimInv, TypeOK
  <2>3. /\ drawn' \in 0..(Period - 1) /\ seen' \in [Runs -> 0..(Period - 1)]
        /\ made' \in [Runs -> 0..(2 * NbMachines)]
    <3>1. (seen[r] + 1) % Period \in 0..(Period - 1) /\ 0 \in 0..(Period - 1)
      <4>1. seen[r] + 1 \in Nat /\ Period \in Nat \ {0}
        BY <1>1, EngineAssumption
      <4> QED BY <4>1, Remainder
    <3>2. n + 1 \in 0..(2 * NbMachines)
      BY <1>1
    <3> QED BY <1>2, <3>1, <3>2 DEF SimInv, TypeOK
  <2>4. at' \in [Runs -> Places]
    BY <1>2, <1>3 DEF SimInv, TypeOK, Places
  <2> QED BY <1>2, <2>1, <2>2, <2>3, <2>4 DEF SimInv, TypeOK
<1>7. ASSUME NEW u \in Runs \ {r} PROVE StageOK(u)' /\ MachinesOK(u)' /\ EngineOK(u)'
  <2>1. /\ at'[u] = at[u] /\ made'[u] = made[u] /\ seen'[u] = seen[u]
        /\ start'[u] = start[u] /\ len'[u] = len[u]
    BY <1>2, <1>5 DEF SimInv, TypeOK
  <2> QED BY <1>2, <2>1 DEF SimInv, StageOK, MachinesOK, EngineOK
<1>8. at'[r] = AfterDraws(n + 1) /\ made'[r] = n + 1
  BY <1>2 DEF SimInv, TypeOK
<1>9. StageOK(r)' /\ MachinesOK(r)'
  BY <1>1, <1>2, <1>3, <1>8 DEF SimInv, StageOK, MachinesOK, Configuring
<1>10. EngineOK(r)'
  <2> SUFFICES ASSUME seeding' = "configured", ~disturbed'[r] PROVE EngineOK(r)'
    BY DEF EngineOK
  <2>1. drawn = n /\ seen[r] = n
    BY <1>1, <1>2 DEF SimInv, EngineOK, Configuring
  <2>2. at'[r] \in Configuring => drawn' = made'[r]
    <3>1. n + 1 # 2 * NbMachines => (n + 1) % Period = n + 1
      <4>1. n + 1 # 2 * NbMachines => n + 1 \in Nat /\ n + 1 < Period
        BY <1>1, EngineAssumption
      <4> QED BY <4>1, Remainder, EngineAssumption
    <3> QED BY <1>2, <1>3, <1>8, <2>1, <3>1 DEF Configuring
  <2>3. ASSUME NEW k \in Machines
        PROVE  /\ 2 * (k - 1) < n + 1 => start'[r][k] = StartOf[2 * (k - 1)]
               /\ 2 * (k - 1) + 1 < n + 1 => len'[r][k] = LengthOf[2 * (k - 1) + 1]
    <3>1. /\ 2 * (k - 1) < n => start[r][k] = StartOf[2 * (k - 1)]
          /\ 2 * (k - 1) + 1 < n => len[r][k] = LengthOf[2 * (k - 1) + 1]
      BY <1>1, <1>2 DEF SimInv, EngineOK, Configuring
    <3>2. /\ k # m => start'[r][k] = start[r][k] /\ len'[r][k] = len[r][k]
          /\ n % 2 = 0 => start'[r][m] = StartOf[n] /\ len'[r][k] = len[r][k]
          /\ n % 2 # 0 => len'[r][m] = LengthOf[n] /\ start'[r][k] = start[r][k]
      BY <1>4, <1>5, <2>1 DEF SimInv, TypeOK
    <3>3. k \in Int /\ n \in Nat
      BY <1>1 DEF Machines
    <3>4. CASE k = m /\ n % 2 = 0
      <4>1. 2 * (k - 1) = n
        BY <3>3, <3>4
      <4> QED BY <3>1, <3>2, <3>3, <3>4, <4>1
    <3>5. CASE k = m /\ n % 2 # 0
      <4>1. 2 * (n \div 2) + 1 = n
        BY <3>3, <3>5, Odd
      <4>2. 2 * (k - 1) + 1 = n
        BY <3>3, <3>5, <4>1
      <4> QED BY <3>1, <3>2, <3>3, <3>5, <4>2
    <3>6. CASE k # m
      <4>1. 2 * (k - 1) # n /\ 2 * (k - 1) + 1 # n
        BY <3>3, <3>6
      <4> QED BY <3>1, <3>2, <3>3, <3>6, <4>1
    <3> QED BY <3>4, <3>5, <3>6
  <2>4. at'[r] # "draw"
    BY <1>3, <1>8
  <2> QED BY <1>8, <2>2, <2>3, <2>4 DEF EngineOK
<1> QED BY <1>6, <1>7, <1>9, <1>10 DEF SimInv

LEMMA IterateStep ==
    ASSUME SimInv, NEW r \in Runs, Iterate(r)
    PROVE  SimInv'
<1>1. /\ UNCHANGED <<seeding, main, joined, drawn, config, disturbed>> /\ at[r] = "execute"
      /\ future' = [future EXCEPT ![r] = Left(r)]
      /\ remaining' = [remaining EXCEPT ![r] = AfterNext(r)]
      /\ spawnedAt' = [spawnedAt EXCEPT ![r] =
                          [m \in Machines |-> IF m \in Due(r) THEN index[r] ELSE @[m]]]
      /\ \/ Over(r) /\ at' = [at EXCEPT ![r] = "done"] /\ index' = index
         \/ ~Over(r) /\ at' = at /\ index' = [index EXCEPT ![r] = (@ + 1) % IndexModulus]
  BY DEF Iterate
<1>2. AfterNext(r) \in [Machines -> Nat]
  BY DEF AfterNext, NextOf, SimInv, TypeOK
<1>3. Left(r) \subseteq Machines
  BY DEF Left, SimInv, TypeOK
<1>4. TypeOK'
  <2>1. index' \in [Runs -> 0..(IndexModulus - 1)]
    <3>1. (index[r] + 1) % IndexModulus \in 0..(IndexModulus - 1)
      <4>1. index[r] + 1 \in Nat /\ IndexModulus \in Nat \ {0}
        BY IndexAssumption DEF SimInv, TypeOK
      <4> QED BY <4>1, Remainder
    <3> QED BY <1>1, <3>1 DEF SimInv, TypeOK
  <2>2. spawnedAt' \in [Runs -> [Machines -> 0..(IndexModulus - 1) \cup {Never}]]
    BY <1>1 DEF SimInv, TypeOK
  <2> QED BY <1>1, <1>2, <1>3, <2>1, <2>2 DEF SimInv, TypeOK, config, Places
<1>5. ASSUME NEW u \in Runs \ {r} PROVE StageOK(u)' /\ MachinesOK(u)' /\ EngineOK(u)'
  <2>1. /\ at'[u] = at[u] /\ future'[u] = future[u] /\ remaining'[u] = remaining[u]
        /\ spawnedAt'[u] = spawnedAt[u]
    BY <1>1 DEF SimInv, TypeOK
  <2> QED BY <1>1, <2>1 DEF SimInv, StageOK, MachinesOK, EngineOK, config
<1>6. StageOK(r)' /\ EngineOK(r)'
  BY <1>1 DEF SimInv, TypeOK, StageOK, EngineOK, config, Configuring
<1>7. MachinesOK(r)'
  <2>1. /\ future'[r] = Left(r) /\ remaining'[r] = AfterNext(r) /\ start' = start
        /\ \A m \in Machines :
              spawnedAt'[r][m] = IF m \in Due(r) THEN index[r] ELSE spawnedAt[r][m]
        /\ at'[r] \in {"execute", "done"} /\ (at'[r] = "done" => Over(r))
    BY <1>1 DEF SimInv, TypeOK, config
  <2>2. \A m \in Machines : m \in Left(r) \/ spawnedAt'[r][m] = start[r][m]
    BY <1>1, <2>1 DEF Left, Due, SimInv, MachinesOK
  <2> QED BY <2>1, <2>2 DEF MachinesOK, Over
<1> QED BY <1>4, <1>5, <1>6, <1>7 DEF SimInv

LEMMA SimStays == SimInv /\ [Next]_vars => SimInv'
<1>1. ASSUME SimInv, UNCHANGED vars PROVE SimInv'
  BY <1>1 DEF vars, config, execution, SimInv, TypeOK, StageOK, MachinesOK, EngineOK
<1> QED BY <1>1, PoolStep, SeedStep, LookStep, DrawStep, IterateStep DEF Next, Main, Work

---------------------------------------------------------------------------
(* The theorems *)

\* The invariant that the others follow from.
THEOREM SimulationInvariance == Spec => []SimInv
<1>1. QED
  BY InitSim, SimStays, PTL DEF Spec

\* Every variable stays in its range; in particular a run draws two numbers for
\* each of its machines, whatever other runs do to the engine.
THEOREM SimulationTypeCorrect == Spec => []TypeOK
<1>1. SimInv => TypeOK
  BY DEF SimInv
<1> QED BY <1>1, SimulationInvariance, PTL

\* A run that is over has spawned every machine in the iteration it drew, and
\* each has done its work.
THEOREM MachinesRun == Spec => []EveryMachineRuns
<1>1. SimInv => EveryMachineRuns
  <2> SUFFICES ASSUME SimInv, NEW r \in Runs, at[r] = "done"
               PROVE  spawnedAt[r] = start[r] /\ \A m \in Machines : remaining[r][m] = 0
    BY DEF EveryMachineRuns
  <2>1. \A m \in Machines : spawnedAt[r][m] = start[r][m] /\ remaining[r][m] = 0
    BY DEF SimInv, MachinesOK
  <2>2. spawnedAt[r] = start[r]
    BY <2>1 DEF SimInv, TypeOK
  <2> QED BY <2>1, <2>2
<1> QED BY <1>1, SimulationInvariance, PTL

\* A configured seed decides what is simulated, for a run that had the engine to
\* itself while it drew its machines.
THEOREM SeedDecides == Spec => []UndisturbedRunsRepeat
<1>1. SimInv => UndisturbedRunsRepeat
  <2> SUFFICES ASSUME SimInv, NEW r \in Runs, seeding = "configured",
                      at[r] \in {"execute", "done"}, ~disturbed[r]
               PROVE  /\ start[r] = [m \in Machines |-> StartOf[2 * (m - 1)]]
                      /\ len[r] = [m \in Machines |-> LengthOf[2 * (m - 1) + 1]]
    BY DEF UndisturbedRunsRepeat
  <2>1. made[r] = 2 * NbMachines
    BY DEF SimInv, StageOK
  <2>2. \A m \in Machines : 2 * (m - 1) < made[r] /\ 2 * (m - 1) + 1 < made[r]
    BY <2>1, MachinesAssumption DEF Machines
  <2>3. \A m \in Machines : /\ start[r][m] = StartOf[2 * (m - 1)]
                            /\ len[r][m] = LengthOf[2 * (m - 1) + 1]
    BY <2>2 DEF SimInv, EngineOK
  <2> QED BY <2>3 DEF SimInv, TypeOK
<1> QED BY <1>1, SimulationInvariance, PTL

---------------------------------------------------------------------------
(* Why the runs end *)

\* The loop of a run is not ahead of a machine that is still to come, so that
\* index does not wrap before it has come to all of them.
NothingPassed ==
    \A r \in Runs :
        /\ at[r] \notin {"execute", "done"} => index[r] = 0
        /\ at[r] = "execute" => \A m \in future[r] : index[r] <= start[r][m]

\* A machine that is left behind by spawnFutureVMs has its start ahead of it.
LEMMA NextIterationIsDue ==
    ASSUME SimInv, NothingPassed, NEW r \in Runs, Iterate(r), NEW m \in Left(r)
    PROVE  index[r] + 1 <= start[r][m] /\ (index[r] + 1) % IndexModulus = index[r] + 1
<1>1. m \in Machines /\ index[r] <= start[r][m] /\ index[r] # start[r][m]
  BY DEF Left, Due, Iterate, NothingPassed, SimInv, TypeOK
<1>2. start[r][m] \in 0..(IndexModulus - 1) /\ index[r] \in Nat /\ IndexModulus \in Nat \ {0}
  BY <1>1, IndexAssumption DEF SimInv, TypeOK
<1>3. index[r] + 1 <= start[r][m] /\ index[r] + 1 < IndexModulus
  BY <1>1, <1>2
<1> QED BY <1>2, <1>3, Remainder

\* No machine is passed over: neither by the 32 bits of index nor by an
\* iteration that spawns others (simulation.cc execute, spawnFutureVMs).
THEOREM NoMachineIsPassed == Spec => []NothingPassed
<1>1. Init => NothingPassed
  BY DEF Init, NothingPassed
<1>2. SimInv /\ SimInv' /\ NothingPassed /\ [Next]_vars => NothingPassed'
  <2> SUFFICES ASSUME SimInv, SimInv', NothingPassed, [Next]_vars, NEW r \in Runs
               PROVE  /\ at'[r] \notin {"execute", "done"} => index'[r] = 0
                      /\ at'[r] = "execute" => \A m \in future'[r] : index'[r] <= start'[r][m]
    BY DEF NothingPassed
  <2>1. CASE UNCHANGED vars
    BY <2>1 DEF vars, config, execution, NothingPassed
  <2>2. CASE Main
    <3>1. /\ at'[r] = at[r] \/ (at[r] = "new" /\ at'[r] = "queued")
          /\ UNCHANGED <<config, execution>>
      <4>1. CASE Submit
        <5>1. main \in Runs /\ at[main] = "new"
          BY <4>1, PoolAssumption DEF Submit, SimInv, TypeOK, StageOK, Runs
        <5> QED BY <4>1, <5>1 DEF Submit, SimInv, TypeOK
      <4>2. CASE Join
        BY <4>2 DEF Join
      <4> QED BY <2>2, <4>1, <4>2 DEF Main
    <3> QED BY <3>1 DEF config, execution, NothingPassed
  <2>3. ASSUME NEW u \in Runs \ {r}, Work(u)
        PROVE  /\ at'[r] = at[r] /\ index'[r] = index[r]
               /\ future'[r] = future[r] /\ start'[r] = start[r]
    BY <2>3 DEF Work, Take, Seed, Look, Draw, Iterate, config, execution, SimInv, TypeOK
  <2>4. CASE Take(r) \/ Seed(r) \/ Look(r) \/ Draw(r)
    <3>1. index'[r] = 0
      BY <2>4 DEF Take, Seed, Look, Draw, execution, NothingPassed
    <3>2. future'[r] \subseteq Machines
          /\ \A m \in Machines : start'[r][m] \in 0..(IndexModulus - 1)
      BY DEF SimInv, TypeOK
    <3> QED BY <3>1, <3>2, IndexAssumption
  <2>5. CASE Iterate(r)
    <3>1. /\ future'[r] = Left(r) /\ start' = start /\ at[r] = "execute"
          /\ at'[r] \in {"execute", "done"}
          /\ at'[r] = "execute" => index'[r] = (index[r] + 1) % IndexModulus
      BY <2>5 DEF Iterate, config, SimInv, TypeOK
    <3>2. \A m \in Left(r) : /\ index[r] + 1 <= start[r][m]
                             /\ (index[r] + 1) % IndexModulus = index[r] + 1
      BY <2>5, NextIterationIsDue
    <3> QED BY <3>1, <3>2
  <2> QED BY <2>1, <2>2, <2>3, <2>4, <2>5 DEF Next, Work, NothingPassed
<1> QED BY <1>1, <1>2, SimulationInvariance, PTL DEF Spec

\* The steps a run has before its loop at most.
RunLeft(r) ==
    CASE at[r] = "done" -> 0
      [] at[r] = "execute" -> 1
      [] at[r] = "draw" -> 2 * (2 * NbMachines - made[r])
      [] at[r] = "look" -> 2 * (2 * NbMachines - made[r]) + 1
      [] at[r] = "seed" -> 4 * NbMachines + 2
      [] at[r] = "queued" -> 4 * NbMachines + 3
      [] at[r] = "new" -> 4 * NbMachines + 4

\* What an iteration that is not the last has brought forward: a machine has
\* been spawned, or the next start is nearer, or every machine that is still
\* there has less to do.
Nearer(r) ==
    \/ future'[r] \subseteq future[r] /\ future'[r] # future[r]
    \/ /\ future'[r] = future[r]
       /\ \A m \in future[r] : start'[r][m] = start[r][m] /\ index[r] < start[r][m]
       /\ index'[r] = index[r] + 1
    \/ /\ future[r] = {} /\ future'[r] = {}
       /\ \E m \in Machines : remaining[r][m] > 0
       /\ \A m \in Machines : /\ remaining'[r][m] <= remaining[r][m]
                              /\ remaining[r][m] > 0 => remaining'[r][m] < remaining[r][m]

\* Each step of a run takes it nearer to its loop, and in the loop nearer to its
\* end; what the other runs do to the engine does not take it back.
RunsAdvance ==
    [][\A r \in Runs :
          /\ RunLeft(r) \in Nat /\ (RunLeft(r) = 0 <=> at[r] = "done")
          /\ Work(r) => RunLeft(r)' < RunLeft(r) \/ (Iterate(r) /\ Nearer(r))
          /\ \A u \in Runs \ {r} : Work(u) =>
                /\ RunLeft(r)' = RunLeft(r)
                /\ future'[r] = future[r] /\ index'[r] = index[r]
                /\ remaining'[r] = remaining[r] /\ start'[r] = start[r]]_vars

LEMMA RunLeftIsNat ==
    ASSUME SimInv, NEW r \in Runs
    PROVE  RunLeft(r) \in Nat /\ (RunLeft(r) = 0 <=> at[r] = "done")
<1>1. /\ at[r] \in Places /\ made[r] \in Nat /\ NbMachines \in Nat
      /\ at[r] \in Configuring => made[r] < 2 * NbMachines
  BY MachinesAssumption DEF SimInv, TypeOK, StageOK
<1> QED BY <1>1 DEF RunLeft, Places, Configuring

LEMMA ConfiguringAdvances ==
    ASSUME SimInv, NEW r \in Runs, Take(r) \/ Seed(r) \/ Look(r) \/ Draw(r)
    PROVE  RunLeft(r)' < RunLeft(r)
<1>1. /\ made[r] \in Nat /\ NbMachines \in Nat
      /\ at[r] \in Configuring => made[r] < 2 * NbMachines
      /\ at[r] = "seed" => made[r] = 0
  BY MachinesAssumption DEF SimInv, TypeOK, StageOK
<1>2. CASE Take(r)
  <2>1. at[r] = "queued" /\ at'[r] = "seed"
    BY <1>2 DEF Take, SimInv, TypeOK
  <2> QED BY <1>1, <2>1 DEF RunLeft
<1>3. CASE Seed(r)
  <2>1. at[r] = "seed" /\ at'[r] \in {"look", "execute"} /\ made'[r] = 0
    BY <1>1, <1>3 DEF Seed, AfterDraws, config, SimInv, TypeOK
  <2> QED BY <1>1, <2>1 DEF RunLeft
<1>4. CASE Look(r)
  <2>1. at[r] = "look" /\ at'[r] = "draw" /\ made'[r] = made[r]
    BY <1>4 DEF Look, SimInv, TypeOK
  <2> QED BY <1>1, <2>1 DEF RunLeft
<1>5. CASE Draw(r)
  <2>1. /\ at[r] = "draw" /\ made'[r] = made[r] + 1
        /\ at'[r] = AfterDraws(made[r] + 1)
    BY <1>5 DEF Draw, SimInv, TypeOK
  <2>2. at'[r] = "look" \/ at'[r] = "execute"
    BY <2>1 DEF AfterDraws
  <2> QED BY <1>1, <2>1, <2>2 DEF RunLeft, Configuring
<1> QED BY <1>2, <1>3, <1>4, <1>5

LEMMA IteratingAdvances ==
    ASSUME SimInv, NothingPassed, NEW r \in Runs, Iterate(r)
    PROVE  RunLeft(r)' < RunLeft(r) \/ Nearer(r)
<1>1. /\ at[r] = "execute" /\ start' = start /\ future[r] \subseteq Machines
      /\ future'[r] = Left(r) /\ remaining'[r] = AfterNext(r)
      /\ \/ Over(r) /\ at'[r] = "done"
         \/ ~Over(r) /\ index'[r] = (index[r] + 1) % IndexModulus
  BY DEF Iterate, config, SimInv, TypeOK
<1>2. CASE Over(r)
  BY <1>1, <1>2 DEF RunLeft
<1>3. CASE ~Over(r) /\ future[r] = {}
  <2>1. Due(r) = {} /\ Left(r) = {}
    BY <1>3 DEF Due, Left
  <2>2. \A m \in Machines : remaining[r][m] \in Nat /\ AfterNext(r)[m] = NextOf(remaining[r][m])
    BY <2>1 DEF AfterNext, SimInv, TypeOK
  <2>3. \E m \in Machines : AfterNext(r)[m] # 0
    BY <1>3, <2>1 DEF Over
  <2>4. \E m \in Machines : remaining[r][m] > 0
    BY <2>2, <2>3 DEF NextOf
  <2>5. \A m \in Machines : /\ AfterNext(r)[m] <= remaining[r][m]
                            /\ remaining[r][m] > 0 => AfterNext(r)[m] < remaining[r][m]
    BY <2>2 DEF NextOf
  <2> QED BY <1>1, <1>3, <2>1, <2>4, <2>5 DEF Nearer
<1>4. CASE ~Over(r) /\ future[r] # {} /\ Left(r) = future[r]
  <2>1. \A m \in Left(r) : index[r] + 1 <= start[r][m] /\ (index[r] + 1) % IndexModulus = index[r] + 1
    BY NextIterationIsDue
  <2>2. index[r] \in Nat /\ \A m \in future[r] : start[r][m] \in Nat
    BY <1>1 DEF SimInv, TypeOK
  <2>3. index'[r] = index[r] + 1 /\ \A m \in future[r] : index[r] < start[r][m]
    BY <1>1, <1>4, <2>1, <2>2
  <2> QED BY <1>1, <1>4, <2>3 DEF Nearer
<1>5. CASE Left(r) # future[r]
  BY <1>1, <1>5 DEF Left, Nearer
<1> QED BY <1>2, <1>3, <1>4, <1>5

LEMMA OthersLeave ==
    ASSUME SimInv, NEW r \in Runs, NEW u \in Runs \ {r}, Work(u)
    PROVE  /\ RunLeft(r)' = RunLeft(r)
           /\ future'[r] = future[r] /\ index'[r] = index[r]
           /\ remaining'[r] = remaining[r] /\ start'[r] = start[r]
<1>1. /\ at'[r] = at[r] /\ made'[r] = made[r]
      /\ future'[r] = future[r] /\ index'[r] = index[r]
      /\ remaining'[r] = remaining[r] /\ start'[r] = start[r]
  BY DEF Work, Take, Seed, Look, Draw, Iterate, config, execution, SimInv, TypeOK
<1> QED BY <1>1 DEF RunLeft

\* A run has a bounded number of steps for whatever it draws, also next to runs
\* that disturb it: what SimulationsEnd needs, but for the fairness
\* (simulation.cc configure, execute).
THEOREM RunsGetToTheirEnd == Spec => RunsAdvance
<1>1. SimInv /\ NothingPassed =>
         [\A r \in Runs :
             /\ RunLeft(r) \in Nat /\ (RunLeft(r) = 0 <=> at[r] = "done")
             /\ Work(r) => RunLeft(r)' < RunLeft(r) \/ (Iterate(r) /\ Nearer(r))
             /\ \A u \in Runs \ {r} : Work(u) =>
                   /\ RunLeft(r)' = RunLeft(r)
                   /\ future'[r] = future[r] /\ index'[r] = index[r]
                   /\ remaining'[r] = remaining[r] /\ start'[r] = start[r]]_vars
  BY RunLeftIsNat, ConfiguringAdvances, IteratingAdvances, OthersLeave DEF Work
<1> QED BY <1>1, SimulationInvariance, NoMachineIsPassed, PTL DEF RunsAdvance
=============================================================================
