# A verification model of cachecache

cachecache runs several caches in one process. Each cache replays a trace, learns
how long its items are left alone between two requests, and takes out the items
that have been left alone for too long; a market can share the memory between the
caches. Beside the service, the repository has a simulation of virtual machines, from
which traces are made. This directory holds TLA+ models of both, the TLC configurations
that check them, and proofs that TLAPS checks.

    tlc -config cache_core.cfg MCCachecache.tla     (any run of the table below)
    tlapm CachecacheProofs.tla                      (any module *Proofs.tla)

## 1. The system

| Part | Source (`cachecache/src/`) | State | Operations | Module |
|---|---|---|---|---|
| Cachecache | `service/cachecache.cc` | the CacheLib pool, `_calibrating`, `_targetedPercentile`, `_target`, `_key_buffer`, counters | `get`, `put`, `clean`, `resize`/`shrink`, `push_metrics` | `Cachecache`; `Market` (`resize`, `shrink`); `Generator` (counters) |
| Clock | `service/clock/clock.cc` | `_time` | `update`, `time`, `delta`, conversions | in `Cachecache`, `Generator` |
| Percentile | `service/percentile.cc` | five markers, count | `addValue`, `getEstimation` | `Percentile` |
| Generator | `service/generator.cc` | `_time`, `_stop`, `*_finished` | `run`, `process`, `parseLine` | `Generator` |
| Supervisor | `service/supervisor/supervisor.cc` | threads, flags, the maps of caches and generators | `configure`, `run` | `Supervisor` |
| The three above, together | | | a trace drives `get` and `put`, main drives `clean` | `Service` |
| Market | `service/market.cc` | wallets | `work` | `Market` |
| Metrics | `service/metrics/metrics.cc` | label names, files, mutex | `push`, `register_new` | `Metrics` |
| CacheLib | external, `cachelib.patch` | hash table, LRU list, allocations | `findToWrite`, `allocate`, `insertOrReplace`, `remove`, iterator | in `Cachecache` |
| Simulation | `simulation/src/` | the pool of runs, the random engine, future VMs, iteration | `main`, `configure`, `execute` | `Simulation` |
| vcpu_sim, rd_utils | external | data centre, random engine, task pool | `next`, `isFinished`, `uniform`, `submit`, `join` | in `Simulation` |
| Analysis | `xps/*.py` | none | plots of the CSV files | none |

### How the parts interact

The main thread configures everything from a TOML file and calls
`Supervisor::run`. That spawns one thread per generator. A generator reads its
trace line by line; when the timestamp of a line differs from its own second, it
moves the clock of its cache on, has the cache push its counters to the metrics,
sleeps for the rest of the second, and executes the line as `get` or `put`. Every
few seconds the main thread reads the `finished` flags of all generators and calls
`clean` on each cache. So **two threads use each cache**, and they share its pool
(behind CacheLib's own locks), its clock, its percentiles and its flags (behind
nothing). **All threads use the metrics**, behind a mutex that does not cover
everything. The market would be a third thread on each cache; the supervisor has
the calls that start it commented out, and the class is modelled as it stands.

The simulation is a program of its own. Its main thread submits one task per run to a
pool; a worker seeds the random engine, draws start and length of each machine, and
iterates until no machine is left. The runs share nothing but **the random engine of
the process**, which nothing locks.

### What is hard in it

- `clean` collects keys under the LRU lock and removes them after it let go of it,
  through views of keys that live inside the allocations.
- `get` overwrites the time stamp in an item with `memcpy` while `clean` may be
  parsing it, and the scan of `clean` relies on the list being ordered by that
  stamp, which `get` moves and stamps in two separate steps.
- An item may be evicted, replaced or removed while `get` holds it, and `get`
  may have to allocate, which can evict or fail.
- Sizes are unsigned: differences of values that were read at different times, or
  amounts that are not backed, wrap.
- The estimator divides by differences of positions that it moves itself.
- Flags are read one after the other while their owners go on.
- The first push of a metric races with the others.
- The age by which `clean` takes an item out is that of a clock which moves by one per
  new timestamp, while the trace may skip seconds; two threads read it.
- A run of the simulation may draw from an engine that another run has just seeded, and
  its loop must not stop between two machines that leave the data centre empty.

### What makes each part correct

- *Cachecache*: no item is lost that was used recently; the LRU order is the order
  of the stamps; an entry carries the time of the last use of its own key; nothing
  leaks; what it reports is a size; its operations end.
- *Percentile*: markers stay apart and in order, heights ascend, the outer ones are
  the extremes.
- *Generator, Supervisor*: the clock agrees with the trace, the replay stops at its
  limit, no line is late by more than the gaps, every request is reported once, only
  finished threads are joined, and the program ends.
- *All of it*: what `clean` takes out is what the *trace* left alone, and the operations
  of the cache, seen from outside, are those the generator and the supervisor count on.
- *Market*: the books balance, nothing wraps, nobody takes more than it left, no
  memory idles while a buyer can pay, the pools fit, a pass ends unless a release fails for ever.
- *Metrics*: one header, first; whole rows; every push ends.
- *Simulation*: each machine is spawned in its iteration and does its work, the seed
  decides the draws, every run ends.

## 2. The modules

**`Cachecache`** models one cache and its two threads. A *slot* is an allocation; it
keeps its bytes when it is given back, because `clean` still looks at them. `index`
is the hash table, `older` the LRU list as a relation, `live` the allocations.
`op` and `phase` say where each thread is; the steps are cut where the other thread
can get in:
`GetMiss, GetHit, GetPromote, GetRead, GetStamp, GetCopied, GetReallocate,
GetNullHandle, PutAllocate, PutFails, Insert, GetRelease` are `get` and `put`,
`CleanDecide, CleanMeasure, CleanLock, CleanCollect, CleanStop, CleanRemove,
CleanRemoved, CleanReport` are `clean`, and `Tick` is `Clock::update`. A stamp being
copied may be read as any mix of its old and new digits (`Torn`), and `Delta` wraps
at `TimeModulus`. The estimate that `clean` takes from a percentile is any member of
`Estimates`, or 0 before the third value. Since the lock is released when the
iterator goes out of scope, `LruUnlocked` is false during the scan only.
**`AgedCache`** is what a cache promises about ages: an entry either has the current
time, written by an operation of its key, or keeps the one it had, or goes; and an
operation ends with its time in the entry of its key, if that entry is still there.
`Cachecache` implements it, with `stamp` read off the index and the slots.
**`MCCachecache`** gives the constants their values.

**`Percentile`** is the estimator as one action, `addValue`, over **`Rational`**
numbers: the doubles of the code, exactly. `Collect` is the branch of the first five
values, `Adapt` the one after them: `Cell` finds k, `Counted` and `Desired` move
the positions, `Adjusted` is the loop over the inner markers, with `Parabolic` and
`Linear`. **`MCPercentile`** instantiates it.

**`Market`** is one pass of `work` cut at each turn of each loop, next to caches
whose usage changes at any step (`Use`): `Begin`, `Sell` (one cache of
`sellBaseMemory`), `SoldAll`, `Round`, `Buy` (one turn of `buyExtraMemory`),
`BoughtAll`, `Resize`, `Shrink`, `End`. `Shrink` is the loop of `shrink` that releases
slabs: `Ask` (how many slabs are `left` to advise away is CacheLib's answer, at most
`MaxAdvised`), `PickVictim` or `NoVictim` (the break), and then `Release` (a slab less),
`Abort` (the return on `SlabReleaseAborted`) or `FailRelease` (any other exception, after
which the loop goes round again without having counted), until `Advised`. Hash maps are
walked in any order. Sizes wrap at `SizeModulus` and the `int` of `shrink` at
`IntModulus`. `lent` and `asked` are history.
**`SharedMemory`** is what a market promises to the caches: in one step (`Agree`) each pass
gives everybody a share that fits, credits what is left to the others, takes more than the
request on credit only, and refuses memory to a cache with credit only when there is none
left and no other cache is more than a window ahead. `Market` implements it: all of a pass
up to the end of the rounds is that one step, and the end of the resizes is `Carried`.
**`MCMarket`** instantiates `Market`.

**`Generator`** replays any sorted trace, chosen line by line. `at` is the place in
`run` and `process`: `Open, OpenFails, ReadLine, ReadBadLine, Close, Finish` and
`SameSecond, UpdateClock, PushMetrics, Get, Refresh, Put`. A cache is reduced to its
`content`, the keys that have an entry: `Get` decides the hit, `Refresh` is the end of a
`get` that had one (it may store the entry anew), `Put` stores or fails, and `Lose` is
whatever takes entries out. `skipped`, `latest`, `served`, `reported` and `late` are
history.
**`Supervisor`** extends it with the main thread: `Spawn, StartChecking, Check` (one
flag at a time), `Checked, Clean, Join, Return`.

**`Service`** is the composition for one cache: it extends `Cachecache` and takes the
thread of the generator and the main thread from `Supervisor` by `INSTANCE`. `Get`, `Put`,
`PutInsert` and `GetGoesOn` execute a line by the steps of `get` and `put`, `Clean` is a
turn of main's loop by the steps of `clean`, and `UpdateClock` is the `Tick` of the
cache. Neither `op` and `phase` nor the timing is free any more: `clean` runs when main
has found the flag unset, the clock moves with the timestamps. `Program` is the
program seen from outside the cache (`At`, `Time`, `Content`), and `ImplementsProgram` says
that this is a behaviour of `Supervisor`: `get` takes effect when it has its handle and
is over when it has stamped its item, `put` when it has inserted its allocation, and a removal
by `clean` or an eviction is a `Lose`. **`MCService`** gives the constants their values.

**`Metrics`** is `push` for any number of threads: `Push, Find` (no mutex), `Lock,
RegisterAgain, Register, AddLabel, Open` (mutex), `Look, Format` (no mutex; metrics.cc:70
asks whether there are labels, :75 reads them), `Write` (mutex). `Find`, `Look` and `Format`
next to a registration are data races: each may miss the entry while another one is put
in (`Inserting`), or see the vector with any length it has in the meantime.
**`MetricLog`** is what those who push and those who read the files may rely on: a file per
metric that only grows, its header first, one row for each push, and a row missing (`Miss`)
only when another push was under way. `Metrics` implements it: all of a push is nothing, but for
its beginning, the header it may write, and its end.

**`Simulation`** has `Submit, Join` (main), `Take` (a free worker takes the oldest run),
`Seed, Look, Draw` (`configure`; a draw reads the state of the shared engine and writes
it back in two steps) and `Iterate` (one turn of `execute`: spawn what is due, let the
data centre go on, look whether it is over). The engine is a sequence of numbers from
the configured seed on (`StartOf`, `LengthOf`), with a period. `seeding` is what the
configuration, which all runs read, says of the seed: there is one; there is a `global`
without one, so that the clock gives it (any of `ClockSeeds`); or there is no `global`, and
a run goes on with the engine as it finds it. The data centre runs each machine
for its length. `disturbed` and `spawnedAt` are history. **`MCSimulation`** instantiates it.

A module `XProofs` holds the proofs about `X`. Definitions that stand before another
one and are used by nothing (`UnlinkNothing`, `BoughtOnCredit`, ...) are what that
definition would be with a plausible mistake in the code; with it in its place TLC
finds the property it is meant for violated, which shows that the property can fail.

## 3. The runs

| Run | Instance | What it asks |
|---|---|---|
| `cache_core` | 3 keys, 3 slots, clock to 2 | Is `IInv` invariant (all that the proofs rest on, the order of the LRU list by age and a positive divisor of `clean` among it), do items hold their stamps, is nothing leaked, does the scan find all old items? |
| `cache_torn` | 2 keys, 2 slots, clock to 6 | With stamps of one to three characters, read while they are written: does `clean` spare recent items, and does the cache implement `AgedCache`? |
| `percentile_markers` | all sequences of 9 values out of 3, p = 0.95 | Are the markers apart, the heights in order, the extremes exact? |
| `market` | 2 caches, memory 8, slabs of 2, window 1, wallets to 5, up to 2 slabs advised away | Do the books balance, does nothing wrap, is memory shared fairly and not left idle, does `shrink` ask for what is too much, does a pass end unless releases keep failing, do the pools fit then, and does it implement `SharedMemory`? |
| `supervisor` | 2 caches, every trace of 2 lines, gaps to 2, limit 2 | Is the clock never ahead, are lines on time, is the limit kept, do the reports add up, are only finished generators joined, is everything reported, does the program end? |
| `service` | 2 keys, 2 slots, every trace of 3 lines, gaps to 2, limit 2 | Is the program with the inside of its cache one as `Supervisor` has it, does `clean` take out what the trace left alone, do the parts agree, does it end? |
| `metrics_rows` | 3 threads, 2 metrics, 2 labels | Is there one header, first, do undisturbed pushes leave whole rows, do pushes end, and do they implement `MetricLog`? |
| `simulation` | 3 runs, 2 workers, 2 machines; a configured seed, the clock's or none | Does every machine run, in its iteration, does an undisturbed run draw what a configured seed says, do all runs end? |

Four more runs are meant to fail; each shows something the code does that its own
comments or scripts contradict:

| Run | What the counterexample shows |
|---|---|
| `cache_null_handle` | `get` copies through the handle `allocate` returned without a look at it (cachecache.cc:234); `put` looks, because "cache may fail to evict". |
| `cache_size_eviction` | `before - cachesize` (cachecache.cc:358) wraps when the generator allocates during `clean` more than `clean` removes, and is reported as the size of the eviction. |
| `percentile_linear` | The linear fallback divides by the sum of two positions instead of their difference (percentile.cc:134), so a height may rise while its marker goes down. |
| `metrics_race` | A row that is formatted while the metric is being registered lacks columns (metrics.cc:63, 70, 75). |

Smaller disagreements that were met and have no run: `ADD` is executed as a put that
replaces the entry, while its comment says "set only if key does not exists"
(generator.hh:21, generator.cc:156); `_ignored_lines` is never incremented, so its
log line always says 0 (generator.cc:108); `nb_keys_removed` counts keys that are
already gone (cachecache.cc:344); the percentile p2 is never the target of `clean`,
because the test of the 0.9 threshold overwrites it (cachecache.cc:298); the value
`std::string value('a', n)` has its arguments swapped (generator.cc:147).

### The bounds, and why they are enough

- *Slots and keys.* The races need an item that `clean` collected, one that takes
  its slot, and one that is untouched: three of each. Two suffice for what concerns
  one key and its replacement. A pool of as many slots as keys is full when every
  key is stored, so that each further allocation evicts.
- *Clock.* 6 in radix 2 is `110`: stamps grow from one to two to three characters,
  and torn reads of two and three characters give past and future times.
- *Nine values.* Five fill the markers, four more let every inner marker move, in
  both directions, by the parabola and by the fallback.
- *Market.* One slab and a half requested of a memory of four slabs: caches sell,
  buy in more than one round and save between passes, the targets are rounded both
  ways, and the memory runs out while both can pay. With two slabs to advise away, a
  release can succeed and the next one be aborted, fail or find no victim.
- *Traces.* With two generators, two lines allow a gap, a line after it that is behind,
  and a line after the limit, in either of them while the other is anywhere. In the
  composition three lines allow an entry to be stored, a tick and another line to make
  it old enough for `clean`, and a line that runs next to the removal.
- *Metrics.* One thread registers, one decides to register too, one finds the entry
  before the file is open.
- *Simulation.* Three runs on two workers: one seeds next to one that draws, and the
  third finds the engine where others left it. Starts and lengths let a machine end
  before the next one starts; undisturbed draws never use all of the engine's period.
  A seed from the clock puts the engine three draws further than the configured one.

`MaxTime`, `MaxCount`, `MaxLines`, `MaxTimestamp`, `MaxGap`, `MaxWallet`, `MaxAdvised` and
`MaxPushes` bound what the code lets grow; `TimeModulus`, `SizeModulus`, `IntModulus`, `IndexModulus`
and `Period` stand for larger powers of two. Where a run says `CHECK_DEADLOCK FALSE`, the system may stop:
a generator has read its trace, the program has ended, every thread has made its
pushes, the pool is joined. `cache_core` and `cache_torn` are checked up to permutations of keys and
slots; the runs with liveness are not.

### Fairness

- A thread inside an operation goes on with it: weak fairness of each thread's next
  step (`Work`, `Supervise`, `Generate(c)`, `MainThread`; `Main` and `Work(r)` of the
  simulation). The sleeps are finite, and the code waits for nothing that may never come, but
  for one thing: `shrink` tries to release a slab until that succeeds, is aborted or finds no
  victim, and any other exception sends it round again (cachecache.cc:164). Nothing
  is assumed about how often `releaseSlab` throws. `PassEnds` therefore says: either releases
  fail again and again, for ever, or each pass that begins ends.
- Strong fairness where a lock is contended: `GeneratorThread` in `Service`, since
  main holds the LRU lock once in a `clean` and then sleeps for seconds, and `Step(t)` in
  `Metrics`, since the holder of the mutex does a bounded piece of work and the next
  push is at least a trace line away.
- Nothing is assumed about whether the next line is a good one, a usage changes or an
  item is evicted. A trace is finite, which is `MaxLines`: without it a replay need not end.

## 4. The proofs

All hold for every value of the constants that the named assumptions admit.

| Module | Theorems | Argument |
|---|---|---|
| `CachecacheProofs` | `Invariance`, `TypeCorrectness`, `LruOrder`, `StampsFit`, `NoLeak`, `NoDivisionByZero`, `RecentItemsAreSpared`, `TooOldItemsAreFound`, `Refinement`, `CallsAndCleaningsGetShorter`, `NullHandleNeedsFailedEviction`, `SizeWrapsOnlyByAllocations` | `IInv` and `ListOK`, below |
| `PercentileProofs` | `MarkersStayApart`, `HeightsAreNumbers`, `HeightsStayInOrder`, `ExtremesStayExact`, `EstimationStaysBetween`, `UpwardMovesRaise`, `OnlyLinearDownwardsErrs` | `Inductive` and `Ordered`, below |
| `MarketProofs` | `WalletsAreBacked`, `MarketTypeCorrect`, `LedgerIsBalanced`, `PoolsFit`, `ShrinkAsksRight`, `MemoryIsSold`, `SharesAreFair`, `WantsAreKept`, `MarketImplementsSharedMemory`, `PassesGetShorter` | `Books`, `Holdings`, `Rounds` and `Wants`, below |
| `GeneratorProofs` | `GeneratorInvariance`, `GeneratorTypeCorrect`, `ClockFollowsTrace`, `NoLineIsLate`, `ReplayEnds`, `ReportsAddUp`, `ReplaysGetShorter` | `GInv`, below |
| `SupervisorProofs` | `SupervisorTypeCorrect`, `SupervisorRefinesGenerator`, `JoinsOnlyTheFinished`, `NothingIsLost`, `MainGetsToItsEnd` | flags are never reset, so those found set stay set; with the refinement, what is proved of `Generator` holds here |
| `ServiceProofs` | `ServiceRefinesCache`, `ServiceRefinesProgram`, `ServiceKeepsPromises`, `PartsAgree`, `CleaningFollowsTheTrace`, `ServiceGetsToItsEnd` | two refinements, and `JInv`, below |
| `MetricsProofs` | `MetricsInvariance`, `MetricsTypeCorrect`, `HeadersComeFirst`, `UndisturbedPushesWriteTheirRow`, `MetricsImplementLog`, `PushesGetShorter` | `MInv`, below |
| `SimulationProofs` | `SimulationInvariance`, `SimulationTypeCorrect`, `MachinesRun`, `SeedDecides`, `NoMachineIsPassed`, `RunsGetToTheirEnd` | `SimInv`, below |

**`IInv`** is what the two threads of a cache rely on. None of the properties is
inductive alone. The order of the LRU list holds except for the item `get` has moved
and not stamped yet, so `LruOK` says that this item is the head. That `clean` spares
recent items rests on what is known of each key view that is left (`ScanOK`): the
entry it leads to was too old at the scan, or has been stored or stamped since the
scan began, or is being written now. A slot may be reused in between, so this is
stated about the key the view shows now and not about the one that was collected.
The stamps fit in place because no live item is from the future and each is exactly
as long as its own stamp (`StampsOK`); nothing leaks because a slot is linked or in
`get`'s hands (`IndexOK`, `HandlesOK`). `Refinement` maps each step to a step of
`AgedCache` or a stutter, with the same invariant and `UsedOK`: the entry of the key that
`get` works for is the item it holds until `get` has stamped it, and has the current time
afterwards, since nobody else can insert in between.

**`ListOK`** says that the LRU list orders its items: of any of them, one is nearest to the
tail. It is stated about all sets of linked items at once, so that neither transitivity nor
finiteness is needed to keep it. With `LruOK` it makes `clean` right to stop at the first recent
item: what it has not collected has a last item, and none of the others is older, but
for the one `get` has moved and not stamped.

**`Market`** has four invariants, each kept with the help of the ones before it. `Books`: during a
pass, a wallet minus what it earned plus what it spent is what was lent before, so that
no wallet and no amount wraps. `Holdings`: what is allocated and what is on the market make up
the memory; a pool has at least a slab and, once it is resized, no more than its allocation;
`shrink` computes the right number of slabs even when its difference wraps, since a slab divides
the modulus. `Rounds`: a cache that can
still pay for what it wants is only out of the rounds when the market is empty, and as long as
it is not, nobody has got more beyond its request than such a cache, but for the one window of
a turn that the other had and it has not (`Lead`). `Wants`: what a cache wants or went without
is no more than the memory, and it has its whole request then. `MarketImplementsSharedMemory` needs
them all at one point: `BoughtAll`, the end of the rounds, is the step of `SharedMemory` in which
everything is agreed, and the credit it speaks of is the wallet as the books have it. The sums over all caches are folds, whose definition the provers cannot
unfold by induction; `MarketProofs` proves what it needs of them (`TotalChanges`, `TotalAscends`)
from a minimal set for which it fails (`SetInduction`).

**`Percentile`** has two. `Inductive`: a marker only moves where there is room, and positions are
only counted up above it, so that markers stay apart. `Ordered`: the heights are the values
themselves before the fifth, and ascend between the extremes after it. The work is in
`HeightStaysBetween`. A height on the parabola is only taken when it is between its neighbours.
Otherwise `linear` is called, and its sum of two positions instead of their difference moves a height
up that should come down (`percentile_linear`); but the parabola only falls
below the lower neighbour when the upper one is farther away than the lower one (`Steep`), so
there is room for the error and the order is kept. Upwards the wrong sum only shortens a move:
`OnlyLinearDownwardsErrs` and `UpwardMovesRaise` show that what `percentile_linear` finds is
confined to markers that linear moves down. The heights are exact fractions in lowest
terms: `Is(f, p, w)` says which number a fraction is, and the lemmas before it compute with that.
`Gcd` is a recursive function; `GcdUnfolds` shows that there is one by giving it, the greatest
common divisor by divisibility, and `GcdDivides` takes the smallest number it could fail for.

**`GInv`** relates the second of the generator, the clock and the trace at each point
between them: they agree outside the two steps of a new second, and then they differ
by one. `ClockNotAhead` alone is not kept by a step that does not know where it is.
`LinesOnTime` needs what holds between two lines too: the clock is then behind the last
timestamp by no more than the seconds skipped.

**`Service`** is proved in three parts. Each of its steps is a step of `Cachecache` or none,
so `IInv` and the theorems about the cache hold in it (`ServiceRefinesCache`). With
`ServiceTypeOK` each step is one of `Supervisor` or none (`ServiceRefinesProgram`), so
that the theorems about clock, limit, reports and joins hold too (`ServiceKeepsPromises`).
Then both sides are known, and **`JInv`** connects them: `Timely`, that a line reads a clock
that is late by the skipped seconds at most; `Dated`, that the stamp of an entry is no
older than the last use of its key in the trace, but for those seconds; and
`Collecting`, that an entry that is still to be removed is too old, or its key has been
in use since the lock was taken. `CleanSparesRecentItems` says
the same of stamps and clock only.

**`MInv`** says who is inside the mutex and what a registration has achieved at each of
its points. A metric in the map either is complete or is being registered by the owner
of the mutex; a write has the mutex, so it finds the file open. A thread nobody
disturbed sees nobody inside, so the metric it found is complete. `MetricsImplementLog` reads
off it which step of a push is a step of `MetricLog`; a push that leaves no row has seen
an empty list of labels, whose registration is still going on.

**`SimInv`** says what a run has drawn so far, and that each machine is still to come or has
been spawned when it should. For a run that has not been disturbed, the engine is where it
left it. `NothingPassed` adds that the loop is never ahead of a machine that is still to come:
it goes by one, and is not over before; so the 32 bits of `index` do not wrap before all
machines have been spawned.

Assumptions: the constants' ranges (named `...Assumption` in each module, evaluated by
TLC on every run); in `Market`, that the caches' requests fit in the memory and are a
slab at least, that sizes do not reach the modulus, and that a slab divides it.

### What is proved towards liveness

That something ends is out of the prover's reach, but not why it ends. For each loop and
each thread there is a measure, a number of steps that are left at most, and a theorem which
says that it is a natural number in every state, that a step of the thread lowers it (with
one exception in the market, below), and that no step of another thread raises it: `PassesGetShorter` (`PassEnds`),
`PushesGetShorter` (`PushesEnd`), `ReplaysGetShorter` and `MainGetsToItsEnd`
(`ProgramEnds`), `CallsAndCleaningsGetShorter` and `ServiceGetsToItsEnd` (`ServiceEnds`),
`RunsGetToTheirEnd` (`SimulationsEnd`; an order instead of a number). They hold for any
number of caches, keys and threads, where TLC has two or three. What is left to TLC is that
a thread which can go on does go on, and that the locks are handed on (section on fairness).
Some measures say what is not obvious in the code:

- *Market*: a round either sells a unit of memory or loses a buyer, and usages that change between two
  steps of a pass do not lengthen it. The one step that does not lower the measure is
  `FailRelease`: it takes back the step that picked the victim and nothing more, so that a pass
  can only be held up by failures that are repeated.
- *Cachecache*: what is allocated during the scan of `clean` does not lengthen the scan, since the list is
  locked, and a key that is collected is removed once, whoever reuses its slot.
- *Supervisor*: the measure exists from the moment all flags are set. Before that `main` waits
  for the generators, whose own measure is `ReplaysGetShorter`.
- *Simulation*: an iteration that spawns nothing is one nearer to the next start, also when another
  run has changed what was drawn; only then does the work that is left count.
- *Service*: a step of `get`, `put` or `clean` does not change where the trace or the
  loop of main is, so the measures are pairs: the lines (or turns) that are left, and the
  steps of the call that is under way.

### What is proved about the disagreements

Three of the runs that fail have a theorem that says how far the disagreement goes.
`NullHandleNeedsFailedEviction`: `get` writes through a null handle only if an eviction can
fail, which is the case the comment in `put` is about; a full cache is not enough.
`SizeWrapsOnlyByAllocations`: the size of an eviction wraps only when the generator allocates while
`clean` runs. `OnlyLinearDownwardsErrs`: the parabola, and linear upwards, move a height where its
position goes. (The fourth, `metrics_race`, has `UndisturbedPushesWriteTheirRow`.)

### What is only model-checked

The liveness properties `PassEnds`, `PushesEnd`, `ProgramEnds`, `ServiceEnds` and
`SimulationsEnd`, which depend on fairness. Every safety property, action property and refinement of
a passing run is proved.

## 5. What is not modelled

- *Timers and sleeps*: they change no state; where a thread sleeps, others may run.
- *Several allocation classes*: the scan is repeated for each; the model has one.
- *Exceptions of CacheLib in `get`*: those of `findToWrite` end as a miss. Those of `allocate`
  and `insertOrReplace` (cachecache.cc:236-238) would leave an item that has been moved to the
  head of the list and not stamped, and `get` returning true. `allocate` throws for a key or a
  size that it cannot take; here the key is that of an item, and the text is one digit longer
  than the item. The model has the null handle as the only failure of an allocation.
- *A torn key*: one whose bytes change because its slot is reused while `clean` looks at it.
- *Data races* beyond the outcomes named above: doubles and booleans are read whole. In
  `Metrics`, `operator[]` at metrics.cc:70 and :75 puts in an empty entry when it misses the
  one that is there, which only a map in the middle of another insertion makes it do; what
  such a second insertion leaves of the map is not followed.
- *What CacheLib does for `resize` and `shrink`*: how many slabs it advises, which victim it
  picks and what a release frees are choices. A cache has one pool, so the break at
  cachecache.cc:153 and the return at :163 both end `shrink`. `shrinkPool` is asked for no
  more than the pool has, so its refusal (cachecache.cc:114) does not occur; that of
  `growPool` does.
- *The percentiles next to `clean`*: `clean` may get any estimate, in `Service` too; the
  estimator itself is a module of its own.
- *Doubles*: `Percentile` is exact; `Market` has its triggers in percent, as integers.
- *The configuration* (`main`, `Supervisor::configure`, constructors): options and TOML
  are the constants and initial states; it is over before a thread runs. Every cache has
  one generator; a cache without one is only ever cleaned. `Service` has one cache, since
  caches share nothing but the metrics and the market.
- *What `push_metrics` reports beyond the counters*: the percentiles and sizes it reads
  are written to files and used by nothing.
- *`Generator::dispose`, `setTargetedPercentile`, `unregister_cache`, moves of objects*:
  nothing calls them once the threads run.
- *The usage models of the simulated machines* (`configureTraceCreators`), their
  application, and what `vcpu_sim` does with them: code that is not in the repository
  draws the usage; a model of unknown name ends the process before any iteration.
- *Analysis scripts and build files*: no behaviour of the program.

## 6. Plan

The cache with its two threads came first, since everything else exists for it; then the
estimator it obeys; the generators and their supervisor, which decide when it runs; the
market; the metrics; then the composition of cache, generator and supervisor, and the
simulation. What could follow:

1. `Percentile` inside `Service`: calibration in one second, cleaning in the next, at the
   few values a small trace can give.
2. Proofs: that the stamp of an entry never goes back, from `AgedCache`; the measure of
   `RunsGetToTheirEnd` as one number, which needs the largest length that was drawn.
