-------------------------- MODULE GeneratorProofs --------------------------
(***************************************************************************)
(* What a generator does to the clock, the counters and the end of its     *)
(* replay, for traces of any length, with any gaps, and any time limit.    *)
(***************************************************************************)
EXTENDS Generator, TLAPS

---------------------------------------------------------------------------
(* The inductive invariant *)

Typed ==
    /\ at \in [Caches -> Places]
    /\ line \in [Caches -> Line]
    /\ lines \in [Caches -> 0..MaxLines]
    /\ time \in [Caches -> Nat]
    /\ clock \in [Caches -> Nat]
    /\ stop \in [Caches -> BOOLEAN]
    /\ finished \in [Caches -> BOOLEAN]
    /\ counters \in [Caches -> Count]
    /\ content \in [Caches -> SUBSET Keys]
    /\ exited \in BOOLEAN
    /\ latest \in [Caches -> 0..MaxTimestamp]
    /\ skipped \in [Caches -> Nat]
    /\ served \in [Caches -> Count]
    /\ reported \in [Caches -> Count]
    /\ late \in [Caches -> Nat]

\* _time and the clock go together, except between their two increments, and
\* stay behind the trace.
Paced(c) ==
    /\ time[c] <= latest[c]
    /\ at[c] \in {"process", "push", "execute", "refresh"} => line[c].timestamp = latest[c]
    /\ IF at[c] = "push"
       THEN clock[c] = time[c] + 1 /\ time[c] < latest[c]
       ELSE clock[c] = time[c]

\* Until _stop is set, _time has not reached the limit; afterwards at most the
\* line that reached it is executed.
Limited(c) ==
    /\ late[c] <= 1
    /\ at[c] \in {"process", "push", "execute"} => late[c] = 0
    /\ at[c] \in {"process", "push"} => ~stop[c]
    /\ late[c] = 1 => stop[c]
    /\ NbSeconds > 0 /\ ~stop[c] => time[c] < NbSeconds
    /\ at[c] = "execute" /\ LimitReached(c) => stop[c]

Accounted(c) ==
    /\ Plus(reported[c], counters[c]) = served[c]
    /\ at[c] \in {"closed", "end"} => counters[c] = Zero
    /\ finished[c] => at[c] = "end"

Sound(c) == Paced(c) /\ Limited(c) /\ Accounted(c)

GInv == Typed /\ \A c \in Caches : Sound(c)

---------------------------------------------------------------------------
(* Facts about counters, and about the generators that do not move *)

LEMMA PlusIsCount ==
    ASSUME NEW a \in Count, NEW b \in Count
    PROVE  /\ Plus(a, b) \in Count
           /\ Plus(a, Zero) = a
           /\ \A d \in Count : Plus(Plus(a, b), d) = Plus(a, Plus(b, d))
  BY DEF Plus, Count, Zero

\* Moving what is counted to what is reported changes no total.
LEMMA ReportKeepsTotal ==
    ASSUME Typed, NEW c \in Caches
    PROVE  /\ Zero \in Count
           /\ Plus(reported[c], counters[c]) \in Count
           /\ Plus(Plus(reported[c], counters[c]), Zero) = Plus(reported[c], counters[c])
  BY DEF Typed, Plus, Count, Zero

LEMMA OthersStaySound ==
    ASSUME NEW d \in Caches, Sound(d),
           at'[d] = at[d], line'[d] = line[d], time'[d] = time[d], clock'[d] = clock[d],
           stop'[d] = stop[d], finished'[d] = finished[d], counters'[d] = counters[d],
           latest'[d] = latest[d], served'[d] = served[d], reported'[d] = reported[d],
           late'[d] = late[d]
    PROVE  Sound(d)'
  BY DEF Sound, Paced, Limited, Accounted, LimitReached

LEMMA InitSound == Init => GInv
<1> SUFFICES ASSUME Init PROVE GInv
  OBVIOUS
<1>1. (CHOOSE l \in Line : l.timestamp = 0) \in Line
  <2>1. PICK k \in Keys, o \in Operations : TRUE
    BY TraceAssumption
  <2>2. [op |-> o, key |-> k, timestamp |-> 0] \in Line
    BY <2>1, TraceAssumption DEF Line
  <2>3. \E l \in Line : l.timestamp = 0
    BY <2>2
  <2> QED BY <2>3
<1>2. PICK l \in Line : line = [c \in Caches |-> l]
  BY <1>1 DEF Init
<1>3. /\ at = [c \in Caches |-> "open"]
      /\ lines = [c \in Caches |-> 0]
      /\ time = [c \in Caches |-> 0]
      /\ clock = [c \in Caches |-> 0]
      /\ stop = [c \in Caches |-> FALSE]
      /\ finished = [c \in Caches |-> FALSE]
      /\ counters = [c \in Caches |-> Zero]
      /\ content = [c \in Caches |-> {}]
      /\ exited = FALSE
      /\ latest = [c \in Caches |-> 0]
      /\ skipped = [c \in Caches |-> 0]
      /\ served = [c \in Caches |-> Zero]
      /\ reported = [c \in Caches |-> Zero]
      /\ late = [c \in Caches |-> 0]
  BY DEF Init
<1>4. Zero \in Count /\ Plus(Zero, Zero) = Zero
  BY DEF Zero, Count, Plus
<1>5. Typed
  <2>1. /\ counters \in [Caches -> Count]
        /\ served \in [Caches -> Count]
        /\ reported \in [Caches -> Count]
    BY <1>3, <1>4
  <2>2. /\ at \in [Caches -> Places]
        /\ lines \in [Caches -> 0..MaxLines]
        /\ content \in [Caches -> SUBSET Keys]
        /\ latest \in [Caches -> 0..MaxTimestamp]
    BY <1>3, TraceAssumption DEF Places
  <2>3. /\ time \in [Caches -> Nat]
        /\ clock \in [Caches -> Nat]
        /\ late \in [Caches -> Nat]
        /\ skipped \in [Caches -> Nat]
    BY <1>3
  <2>4. /\ line \in [Caches -> Line]
        /\ stop \in [Caches -> BOOLEAN]
        /\ finished \in [Caches -> BOOLEAN]
        /\ exited \in BOOLEAN
    BY <1>2, <1>3
  <2> QED BY <2>1, <2>2, <2>3, <2>4 DEF Typed
<1>6. ASSUME NEW c \in Caches PROVE Sound(c)
  <2>1. /\ at[c] = "open" /\ time[c] = 0 /\ clock[c] = 0 /\ latest[c] = 0 /\ late[c] = 0
        /\ ~stop[c] /\ ~finished[c]
    BY <1>3
  <2>2. counters[c] = Zero /\ served[c] = Zero /\ reported[c] = Zero
    BY <1>3
  <2>3. Paced(c) /\ Limited(c)
    BY <2>1 DEF Paced, Limited
  <2>4. Accounted(c)
    BY <1>4, <2>1, <2>2 DEF Accounted
  <2> QED BY <2>3, <2>4 DEF Sound
<1> QED BY <1>5, <1>6 DEF GInv

---------------------------------------------------------------------------
(* The steps of run *)

LEMMA OpenSound ==
    ASSUME GInv, NEW c \in Caches, Open(c)
    PROVE  GInv'
<1>1. Typed'
  BY DEF Open, GInv, Typed, Places
<1>2. ASSUME NEW d \in Caches PROVE Sound(d)'
  <2>1. CASE d = c
    BY <2>1 DEF Open, GInv, Typed, Sound, Paced, Limited, Accounted, LimitReached
  <2>2. CASE d # c
    BY <2>2, OthersStaySound DEF Open, GInv, Typed
  <2> QED BY <2>1, <2>2
<1> QED BY <1>1, <1>2 DEF GInv

LEMMA OpenFailsSound ==
    ASSUME GInv, NEW c \in Caches, OpenFails(c)
    PROVE  GInv'
<1>1. Typed'
  BY DEF OpenFails, GInv, Typed
<1>2. ASSUME NEW d \in Caches PROVE Sound(d)'
  BY <1>2, OthersStaySound DEF OpenFails, GInv
<1> QED BY <1>1, <1>2 DEF GInv

LEMMA ReadLineSound ==
    ASSUME GInv, NEW c \in Caches, ReadLine(c)
    PROVE  GInv'
<1>1. PICK l \in Line :
          /\ l.timestamp \in latest[c]..(latest[c] + MaxGap)
          /\ line' = [line EXCEPT ![c] = l]
          /\ latest' = [latest EXCEPT ![c] = l.timestamp]
          /\ skipped' = [skipped EXCEPT ![c] = @ + Gap(latest[c], l.timestamp)]
  BY DEF ReadLine
<1>2. l.timestamp \in 0..MaxTimestamp /\ Gap(latest[c], l.timestamp) \in Nat
  BY TraceAssumption DEF Line, Gap, GInv, Typed
<1>3. /\ at[c] = "read" /\ ~stop[c]
      /\ lines[c] < MaxLines
      /\ lines' = [lines EXCEPT ![c] = @ + 1]
      /\ at' = [at EXCEPT ![c] = "process"]
      /\ UNCHANGED <<time, clock, stop, finished, counters, content, exited,
                     served, reported, late>>
  BY DEF ReadLine
<1>4. Typed'
  BY <1>1, <1>2, <1>3, TraceAssumption DEF GInv, Typed, Places
<1>5. ASSUME NEW d \in Caches PROVE Sound(d)'
  <2>1. CASE d = c
    <3>1. /\ at'[c] = "process" /\ line'[c] = l /\ latest'[c] = l.timestamp
          /\ latest[c] \in Nat /\ late[c] \in Nat
      BY <1>1, <1>3 DEF GInv, Typed
    <3>2. Paced(c)'
      BY <1>1, <1>2, <1>3, <3>1, TraceAssumption DEF GInv, Typed, Sound, Paced
    <3>3. Limited(c)'
      BY <1>3, <3>1 DEF GInv, Sound, Limited
    <3>4. Accounted(c)'
      BY <1>3, <3>1 DEF GInv, Sound, Accounted
    <3> QED BY <2>1, <3>2, <3>3, <3>4 DEF Sound
  <2>2. CASE d # c
    BY <1>1, <1>3, <2>2, OthersStaySound DEF GInv, Typed
  <2> QED BY <2>1, <2>2
<1> QED BY <1>4, <1>5 DEF GInv

LEMMA ReadBadLineSound ==
    ASSUME GInv, NEW c \in Caches, ReadBadLine(c)
    PROVE  GInv'
<1>1. Typed'
  BY TraceAssumption DEF ReadBadLine, GInv, Typed
<1>2. ASSUME NEW d \in Caches PROVE Sound(d)'
  BY <1>2, OthersStaySound DEF ReadBadLine, GInv
<1> QED BY <1>1, <1>2 DEF GInv

LEMMA CloseSound ==
    ASSUME GInv, NEW c \in Caches, Close(c)
    PROVE  GInv'
<1>1. Zero \in Count /\ Plus(reported[c], counters[c]) \in Count
  BY ReportKeepsTotal DEF GInv
<1>2. Typed'
  BY <1>1 DEF Close, GInv, Typed, Places
<1>3. ASSUME NEW d \in Caches PROVE Sound(d)'
  <2>1. CASE d = c
    <3>1. Paced(c)' /\ Limited(c)'
      BY DEF Close, GInv, Typed, Sound, Paced, Limited, LimitReached
    <3>2. Accounted(c)'
      BY ReportKeepsTotal DEF Close, GInv, Typed, Sound, Accounted
    <3> QED BY <2>1, <3>1, <3>2 DEF Sound
  <2>2. CASE d # c
    BY <2>2, OthersStaySound DEF Close, GInv, Typed
  <2> QED BY <2>1, <2>2
<1> QED BY <1>2, <1>3 DEF GInv

LEMMA FinishSound ==
    ASSUME GInv, NEW c \in Caches, Finish(c)
    PROVE  GInv'
<1>1. Typed'
  BY DEF Finish, GInv, Typed, Places
<1>2. ASSUME NEW d \in Caches PROVE Sound(d)'
  <2>1. CASE d = c
    BY <2>1 DEF Finish, GInv, Typed, Sound, Paced, Limited, Accounted, LimitReached
  <2>2. CASE d # c
    BY <2>2, OthersStaySound DEF Finish, GInv, Typed
  <2> QED BY <2>1, <2>2
<1> QED BY <1>1, <1>2 DEF GInv

---------------------------------------------------------------------------
(* The steps of process *)

LEMMA SameSecondSound ==
    ASSUME GInv, NEW c \in Caches, SameSecond(c)
    PROVE  GInv'
<1>1. Typed'
  BY DEF SameSecond, GInv, Typed, Places
<1>2. ASSUME NEW d \in Caches PROVE Sound(d)'
  <2>1. CASE d = c
    <3>1. Paced(c)' /\ Accounted(c)'
      BY DEF SameSecond, GInv, Typed, Sound, Paced, Accounted
    <3>2. ~LimitReached(c)
      \* _time is that of the line, and has not reached the limit.
      BY TraceAssumption DEF SameSecond, NewSecond, GInv, Typed, Sound, Limited, LimitReached
    <3>3. Limited(c)'
      BY <3>2 DEF SameSecond, GInv, Typed, Sound, Limited, LimitReached
    <3> QED BY <2>1, <3>1, <3>3 DEF Sound
  <2>2. CASE d # c
    BY <2>2, OthersStaySound DEF SameSecond, GInv, Typed
  <2> QED BY <2>1, <2>2
<1> QED BY <1>1, <1>2 DEF GInv

LEMMA UpdateClockSound ==
    ASSUME GInv, NEW c \in Caches, UpdateClock(c)
    PROVE  GInv'
<1>1. Typed'
  BY DEF UpdateClock, GInv, Typed, Places
<1>2. ASSUME NEW d \in Caches PROVE Sound(d)'
  <2>1. CASE d = c
    <3>1. Paced(c)'
      <4>1. /\ time[c] <= latest[c] /\ line[c].timestamp = latest[c] /\ clock[c] = time[c]
            /\ time[c] # latest[c] /\ time[c] \in Nat /\ latest[c] \in Nat
        BY TraceAssumption DEF UpdateClock, NewSecond, GInv, Typed, Sound, Paced
      <4>2. /\ at'[c] = "push" /\ clock'[c] = clock[c] + 1
            /\ time' = time /\ latest' = latest /\ line' = line
        BY DEF UpdateClock, GInv, Typed
      <4> QED BY <4>1, <4>2 DEF Paced
    <3>2. Limited(c)' /\ Accounted(c)'
      BY DEF UpdateClock, GInv, Typed, Sound, Limited, LimitReached, Accounted
    <3> QED BY <2>1, <3>1, <3>2 DEF Sound
  <2>2. CASE d # c
    BY <2>2, OthersStaySound DEF UpdateClock, GInv, Typed
  <2> QED BY <2>1, <2>2
<1> QED BY <1>1, <1>2 DEF GInv

LEMMA PushMetricsSound ==
    ASSUME GInv, NEW c \in Caches, PushMetrics(c)
    PROVE  GInv'
<1>1. Zero \in Count /\ Plus(reported[c], counters[c]) \in Count
  BY ReportKeepsTotal DEF GInv
<1>2. LimitReached(c) \in BOOLEAN
  BY DEF LimitReached
<1>3. Typed'
  <2>1. stop' \in [Caches -> BOOLEAN]
    BY <1>2 DEF PushMetrics, GInv, Typed
  <2> QED BY <1>1, <2>1 DEF PushMetrics, GInv, Typed, Places
<1>4. ASSUME NEW d \in Caches PROVE Sound(d)'
  <2>1. CASE d = c
    <3>1. Paced(c)'
      BY DEF PushMetrics, GInv, Typed, Sound, Paced
    <3>2. /\ at[c] = "push" /\ at'[c] = "execute"
          /\ time'[c] = time[c] + 1
          /\ stop'[c] = LimitReached(c)
          /\ late'[c] = late[c] /\ late[c] = 0
          /\ LimitReached(c)' = LimitReached(c)
          /\ time[c] < line[c].timestamp
          /\ time[c] \in Nat /\ line[c].timestamp \in Nat
      BY <1>2 DEF PushMetrics, GInv, Typed, Line, Sound, Paced, Limited, LimitReached
    <3>3. Limited(c)'
      <4>1. CASE LimitReached(c)
        <5>1. stop'[c] = TRUE
          BY <3>2, <4>1
        <5> QED BY <3>2, <5>1 DEF Limited
      <4>2. CASE ~LimitReached(c)
        <5>1. ~LimitReached(c)'
          BY <3>2, <4>2
        <5>2. NbSeconds > 0 => time'[c] < NbSeconds
          BY <3>2, <4>2, TraceAssumption DEF LimitReached
        <5> QED BY <3>2, <5>1, <5>2 DEF Limited
      <4> QED BY <4>1, <4>2
    <3>4. Accounted(c)'
      BY ReportKeepsTotal DEF PushMetrics, GInv, Typed, Sound, Accounted
    <3> QED BY <2>1, <3>1, <3>3, <3>4 DEF Sound
  <2>2. CASE d # c
    BY <2>2, OthersStaySound DEF PushMetrics, GInv, Typed
  <2> QED BY <2>1, <2>2
<1> QED BY <1>3, <1>4 DEF GInv

\* The pace and the limit do not depend on what a line does.
LEMMA ExecutingSound ==
    ASSUME GInv, NEW c \in Caches, NEW next \in {"read", "refresh"}, Executing(c, next)
    PROVE  /\ at' = [at EXCEPT ![c] = next]
           /\ late' \in [Caches -> Nat]
           /\ \A d \in Caches \ {c} : late'[d] = late[d]
           /\ Paced(c)' /\ Limited(c)'
<1>1. late[c] = 0 /\ late \in [Caches -> Nat]
  BY DEF Executing, GInv, Typed, Sound, Limited
<1>2. /\ late' \in [Caches -> Nat]
      /\ \A d \in Caches \ {c} : late'[d] = late[d]
      /\ late'[c] = IF LimitReached(c) THEN 1 ELSE 0
  BY <1>1 DEF Executing, LimitReached
<1>3. Paced(c)'
  BY DEF Executing, GInv, Typed, Sound, Paced
<1>4. Limited(c)'
  BY <1>1, <1>2 DEF Executing, GInv, Typed, Sound, Limited
<1> QED BY <1>2, <1>3, <1>4 DEF Executing

LEMMA GetSound ==
    ASSUME GInv, NEW c \in Caches, Get(c)
    PROVE  GInv'
<1> DEFINE found == line[c].key \in content[c]
           hit == [reqs |-> 1, hits |-> IF found THEN 1 ELSE 0]
           next == IF found THEN "refresh" ELSE "read"
<1>1. hit \in Count /\ next \in {"read", "refresh"}
  BY DEF Count
<1>2. /\ Executing(c, next)
      /\ counters' = [counters EXCEPT ![c] = Plus(@, hit)]
      /\ served' = [served EXCEPT ![c] = Plus(@, hit)]
      /\ content' = content
  BY DEF Get
<1> HIDE DEF hit, next
<1>3. /\ at' = [at EXCEPT ![c] = next]
      /\ late' \in [Caches -> Nat]
      /\ \A d \in Caches \ {c} : late'[d] = late[d]
      /\ Paced(c)' /\ Limited(c)'
      /\ at[c] = "execute"
      /\ UNCHANGED <<line, lines, time, clock, stop, finished, exited, latest, skipped,
                   reported>>
  BY <1>1, <1>2, ExecutingSound DEF Executing
<1>4. Plus(counters[c], hit) \in Count /\ Plus(served[c], hit) \in Count
  BY <1>1, PlusIsCount DEF GInv, Typed
<1>5. Typed'
  BY <1>1, <1>2, <1>3, <1>4 DEF GInv, Typed, Places
<1>6. ASSUME NEW d \in Caches PROVE Sound(d)'
  <2>1. CASE d = c
    <3>1. Plus(reported[c], Plus(counters[c], hit)) = Plus(served[c], hit)
      BY <1>1, PlusIsCount DEF GInv, Typed, Sound, Accounted
    <3>2. Accounted(c)'
      BY <1>1, <1>2, <1>3, <3>1 DEF GInv, Typed, Sound, Accounted
    <3> QED BY <1>3, <2>1, <3>2 DEF Sound
  <2>2. CASE d # c
    BY <1>2, <1>3, <2>2, OthersStaySound DEF GInv, Typed
  <2> QED BY <2>1, <2>2
<1> QED BY <1>5, <1>6 DEF GInv

LEMMA StoredTyped ==
    ASSUME GInv, NEW c \in Caches, Stored(c)
    PROVE  content' \in [Caches -> SUBSET Keys]
<1>1. line[c].key \in Keys /\ content[c] \in SUBSET Keys
  BY DEF GInv, Typed, Line
<1>2. content[c] \cup {line[c].key} \in SUBSET Keys
  BY <1>1
<1> QED BY <1>2 DEF Stored, GInv, Typed

LEMMA RefreshSound ==
    ASSUME GInv, NEW c \in Caches, Refresh(c)
    PROVE  GInv'
<1>1. content' \in [Caches -> SUBSET Keys]
  BY StoredTyped DEF Refresh
<1>2. Typed'
  BY <1>1 DEF Refresh, GInv, Typed, Places
<1>3. ASSUME NEW d \in Caches PROVE Sound(d)'
  <2>1. CASE d = c
    BY <2>1 DEF Refresh, GInv, Typed, Sound, Paced, Limited, Accounted, LimitReached
  <2>2. CASE d # c
    BY <2>2, OthersStaySound DEF Refresh, GInv, Typed
  <2> QED BY <2>1, <2>2
<1> QED BY <1>2, <1>3 DEF GInv

LEMMA PutSound ==
    ASSUME GInv, NEW c \in Caches, Put(c)
    PROVE  GInv'
<1>1. Executing(c, "read") /\ Stored(c) /\ UNCHANGED <<counters, served>>
  BY DEF Put
<1>2. /\ at' = [at EXCEPT ![c] = "read"]
      /\ late' \in [Caches -> Nat]
      /\ \A d \in Caches \ {c} : late'[d] = late[d]
      /\ Paced(c)' /\ Limited(c)'
      /\ at[c] = "execute"
      /\ UNCHANGED <<line, lines, time, clock, stop, finished, exited, latest, skipped,
                   reported>>
  BY <1>1, ExecutingSound DEF Executing
<1>3. Typed'
  BY <1>1, <1>2, StoredTyped DEF GInv, Typed, Places
<1>4. ASSUME NEW d \in Caches PROVE Sound(d)'
  <2>1. CASE d = c
    <3>1. Accounted(c)'
      BY <1>1, <1>2 DEF GInv, Typed, Sound, Accounted
    <3> QED BY <1>2, <2>1, <3>1 DEF Sound
  <2>2. CASE d # c
    BY <1>1, <1>2, <2>2, OthersStaySound DEF GInv, Typed
  <2> QED BY <2>1, <2>2
<1> QED BY <1>3, <1>4 DEF GInv

LEMMA LoseSound ==
    ASSUME GInv, NEW c \in Caches, Lose(c)
    PROVE  GInv'
<1>1. Typed'
  BY TraceAssumption DEF Lose, GInv, Typed
<1>2. ASSUME NEW d \in Caches PROVE Sound(d)'
  BY <1>2, OthersStaySound DEF Lose, GInv
<1> QED BY <1>1, <1>2 DEF GInv

LEMMA RunSound ==
    ASSUME GInv, NEW c \in Caches, Run(c)
    PROVE  GInv'
  BY OpenSound, OpenFailsSound, ReadLineSound, ReadBadLineSound, CloseSound, FinishSound,
     SameSecondSound, UpdateClockSound, PushMetricsSound, GetSound, RefreshSound, PutSound
  DEF Run

LEMMA StutterSound ==
    ASSUME GInv, UNCHANGED gvars
    PROVE  GInv'
<1>1. Typed'
  BY DEF gvars, GInv, Typed
<1>2. ASSUME NEW d \in Caches PROVE Sound(d)'
  BY <1>2, OthersStaySound DEF gvars, GInv
<1> QED BY <1>1, <1>2 DEF GInv

---------------------------------------------------------------------------
(* The invariant holds *)

THEOREM GeneratorInvariance == Spec => []GInv
<1>1. GInv /\ [Next]_gvars => GInv'
  BY RunSound, LoseSound, StutterSound DEF Next
<1> QED BY InitSound, <1>1, PTL DEF Spec

---------------------------------------------------------------------------
(* The clock and the trace *)

\* _time is behind the trace by no more than the seconds that had no line, and
\* by one more from the reading of a line to the end of the update it causes.
OnTime(c) ==
    latest[c] <= time[c] + skipped[c] + (IF at[c] \in {"process", "push"} THEN 1 ELSE 0)

LEMMA RunKeepsTime ==
    ASSUME GInv, NEW c \in Caches, Run(c), OnTime(c)
    PROVE  OnTime(c)'
<1>1. /\ time[c] \in Nat /\ latest[c] \in Nat /\ skipped[c] \in Nat /\ time[c] <= latest[c]
      /\ at \in [Caches -> Places]
      /\ at[c] \in {"process", "push"} => line[c].timestamp = latest[c]
      /\ at[c] = "push" => time[c] < latest[c]
  BY TraceAssumption DEF GInv, Typed, Sound, Paced
<1>2. CASE ReadLine(c)
  <2>1. PICK l \in Line :
            /\ l.timestamp \in latest[c]..(latest[c] + MaxGap)
            /\ latest' = [latest EXCEPT ![c] = l.timestamp]
            /\ skipped' = [skipped EXCEPT ![c] = @ + Gap(latest[c], l.timestamp)]
    BY <1>2 DEF ReadLine
  <2>2. /\ at[c] = "read" /\ at'[c] = "process" /\ time' = time
        /\ latest'[c] = l.timestamp
        /\ skipped'[c] = skipped[c] + Gap(latest[c], l.timestamp)
    BY <1>2, <2>1 DEF ReadLine, GInv, Typed
  <2>3. l.timestamp \in Nat /\ l.timestamp <= latest[c] + Gap(latest[c], l.timestamp) + 1
    BY <1>1, <2>1, TraceAssumption DEF Gap, Line
  <2>4. Gap(latest[c], l.timestamp) \in Nat
    BY <1>1, <2>3 DEF Gap
  <2> QED BY <1>1, <2>2, <2>3, <2>4 DEF OnTime
<1>3. CASE PushMetrics(c)
  <2>1. /\ at[c] = "push" /\ at'[c] = "execute" /\ time'[c] = time[c] + 1
        /\ latest' = latest /\ skipped' = skipped
    BY <1>3 DEF PushMetrics, GInv, Typed
  <2> QED BY <1>1, <2>1 DEF OnTime
<1>4. CASE SameSecond(c)
  <2>1. /\ at'[c] = "execute" /\ time' = time /\ latest' = latest /\ skipped' = skipped
        /\ latest[c] = time[c]
    BY <1>1, <1>4 DEF SameSecond, NewSecond
  <2> QED BY <1>1, <2>1 DEF OnTime
<1>5. CASE ~(ReadLine(c) \/ PushMetrics(c) \/ SameSecond(c))
  <2>1. /\ time' = time /\ latest' = latest /\ skipped' = skipped
        /\ at[c] \in {"process", "push"} => at'[c] \in {"process", "push"}
    BY <1>1, <1>5 DEF Run, Open, OpenFails, ReadBadLine, Close, Finish, UpdateClock,
                      Get, Refresh, Put, Executing
  <2> QED BY <1>1, <2>1 DEF OnTime
<1> QED BY <1>2, <1>3, <1>4, <1>5

\* A generator does not move the time of another.
LEMMA OthersKeepTime ==
    ASSUME GInv, NEW c \in Caches, Run(c), NEW d \in Caches \ {c}, OnTime(d)
    PROVE  OnTime(d)'
<1>1. /\ time'[d] = time[d] /\ latest'[d] = latest[d] /\ at'[d] = at[d]
      /\ skipped'[d] = skipped[d]
  BY DEF GInv, Typed, Run, Open, OpenFails, ReadLine, ReadBadLine, Close, Finish,
         SameSecond, UpdateClock, PushMetrics, Get, Refresh, Put, Executing
<1> QED BY <1>1 DEF OnTime

LEMMA OnTimeInvariance == Spec => [](\A c \in Caches : OnTime(c))
<1>1. Init => \A c \in Caches : OnTime(c)
  <2> SUFFICES ASSUME Init, NEW c \in Caches PROVE OnTime(c)
    OBVIOUS
  <2>1. latest[c] = 0 /\ time[c] = 0 /\ skipped[c] = 0 /\ at[c] = "open"
    BY DEF Init
  <2> QED BY <2>1 DEF OnTime
<1>2. GInv /\ (\A c \in Caches : OnTime(c)) /\ [Next]_gvars
        => (\A c \in Caches : OnTime(c))'
  <2> SUFFICES ASSUME GInv, \A c \in Caches : OnTime(c), [Next]_gvars, NEW d \in Caches
               PROVE  OnTime(d)'
    OBVIOUS
  <2>1. ASSUME NEW c \in Caches, Run(c) PROVE OnTime(d)'
    BY <2>1, RunKeepsTime, OthersKeepTime
  <2>2. ASSUME NEW c \in Caches, Lose(c) PROVE OnTime(d)'
    BY <2>2 DEF Lose, OnTime
  <2>3. CASE UNCHANGED gvars
    BY <2>3 DEF gvars, OnTime
  <2> QED BY <2>1, <2>2, <2>3 DEF Next
<1> QED BY <1>1, <1>2, GeneratorInvariance, PTL DEF Spec

---------------------------------------------------------------------------
(* A replay gets nearer to its end *)

\* The steps a replay has before it at most: a line takes five, if the clock
\* moves on and its key is found.
StepsLeft(c) ==
    LET unread == 5 * (MaxLines - lines[c])
    IN  CASE at[c] = "end" -> 0
          [] at[c] = "closed" -> 1
          [] at[c] = "read" -> unread + 2
          [] at[c] \in {"open", "refresh"} -> unread + 3
          [] at[c] = "execute" -> unread + 4
          [] at[c] = "push" -> unread + 5
          [] at[c] = "process" -> unread + 6

\* Each step of a generator takes it nearer to the end of its replay, or ends
\* the process; what the other generators do, and the entries that go, do not
\* take it back.
ReplaysAdvance ==
    [][\A c \in Caches :
          /\ StepsLeft(c) \in Nat /\ (StepsLeft(c) = 0 <=> at[c] = "end")
          /\ Run(c) => StepsLeft(c)' < StepsLeft(c) \/ exited'
          /\ \A d \in Caches : Lose(d) \/ (d # c /\ Run(d)) => StepsLeft(c)' = StepsLeft(c)]_gvars

LEMMA StepsLeftIsNat ==
    ASSUME GInv, NEW c \in Caches
    PROVE  StepsLeft(c) \in Nat /\ (StepsLeft(c) = 0 <=> at[c] = "end")
<1>1. at[c] \in Places /\ lines[c] \in 0..MaxLines
  BY DEF GInv, Typed
<1>2. 5 * (MaxLines - lines[c]) \in Nat
  BY <1>1, TraceAssumption
<1> QED BY <1>1, <1>2 DEF StepsLeft, Places

\* A line that has been read is five steps less to come.
LEMMA ReadingAdvances ==
    ASSUME GInv, NEW c \in Caches, ReadLine(c) \/ ReadBadLine(c)
    PROVE  StepsLeft(c)' < StepsLeft(c)
<1>1. /\ at[c] = "read" /\ at'[c] \in {"read", "process"}
      /\ lines'[c] = lines[c] + 1 /\ lines[c] \in Nat
  BY DEF GInv, Typed, ReadLine, ReadBadLine
<1>2. 5 * (MaxLines - lines'[c]) = 5 * (MaxLines - lines[c]) - 5
  BY <1>1, TraceAssumption
<1>3. 5 * (MaxLines - lines[c]) \in Int
  BY <1>1, TraceAssumption
<1> QED BY <1>1, <1>2, <1>3 DEF StepsLeft

LEMMA RunAdvances ==
    ASSUME GInv, NEW c \in Caches, Run(c)
    PROVE  StepsLeft(c)' < StepsLeft(c) \/ exited'
<1>1. CASE ReadLine(c) \/ ReadBadLine(c)
  BY <1>1, ReadingAdvances
<1>2. CASE OpenFails(c)
  BY <1>2 DEF OpenFails
<1>3. CASE ~(ReadLine(c) \/ ReadBadLine(c) \/ OpenFails(c))
  <2>1. /\ lines' = lines
        /\ \/ at[c] = "open" /\ at'[c] = "read"
           \/ at[c] = "read" /\ at'[c] = "closed"
           \/ at[c] = "closed" /\ at'[c] = "end"
           \/ at[c] = "process" /\ at'[c] \in {"push", "execute"}
           \/ at[c] = "push" /\ at'[c] = "execute"
           \/ at[c] = "execute" /\ at'[c] \in {"refresh", "read"}
           \/ at[c] = "refresh" /\ at'[c] = "read"
    BY <1>3 DEF GInv, Typed, Run, Open, Close, Finish, SameSecond, UpdateClock, PushMetrics,
                Get, Refresh, Put, Executing
  <2>2. lines[c] \in 0..MaxLines /\ 5 * (MaxLines - lines[c]) \in Nat
    BY TraceAssumption DEF GInv, Typed
  <2> QED BY <2>1, <2>2 DEF StepsLeft
<1> QED BY <1>1, <1>2, <1>3

LEMMA OthersLeaveSteps ==
    ASSUME GInv, NEW c \in Caches, NEW d \in Caches, Lose(d) \/ (d # c /\ Run(d))
    PROVE  StepsLeft(c)' = StepsLeft(c)
<1>1. at'[c] = at[c] /\ lines'[c] = lines[c]
  BY DEF GInv, Typed, Lose, Run, Open, OpenFails, ReadLine, ReadBadLine, Close, Finish,
         SameSecond, UpdateClock, PushMetrics, Get, Refresh, Put, Executing
<1> QED BY <1>1 DEF StepsLeft

---------------------------------------------------------------------------
(* The theorems *)

LEMMA GInvImplies ==
    GInv => TypeOK /\ ClockNotAhead /\ OneLineAfterTheEnd /\ RequestsAreReported
<1> SUFFICES ASSUME GInv
             PROVE  TypeOK /\ ClockNotAhead /\ OneLineAfterTheEnd /\ RequestsAreReported
  OBVIOUS
<1>1. ClockNotAhead
  <2>1. ASSUME NEW c \in Caches PROVE clock[c] <= latest[c]
    <3>1. Paced(c) /\ time[c] \in Nat /\ latest[c] \in Nat
      BY TraceAssumption DEF GInv, Typed, Sound
    <3> QED BY <3>1 DEF Paced
  <2> QED BY <2>1 DEF ClockNotAhead
<1>2. TypeOK
  <2>1. \A c \in Caches : time[c] \in 0..MaxTimestamp /\ clock[c] \in 0..MaxTimestamp
    <3>1. ASSUME NEW c \in Caches
          PROVE  time[c] \in 0..MaxTimestamp /\ clock[c] \in 0..MaxTimestamp
      <4>1. /\ time[c] <= latest[c] /\ clock[c] <= latest[c]
            /\ time[c] \in Nat /\ clock[c] \in Nat /\ latest[c] \in 0..MaxTimestamp
        BY <1>1 DEF GInv, Typed, Sound, Paced, ClockNotAhead
      <4> QED BY <4>1, TraceAssumption
    <3> QED BY <3>1
  <2> QED BY <2>1 DEF GInv, Typed, TypeOK
<1>3. OneLineAfterTheEnd
  BY DEF GInv, Sound, Limited, OneLineAfterTheEnd
<1>4. RequestsAreReported
  <2>1. ASSUME NEW c \in Caches, finished[c]
        PROVE  reported[c] = served[c]
    BY <2>1, PlusIsCount DEF GInv, Typed, Sound, Accounted
  <2> QED BY <2>1 DEF GInv, Sound, Accounted, RequestsAreReported
<1> QED BY <1>1, <1>2, <1>3, <1>4

\* Every variable keeps its type; _time and the clock stay within the trace.
THEOREM GeneratorTypeCorrect == Spec => []TypeOK
  BY GeneratorInvariance, GInvImplies, PTL

\* The clock of a cache is never ahead of its trace, whatever the gaps.
THEOREM ClockFollowsTrace == Spec => []ClockNotAhead
  BY GeneratorInvariance, GInvImplies, PTL

\* Of the lines at or after _nb_seconds at most one is executed.
THEOREM ReplayEnds == Spec => []OneLineAfterTheEnd
  BY GeneratorInvariance, GInvImplies, PTL

\* get and put find the clock behind their line by no more than the seconds for
\* which the trace had no line.
THEOREM NoLineIsLate == Spec => []LinesOnTime
<1>1. GInv /\ (\A c \in Caches : OnTime(c)) => LinesOnTime
  <2> SUFFICES ASSUME GInv, NEW c \in Caches, OnTime(c), at[c] = "execute"
               PROVE  line[c].timestamp <= clock[c] + skipped[c]
    BY DEF LinesOnTime
  <2>1. /\ clock[c] = time[c] /\ line[c].timestamp = latest[c]
        /\ time[c] \in Nat /\ skipped[c] \in Nat
    BY DEF GInv, Typed, Sound, Paced
  <2> QED BY <2>1 DEF OnTime
<1> QED BY <1>1, GeneratorInvariance, OnTimeInvariance, PTL

\* The reports of a generator that has set its flag add up to what its cache
\* has served.
THEOREM ReportsAddUp == Spec => []RequestsAreReported
  BY GeneratorInvariance, GInvImplies, PTL

\* A replay has a bounded number of steps for any trace, whatever the other
\* threads do: what ProgramEnds needs of the generators, but for the fairness
\* (generator.cc run).
THEOREM ReplaysGetShorter == Spec => ReplaysAdvance
<1>1. GInv => [\A c \in Caches :
          /\ StepsLeft(c) \in Nat /\ (StepsLeft(c) = 0 <=> at[c] = "end")
          /\ Run(c) => StepsLeft(c)' < StepsLeft(c) \/ exited'
          /\ \A d \in Caches :
                Lose(d) \/ (d # c /\ Run(d)) => StepsLeft(c)' = StepsLeft(c)]_gvars
  BY StepsLeftIsNat, RunAdvances, OthersLeaveSteps
<1> QED BY GeneratorInvariance, <1>1, PTL DEF ReplaysAdvance
=============================================================================
