-------------------------- MODULE SupervisorProofs --------------------------
(***************************************************************************)
(* The end of the program, for any number of caches: main joins generators *)
(* that have finished, and returns when everything is reported.            *)
(***************************************************************************)
EXTENDS Supervisor, GeneratorProofs, FiniteSets, FiniteSetTheorems

\* A flag that was found set stays set, so the turn of the loop in which all
\* were found set ends with all of them set.
Flags ==
    /\ main \in Stages
    /\ spawned \subseteq Caches
    /\ todo \subseteq Caches
    /\ allFinished \in BOOLEAN
    /\ main = "check" /\ allFinished => \A c \in Caches \ todo : finished[c]
    /\ main \in {"join", "done"} => \A c \in Caches : finished[c]

SInv == GInv /\ Flags

LEMMA FlagsStay ==
    ASSUME GInv, NEW c \in Caches, Run(c) \/ Lose(c), NEW d \in Caches, finished[d]
    PROVE  finished'[d]
<1>1. CASE Finish(c)
  BY <1>1 DEF Finish, GInv, Typed
<1>2. CASE ~Finish(c)
  <2>1. finished' = finished
    BY <1>2 DEF Run, Open, OpenFails, ReadLine, ReadBadLine, Close, SameSecond,
                UpdateClock, PushMetrics, Get, Refresh, Put, Executing, Lose
  <2> QED BY <2>1
<1> QED BY <1>1, <1>2

LEMMA GeneratorKeepsSInv ==
    ASSUME SInv, NEW c \in Caches, Run(c) \/ Lose(c), UNCHANGED svars
    PROVE  SInv'
<1>1. GInv'
  BY RunSound, LoseSound DEF SInv
<1>2. Flags'
  BY FlagsStay DEF SInv, Flags, svars
<1> QED BY <1>1, <1>2 DEF SInv

LEMMA SuperviseKeepsSInv ==
    ASSUME SInv, Supervise
    PROVE  SInv'
<1>1. CASE \E c \in Caches \ spawned : Spawn(c)
  <2>1. PICK c \in Caches \ spawned : Spawn(c)
    BY <1>1
  <2>2. GInv'
    BY <2>1, StutterSound DEF Spawn, SInv
  <2>3. Flags'
    BY <2>1 DEF Spawn, SInv, Flags, gvars, Stages
  <2> QED BY <2>2, <2>3 DEF SInv
<1>2. CASE StartChecking
  <2>1. GInv'
    BY <1>2, StutterSound DEF StartChecking, SInv
  <2>2. Flags'
    BY <1>2 DEF StartChecking, SInv, Flags, gvars, Stages
  <2> QED BY <2>1, <2>2 DEF SInv
<1>3. CASE \E c \in Caches : Check(c)
  <2>1. PICK c \in Caches : Check(c)
    BY <1>3
  <2>2. GInv'
    BY <2>1, StutterSound DEF Check, SInv
  <2>3. allFinished' \in BOOLEAN
    BY <2>1 DEF Check, SInv, Flags, GInv, Typed
  <2>4. allFinished' => \A d \in Caches \ todo' : finished'[d]
    <3> SUFFICES ASSUME allFinished', NEW d \in Caches \ todo'
                 PROVE  finished[d]
      BY <2>1 DEF Check, gvars
    <3>1. allFinished /\ finished[c] /\ todo' = todo \ {c} /\ main = "check"
      BY <2>1 DEF Check
    <3> QED BY <3>1 DEF SInv, Flags
  <2>5. Flags'
    BY <2>1, <2>3, <2>4 DEF Check, SInv, Flags, gvars
  <2> QED BY <2>2, <2>5 DEF SInv
<1>4. CASE Checked
  <2>1. GInv'
    BY <1>4, StutterSound DEF Checked, SInv
  <2>2. allFinished => \A c \in Caches : finished[c]
    BY <1>4 DEF Checked, SInv, Flags
  <2>3. main' \in {"join", "clean"} /\ (main' = "join" => allFinished)
    BY <1>4 DEF Checked
  <2>4. Flags'
    BY <1>4, <2>2, <2>3 DEF Checked, SInv, Flags, gvars, Stages
  <2> QED BY <2>1, <2>4 DEF SInv
<1>5. CASE \E c \in Caches : Clean(c)
  <2>1. PICK c \in Caches : Clean(c)
    BY <1>5
  <2>2. GInv'
    BY <2>1, LoseSound DEF Clean, SInv
  <2>3. Flags'
    BY <2>1 DEF Clean, Lose, SInv, Flags
  <2> QED BY <2>2, <2>3 DEF SInv
<1>6. CASE \E c \in Caches : Join(c)
  <2>1. PICK c \in Caches : Join(c)
    BY <1>6
  <2>2. GInv'
    BY <2>1, StutterSound DEF Join, SInv
  <2>3. Flags'
    BY <2>1 DEF Join, SInv, Flags, gvars
  <2> QED BY <2>2, <2>3 DEF SInv
<1>7. CASE Return
  <2>1. GInv'
    BY <1>7, StutterSound DEF Return, SInv
  <2>2. Flags'
    BY <1>7 DEF Return, SInv, Flags, gvars, Stages
  <2> QED BY <2>1, <2>2 DEF SInv
<1> QED BY <1>1, <1>2, <1>3, <1>4, <1>5, <1>6, <1>7 DEF Supervise

THEOREM SupervisorInvariance == SSpec => []SInv
<1>1. SInit => SInv
  BY InitSound DEF SInit, SInv, Flags, Stages
<1>2. SInv /\ [SNext]_vars => SInv'
  <2> SUFFICES ASSUME SInv, [SNext]_vars
               PROVE  SInv'
    OBVIOUS
  <2>1. CASE Supervise
    BY <2>1, SuperviseKeepsSInv
  <2>2. CASE \E c \in Caches : Generate(c) \/ Evict(c)
    BY <2>2, GeneratorKeepsSInv DEF Generate, Evict
  <2>3. CASE UNCHANGED vars
    <3>1. GInv'
      BY <2>3, StutterSound DEF vars, SInv
    <3>2. Flags'
      BY <2>3 DEF vars, svars, gvars, SInv, Flags
    <3> QED BY <3>1, <3>2 DEF SInv
  <2> QED BY <2>1, <2>2, <2>3 DEF SNext
<1> QED BY <1>1, <1>2, PTL DEF SSpec

\* Whatever main does, each generator behaves as module Generator says: what is
\* true of generators alone is true of them under the supervisor.
THEOREM SupervisorRefinesGenerator == SSpec => Spec
<1>1. SInit => Init
  BY DEF SInit
<1>2. [SNext]_vars => [Next]_gvars
  <2> SUFFICES ASSUME [SNext]_vars
               PROVE  [Next]_gvars
    OBVIOUS
  <2>1. CASE Supervise /\ \E c \in Caches : Clean(c)
    BY <2>1 DEF Supervise, Clean, Next
  <2>2. CASE Supervise /\ ~\E c \in Caches : Clean(c)
    BY <2>2 DEF Supervise, Spawn, StartChecking, Check, Checked, Join, Return
  <2>3. CASE \E c \in Caches : Generate(c) \/ Evict(c)
    BY <2>3 DEF Generate, Evict, Next
  <2>4. CASE UNCHANGED vars
    BY <2>4 DEF vars
  <2> QED BY <2>1, <2>2, <2>3, <2>4 DEF SNext
<1> QED BY <1>1, <1>2, PTL DEF SSpec, Spec

\* Every variable keeps its type, those of the generators included.
THEOREM SupervisorTypeCorrect == SSpec => []STypeOK
<1>1. SInv => STypeOK
  BY GInvImplies DEF SInv, Flags, STypeOK
<1> QED BY SupervisorInvariance, <1>1, PTL

\* main only joins when every generator has set its flag, although it read the
\* flags at different times (supervisor.cc run).
THEOREM JoinsOnlyTheFinished == SSpec => []JoinsWhenAllFinished
<1>1. SInv => JoinsWhenAllFinished
  BY DEF SInv, Flags, JoinsWhenAllFinished
<1> QED BY SupervisorInvariance, <1>1, PTL

\* When main returns, all that the caches served is in the reports.
THEOREM NothingIsLost == SSpec => []EverythingIsReported
<1>1. SInv => EverythingIsReported
  BY GInvImplies DEF SInv, Flags, EverythingIsReported, RequestsAreReported
<1> QED BY SupervisorInvariance, <1>1, PTL

---------------------------------------------------------------------------
(* main gets nearer to its end *)

AllFinished == \A c \in Caches : finished[c]

\* The steps main has before it at most when all generators have finished: the
\* turn of the loop it is in, one more if that turn has found a flag unset, and
\* the joins.
MainStepsLeft ==
    LET caches == Cardinality(Caches)
        ahead  == Cardinality(todo)
    IN  CASE main = "done" -> 0
          [] main = "join" -> ahead + 1
          [] main = "check" /\ allFinished -> ahead + caches + 2
          [] main = "clean" -> ahead + 2 * caches + 3
          [] main = "check" /\ ~allFinished -> ahead + 3 * caches + 4
          [] main = "spawn" -> Cardinality(Caches \ spawned) + 2 * caches + 3

\* No flag is taken back, and when all are set each step of main takes it nearer
\* to its end, the generators do not take it back, and no join has to wait.
MainAdvances ==
    [][/\ \A c \in Caches : finished[c] => finished'[c]
       /\ AllFinished =>
             /\ MainStepsLeft \in Nat /\ (MainStepsLeft = 0 <=> main = "done")
             /\ Supervise => MainStepsLeft' < MainStepsLeft
             /\ \A c \in Caches : Generate(c) \/ Evict(c) => MainStepsLeft' = MainStepsLeft
             /\ main = "join" => \A c \in Caches : at[c] = "end"]_vars

\* A cache less in a loop is a step less.
LEMMA OneLessToDo ==
    ASSUME IsFiniteSet(Caches), NEW S \in SUBSET Caches, NEW c \in S
    PROVE  /\ Cardinality(S) \in Nat /\ Cardinality(S \ {c}) \in Nat
           /\ Cardinality(S \ {c}) < Cardinality(S)
<1>1. IsFiniteSet(S)
  BY FS_Subset
<1>2. Cardinality(S) \in Nat /\ Cardinality(S \ {c}) = Cardinality(S) - 1 /\ IsFiniteSet(S \ {c})
  BY <1>1, FS_RemoveElement, FS_CardinalityType
<1>3. Cardinality(S \ {c}) \in Nat
  BY <1>2, FS_CardinalityType
<1> QED BY <1>2, <1>3

LEMMA MainStepsLeftIsNat ==
    ASSUME IsFiniteSet(Caches), SInv
    PROVE  MainStepsLeft \in Nat /\ (MainStepsLeft = 0 <=> main = "done")
<1>1. \A S \in SUBSET Caches : Cardinality(S) \in Nat
  BY FS_Subset, FS_CardinalityType
<1>2. /\ Cardinality(todo) \in Nat /\ Cardinality(Caches) \in Nat
      /\ Cardinality(Caches \ spawned) \in Nat
  BY <1>1 DEF SInv, Flags
<1> QED BY <1>2 DEF MainStepsLeft, SInv, Flags, Stages

LEMMA SuperviseAdvances ==
    ASSUME IsFiniteSet(Caches), SInv, AllFinished, Supervise
    PROVE  MainStepsLeft' < MainStepsLeft
<1>1. \A S \in SUBSET Caches : Cardinality(S) \in Nat
  BY FS_Subset, FS_CardinalityType
<1>2. /\ Cardinality(todo) \in Nat /\ Cardinality(Caches) \in Nat
      /\ Cardinality(Caches \ spawned) \in Nat
  BY <1>1 DEF SInv, Flags
<1>3. CASE \E c \in Caches \ spawned : Spawn(c)
  <2>1. PICK c \in Caches \ spawned : Spawn(c)
    BY <1>3
  <2>2. main = "spawn" /\ main' = "spawn" /\ Caches \ spawned' = (Caches \ spawned) \ {c}
    BY <2>1 DEF Spawn
  <2>3. /\ Cardinality(Caches \ spawned') \in Nat
        /\ Cardinality(Caches \ spawned') < Cardinality(Caches \ spawned)
    BY <2>2, OneLessToDo
  <2> QED BY <1>2, <2>2, <2>3 DEF MainStepsLeft
<1>4. CASE StartChecking
  <2>1. /\ main \in {"spawn", "clean"} /\ main' = "check" /\ todo' = Caches /\ allFinished'
    BY <1>4 DEF StartChecking
  <2>2. MainStepsLeft' = 2 * Cardinality(Caches) + 2
    BY <1>2, <2>1 DEF MainStepsLeft
  <2> QED BY <1>2, <2>1, <2>2 DEF MainStepsLeft
<1>5. CASE \E c \in Caches : Check(c)
  <2>1. PICK c \in todo : Check(c)
    BY <1>5 DEF Check
  <2>2. main = "check" /\ main' = "check" /\ todo' = todo \ {c} /\ allFinished' = allFinished
    BY <2>1 DEF Check, AllFinished, SInv, Flags, GInv, Typed
  <2>3. Cardinality(todo') \in Nat /\ Cardinality(todo') < Cardinality(todo)
    BY <2>1, <2>2, OneLessToDo DEF SInv, Flags
  <2> QED BY <1>2, <2>2, <2>3 DEF MainStepsLeft
<1>6. CASE Checked
  <2>1. /\ main = "check" /\ main' = (IF allFinished THEN "join" ELSE "clean")
        /\ todo' = Caches
    BY <1>6 DEF Checked
  <2>2. CASE allFinished
    BY <1>2, <2>1, <2>2 DEF MainStepsLeft
  <2>3. CASE ~allFinished
    BY <1>2, <2>1, <2>3 DEF MainStepsLeft
  <2> QED BY <2>2, <2>3
<1>7. CASE \E c \in Caches : Clean(c) \/ Join(c)
  <2>1. PICK c \in todo : Clean(c) \/ Join(c)
    BY <1>7 DEF Clean, Join
  <2>2. main \in {"clean", "join"} /\ main' = main /\ todo' = todo \ {c}
    BY <2>1 DEF Clean, Join
  <2>3. Cardinality(todo') \in Nat /\ Cardinality(todo') < Cardinality(todo)
    BY <2>1, <2>2, OneLessToDo DEF SInv, Flags
  <2> QED BY <1>2, <2>2, <2>3 DEF MainStepsLeft
<1>8. CASE Return
  BY <1>2, <1>8 DEF Return, MainStepsLeft
<1> QED BY <1>3, <1>4, <1>5, <1>6, <1>7, <1>8 DEF Supervise

\* Once all generators have finished main has a bounded number of steps, none of
\* which waits: what ProgramEnds needs of main, but for the fairness
\* (supervisor.cc run).
THEOREM MainGetsToItsEnd ==
    ASSUME IsFiniteSet(Caches)
    PROVE  SSpec => MainAdvances
<1>1. SInv /\ [SNext]_vars =>
         [/\ \A c \in Caches : finished[c] => finished'[c]
          /\ AllFinished =>
                /\ MainStepsLeft \in Nat /\ (MainStepsLeft = 0 <=> main = "done")
                /\ Supervise => MainStepsLeft' < MainStepsLeft
                /\ \A c \in Caches : Generate(c) \/ Evict(c) => MainStepsLeft' = MainStepsLeft
                /\ main = "join" => \A c \in Caches : at[c] = "end"]_vars
  <2>1. ASSUME SInv, [SNext]_vars, NEW c \in Caches, finished[c] PROVE finished'[c]
    <3>1. \/ finished' = finished
          \/ \E d \in Caches : Run(d) \/ Lose(d)
      BY <2>1 DEF SNext, Supervise, Generate, Evict, vars, gvars, Spawn, StartChecking, Check,
                  Checked, Clean, Join, Return
    <3> QED BY <2>1, <3>1, FlagsStay DEF SInv
  <2>2. ASSUME NEW c \in Caches, Generate(c) \/ Evict(c) PROVE MainStepsLeft' = MainStepsLeft
    <3>1. UNCHANGED svars
      BY <2>2 DEF Generate, Evict
    <3> QED BY <3>1 DEF svars, MainStepsLeft
  <2>3. SInv /\ AllFinished => \A c \in Caches : at[c] = "end"
    BY DEF SInv, AllFinished, GInv, Sound, Accounted
  <2> QED BY <2>1, <2>2, <2>3, MainStepsLeftIsNat, SuperviseAdvances
<1> QED BY SupervisorInvariance, <1>1, PTL DEF SSpec, MainAdvances
=============================================================================
