----------------------------- MODULE Supervisor -----------------------------
(***************************************************************************)
(* The main thread (cachecache/src/service/supervisor/supervisor.cc): it   *)
(* spawns a generator for each cache, cleans the caches one after the      *)
(* other every few seconds until all generators have set their flags, and  *)
(* joins their threads.  The flags are plain booleans that it reads one by *)
(* one while the generators run.                                           *)
(***************************************************************************)
EXTENDS Generator

VARIABLES
    main,         \* where the main thread is in run
    spawned,      \* the caches whose generator has a thread
    todo,         \* the caches its present loop has not come to yet
    allFinished   \* all_finished

svars == <<main, spawned, todo, allFinished>>
vars == <<gvars, svars>>

Stages == {"spawn", "check", "clean", "join", "done"}

---------------------------------------------------------------------------
(* run *)

Spawn(c) ==
    /\ main = "spawn"
    /\ spawned' = spawned \cup {c}
    /\ UNCHANGED <<gvars, main, todo, allFinished>>

\* A turn of the loop begins; the main thread has slept before.
StartChecking ==
    /\ \/ main = "spawn" /\ spawned = Caches
       \/ main = "clean" /\ todo = {}
    /\ main' = "check"
    /\ todo' = Caches
    /\ allFinished' = TRUE
    /\ UNCHANGED <<gvars, spawned>>

\* A check that only keeps what the last flag said.
CheckLast(c) ==
    /\ main = "check"
    /\ c \in todo
    /\ allFinished' = finished[c]
    /\ todo' = todo \ {c}
    /\ UNCHANGED <<gvars, main, spawned>>

Check(c) ==
    /\ main = "check"
    /\ c \in todo
    /\ allFinished' = (allFinished /\ finished[c])
    /\ todo' = todo \ {c}
    /\ UNCHANGED <<gvars, main, spawned>>

Checked ==
    /\ main = "check"
    /\ todo = {}
    /\ main' = IF allFinished THEN "join" ELSE "clean"
    /\ todo' = Caches
    /\ UNCHANGED <<gvars, spawned, allFinished>>

\* clean takes some of the entries out (module Cachecache).
Clean(c) ==
    /\ main = "clean"
    /\ c \in todo
    /\ Lose(c)
    /\ todo' = todo \ {c}
    /\ UNCHANGED <<main, spawned, allFinished>>

\* A thread that has ended is joined.
Join(c) ==
    /\ main = "join"
    /\ c \in todo
    /\ at[c] = "end"
    /\ todo' = todo \ {c}
    /\ UNCHANGED <<gvars, main, spawned, allFinished>>

Return ==
    /\ main = "join"
    /\ todo = {}
    /\ main' = "done"
    /\ UNCHANGED <<gvars, spawned, todo, allFinished>>

---------------------------------------------------------------------------
(* The specification *)

SInit ==
    /\ Init
    /\ main = "spawn"
    /\ spawned = {}
    /\ todo = {}
    /\ allFinished = FALSE

\* The main thread.
Supervise ==
    /\ ~exited
    /\ \/ \E c \in Caches \ spawned : Spawn(c)
       \/ StartChecking
       \/ \E c \in Caches : Check(c)
       \/ Checked
       \/ \E c \in Caches : Clean(c)
       \/ \E c \in Caches : Join(c)
       \/ Return

\* The thread of the generator of c.
Generate(c) == c \in spawned /\ Run(c) /\ UNCHANGED svars

Evict(c) == c \in spawned /\ ~exited /\ Lose(c) /\ UNCHANGED svars

SNext == Supervise \/ \E c \in Caches : Generate(c) \/ Evict(c)

SSpec == SInit /\ [][SNext]_vars

\* The scheduler lets every thread run, and a sleep is over at some time.
SFairSpec == SSpec /\ WF_vars(Supervise) /\ \A c \in Caches : WF_vars(Generate(c))

---------------------------------------------------------------------------
(* Properties *)

STypeOK ==
    /\ TypeOK
    /\ main \in Stages
    /\ spawned \subseteq Caches
    /\ todo \subseteq Caches
    /\ allFinished \in BOOLEAN

\* The flags are read at different times, and no generator is still at work
\* when the last of them has been found set.
JoinsWhenAllFinished ==
    main \in {"join", "done"} => \A c \in Caches : finished[c]

\* When main returns, every request that was executed is in a report.
EverythingIsReported ==
    main = "done" => \A c \in Caches : reported[c] = served[c]

\* The program ends, by itself or because a trace is not there: no generator
\* keeps the supervisor in its loop or in a join.
ProgramEnds == <>(main = "done" \/ exited)
=============================================================================
