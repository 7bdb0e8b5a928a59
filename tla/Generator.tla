----------------------------- MODULE Generator -----------------------------
(***************************************************************************)
(* The generators (cachecache/src/service/generator.cc): one thread per    *)
(* cache, which replays a trace.  It reads a line, moves the clock of its  *)
(* cache on when the line is of another second than the last, reports the  *)
(* counters of that second, and executes the line.                         *)
(*                                                                         *)
(* A trace is chosen line by line: a finite sequence of lines, sorted by   *)
(* timestamp.  What get and put do inside the cache is the matter of       *)
(* module Cachecache; here a cache is the set of the keys that have an     *)
(* entry, and an entry may go at any time.  Module Service puts the two    *)
(* together.                                                               *)
(***************************************************************************)
EXTENDS Integers

CONSTANTS
    Caches,        \* the targets, one generator each
    Keys,          \* the keys of the traces
    Operations,    \* the operations of the traces
    MaxLines,      \* the length of the longest trace
    MaxTimestamp,  \* the largest timestamp of a trace
    MaxGap,        \* the largest step from one timestamp to the next
    NbSeconds      \* _nb_seconds, 0 for no limit

ASSUME TraceAssumption == /\ Keys # {} /\ Operations # {}
                          /\ MaxLines \in Nat /\ MaxTimestamp \in Nat /\ MaxGap \in Nat
                          /\ NbSeconds \in Nat

VARIABLES
    at,        \* where the thread is in run and process
    line,      \* the line it processes
    lines,     \* i: how many lines it has read
    time,      \* _time
    clock,     \* the _time of the target's clock
    stop,      \* _stop
    finished,  \* *_finished
    counters,  \* _reqs and _hits of the target
    content,   \* content[c]: the keys that have an entry in c
    exited,    \* whether a thread has called exit
    \* History
    latest,    \* the largest timestamp so far
    skipped,   \* how many seconds of the trace had no line so far
    served,    \* the requests and hits there have been
    reported,  \* those that push_metrics has pushed
    late       \* how many lines at or after _nb_seconds were executed

gvars == <<at, line, lines, time, clock, stop, finished, counters, content, exited,
           latest, skipped, served, reported, late>>

Line == [op : Operations, key : Keys, timestamp : 0..MaxTimestamp]

Count == [reqs : Nat, hits : Nat]

Places == {"open", "read", "process", "push", "execute", "refresh", "closed", "end"}

Plus(a, b) == [reqs |-> a.reqs + b.reqs, hits |-> a.hits + b.hits]

Zero == [reqs |-> 0, hits |-> 0]

---------------------------------------------------------------------------
(* run *)

Open(c) ==
    /\ at[c] = "open"
    /\ at' = [at EXCEPT ![c] = "read"]
    /\ UNCHANGED <<line, lines, time, clock, stop, finished, counters, content, exited,
                   latest, skipped, served, reported, late>>

\* The trace is not there: exit(-1) ends the process, with all its threads.
OpenFails(c) ==
    /\ at[c] = "open"
    /\ exited' = TRUE
    /\ UNCHANGED <<at, line, lines, time, clock, stop, finished, counters, content,
                   latest, skipped, served, reported, late>>

\* The seconds between those of two lines.
Gap(last, next) == IF next > last THEN next - last - 1 ELSE 0

\* A line that parseLine can make sense of.
ReadLine(c) ==
    /\ at[c] = "read"
    /\ ~stop[c]
    /\ lines[c] < MaxLines
    /\ \E l \in Line :
          /\ l.timestamp \in latest[c]..(latest[c] + MaxGap)
          /\ line' = [line EXCEPT ![c] = l]
          /\ latest' = [latest EXCEPT ![c] = l.timestamp]
          /\ skipped' = [skipped EXCEPT ![c] = @ + Gap(latest[c], l.timestamp)]
    /\ lines' = [lines EXCEPT ![c] = @ + 1]
    /\ at' = [at EXCEPT ![c] = "process"]
    /\ UNCHANGED <<time, clock, stop, finished, counters, content, exited,
                   served, reported, late>>

\* A loop that notices the end of the trace one line too late.
ReadBadLineLate(c) ==
    /\ at[c] = "read"
    /\ ~stop[c]
    /\ lines[c] <= MaxLines
    /\ lines' = [lines EXCEPT ![c] = @ + 1]
    /\ UNCHANGED <<at, line, time, clock, stop, finished, counters, content, exited,
                   latest, skipped, served, reported, late>>

\* parseLine throws, and run catches it: the line has no effect.
ReadBadLine(c) ==
    /\ at[c] = "read"
    /\ ~stop[c]
    /\ lines[c] < MaxLines
    /\ lines' = [lines EXCEPT ![c] = @ + 1]
    /\ UNCHANGED <<at, line, time, clock, stop, finished, counters, content, exited,
                   latest, skipped, served, reported, late>>

\* A run that ends without a last report.
CloseSilently(c) ==
    /\ at[c] = "read"
    /\ at' = [at EXCEPT ![c] = "closed"]
    /\ UNCHANGED <<line, lines, time, clock, stop, finished, counters, content, exited,
                   latest, skipped, served, reported, late>>

\* The trace is at its end or _stop is set: the last counters are reported.
Close(c) ==
    /\ at[c] = "read"
    /\ reported' = [reported EXCEPT ![c] = Plus(@, counters[c])]
    /\ counters' = [counters EXCEPT ![c] = Zero]
    /\ at' = [at EXCEPT ![c] = "closed"]
    /\ UNCHANGED <<line, lines, time, clock, stop, finished, content, exited,
                   latest, skipped, served, late>>

\* A thread that ends without a word.
FinishUnflagged(c) ==
    /\ at[c] = "closed"
    /\ at' = [at EXCEPT ![c] = "end"]
    /\ UNCHANGED <<line, lines, time, clock, stop, finished, counters, content, exited,
                   latest, skipped, served, reported, late>>

\* The supervisor is told.
Finish(c) ==
    /\ at[c] = "closed"
    /\ finished' = [finished EXCEPT ![c] = TRUE]
    /\ at' = [at EXCEPT ![c] = "end"]
    /\ UNCHANGED <<line, lines, time, clock, stop, counters, content, exited,
                   latest, skipped, served, reported, late>>

---------------------------------------------------------------------------
(* process *)

\* A second that is over when the next one has begun.
NewSecondLate(c) == line[c].timestamp > time[c] + 1

\* A clock that moves on with every line.
NewSecondAlways(c) == line[c].timestamp > 0

NewSecond(c) == line[c].timestamp # time[c]

SameSecond(c) ==
    /\ at[c] = "process"
    /\ ~NewSecond(c)
    /\ at' = [at EXCEPT ![c] = "execute"]
    /\ UNCHANGED <<line, lines, time, clock, stop, finished, counters, content, exited,
                   latest, skipped, served, reported, late>>

\* The clock of the cache goes on by one, however far the timestamp went.
UpdateClock(c) ==
    /\ at[c] = "process"
    /\ NewSecond(c)
    /\ clock' = [clock EXCEPT ![c] = @ + 1]
    /\ at' = [at EXCEPT ![c] = "push"]
    /\ UNCHANGED <<line, lines, time, stop, finished, counters, content, exited,
                   latest, skipped, served, reported, late>>

\* A limit that is one second later.
LimitPassed(c) == NbSeconds > 0 /\ line[c].timestamp > NbSeconds

LimitReached(c) == NbSeconds > 0 /\ line[c].timestamp >= NbSeconds

\* A push_metrics that leaves the counters as they are.
PushAndKeep(c) ==
    /\ at[c] = "push"
    /\ reported' = [reported EXCEPT ![c] = Plus(@, counters[c])]
    /\ time' = [time EXCEPT ![c] = @ + 1]
    /\ stop' = [stop EXCEPT ![c] = @ \/ LimitReached(c)]
    /\ at' = [at EXCEPT ![c] = "execute"]
    /\ UNCHANGED <<line, lines, clock, finished, counters, content, exited,
                   latest, skipped, served, late>>

\* push_metrics reports the counters and starts them again.  Then process
\* sleeps for the rest of the second, and looks whether the time is up.
PushMetrics(c) ==
    /\ at[c] = "push"
    /\ reported' = [reported EXCEPT ![c] = Plus(@, counters[c])]
    /\ counters' = [counters EXCEPT ![c] = Zero]
    /\ time' = [time EXCEPT ![c] = @ + 1]
    /\ stop' = [stop EXCEPT ![c] = @ \/ LimitReached(c)]
    /\ at' = [at EXCEPT ![c] = "execute"]
    /\ UNCHANGED <<line, lines, clock, finished, content, exited,
                   latest, skipped, served, late>>

\* set and add are executed as put, everything else as get.
IsPut(c) == line[c].op \in {"set", "add"}

\* The call that executes the line begins; a get of an entry that is there
\* has work left.
Executing(c, next) ==
    /\ at[c] = "execute"
    /\ at' = [at EXCEPT ![c] = next]
    /\ late' = [late EXCEPT ![c] = IF NbSeconds > 0 /\ line[c].timestamp >= NbSeconds
                                   THEN @ + 1 ELSE @]
    /\ UNCHANGED <<line, lines, time, clock, stop, finished, exited, latest, skipped,
                   reported>>

\* get counts the request, and the hit.
Get(c) ==
    LET found == line[c].key \in content[c]
        hit   == [reqs |-> 1, hits |-> IF found THEN 1 ELSE 0]
    IN  /\ ~IsPut(c)
        /\ Executing(c, IF found THEN "refresh" ELSE "read")
        /\ counters' = [counters EXCEPT ![c] = Plus(@, hit)]
        /\ served' = [served EXCEPT ![c] = Plus(@, hit)]
        /\ UNCHANGED content

\* The entry of the line's key is there afterwards, or nothing has changed.
Stored(c) == content' \in {content, [content EXCEPT ![c] = @ \cup {line[c].key}]}

\* get writes the new last_request and returns.  When that does not fit, get
\* stores the entry anew, also if it has been taken out in the meantime.
Refresh(c) ==
    /\ at[c] = "refresh"
    /\ at' = [at EXCEPT ![c] = "read"]
    /\ Stored(c)
    /\ UNCHANGED <<line, lines, time, clock, stop, finished, counters, exited,
                   latest, skipped, served, reported, late>>

\* put stores an entry, or fails.
Put(c) ==
    /\ IsPut(c)
    /\ Executing(c, "read")
    /\ Stored(c)
    /\ UNCHANGED <<counters, served>>

---------------------------------------------------------------------------
(* The rest of the cache *)

\* Entries are evicted or cleaned.
Lose(c) ==
    /\ \E K \in SUBSET Keys : content' = [content EXCEPT ![c] = @ \ K]
    /\ UNCHANGED <<at, line, lines, time, clock, stop, finished, counters, exited,
                   latest, skipped, served, reported, late>>

---------------------------------------------------------------------------
(* The specification *)

Init ==
    /\ at = [c \in Caches |-> "open"]
    /\ line = [c \in Caches |-> CHOOSE l \in Line : l.timestamp = 0]
    /\ lines = [c \in Caches |-> 0]
    /\ time = [c \in Caches |-> 0]
    /\ clock = [c \in Caches |-> 0]
    /\ stop = [c \in Caches |-> FALSE]
    /\ finished = [c \in Caches |-> FALSE]
    /\ counters = [c \in Caches |-> Zero]
    /\ content = [c \in Caches |-> {}]
    /\ exited = FALSE
    /\ latest = [c \in Caches |-> 0]
    /\ skipped = [c \in Caches |-> 0]
    /\ served = [c \in Caches |-> Zero]
    /\ reported = [c \in Caches |-> Zero]
    /\ late = [c \in Caches |-> 0]

\* What the thread of c does.
Run(c) ==
    /\ ~exited
    /\ \/ Open(c) \/ OpenFails(c)
       \/ ReadLine(c) \/ ReadBadLine(c) \/ Close(c) \/ Finish(c)
       \/ SameSecond(c) \/ UpdateClock(c) \/ PushMetrics(c)
       \/ Get(c) \/ Refresh(c) \/ Put(c)

Next == \E c \in Caches : Run(c) \/ (~exited /\ Lose(c))

Spec == Init /\ [][Next]_gvars

---------------------------------------------------------------------------
(* Properties *)

TypeOK ==
    /\ at \in [Caches -> Places]
    /\ line \in [Caches -> Line]
    /\ lines \in [Caches -> 0..MaxLines]
    /\ time \in [Caches -> 0..MaxTimestamp]
    /\ clock \in [Caches -> 0..MaxTimestamp]
    /\ stop \in [Caches -> BOOLEAN]
    /\ finished \in [Caches -> BOOLEAN]
    /\ counters \in [Caches -> Count]
    /\ content \in [Caches -> SUBSET Keys]
    /\ exited \in BOOLEAN
    /\ latest \in [Caches -> 0..MaxTimestamp]
    /\ skipped \in [Caches -> Nat]
    /\ served \in [Caches -> Count]
    /\ reported \in [Caches -> Count]
    /\ late \in [Caches -> Nat]

\* The clock of a cache never runs ahead of its trace, whatever the gaps
\* between the timestamps and the lines that were skipped: a test for "another
\* second" that let it pass a timestamp would tick on every line from then on
\* (generator.cc process).
ClockNotAhead ==
    \A c \in Caches : clock[c] <= latest[c]

\* Whenever get or put reads the clock, it is behind its line by no more than
\* the seconds for which the trace had no line: a trace without gaps is executed
\* on time, and a lag is made up for, never increased, by the lines that follow
\* (generator.cc process).
LinesOnTime ==
    \A c \in Caches : at[c] = "execute" => line[c].timestamp <= clock[c] + skipped[c]

\* _nb_seconds ends the replay: of the lines at or after it only the one that
\* reaches it is executed, although _stop is only looked at between two lines
\* and only set when the clock moves.
OneLineAfterTheEnd ==
    \A c \in Caches : late[c] <= 1

\* The counters of each second are what was served in it: nothing is reported
\* twice, and when the flag for the supervisor is set nothing is left out.
RequestsAreReported ==
    \A c \in Caches :
        /\ Plus(reported[c], counters[c]) = served[c]
        /\ finished[c] => reported[c] = served[c]
=============================================================================
