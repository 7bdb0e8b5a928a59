------------------------------- MODULE Metrics -------------------------------
(***************************************************************************)
(* The metrics (cachecache/src/service/metrics/metrics.cc): one CSV file   *)
(* per metric, to which the threads of all caches push rows.  The first    *)
(* push of a metric registers it: it notes the names of its labels, opens  *)
(* the file and writes the header.                                         *)
(*                                                                         *)
(* The mutex covers the registration and the writes, but not the look at   *)
(* the map of the metrics that decides whether to register, nor the        *)
(* reading of the names of the labels.  Next to a registration by another  *)
(* thread these are data races.  Of what a race may do, the model has what *)
(* it does to a hash map and a vector that are valid before and after: an  *)
(* entry that is there may be missed while another one is put in, and a    *)
(* vector that is being filled may be seen with any length it has in the   *)
(* meantime.  A map that a race leaves damaged is left out: operator[]     *)
(* would give an entry it misses a second, empty one.                      *)
(***************************************************************************)
EXTENDS Naturals, Sequences

CONSTANTS
    Threads,    \* the generator threads and the main thread
    Names,      \* the metrics
    Labels,     \* how many labels a push has
    NoThread,
    MaxPushes   \* bound on the pushes of a thread

ASSUME LabelsAssumption == Labels \in Nat \ {0}
ASSUME ThreadsAssumption == NoThread \notin Threads
ASSUME PushesAssumption == MaxPushes \in Nat

VARIABLES
    names,      \* the keys of _metrics
    labels,     \* labels[m]: the length of the vector _metrics[m]
    file,       \* file[m]: the lines of the file of m; none if _ofs has no m
    mutex,      \* the thread that holds _mutex
    at,         \* where a thread is in push and register_new
    metric,     \* what it pushes
    columns,    \* how many labels it put in its row
    \* History
    pushes,     \* how many pushes it has begun
    disturbed   \* whether another thread registered during its push

vars == <<names, labels, file, mutex, at, metric, columns, pushes, disturbed>>

Header == [header |-> TRUE, columns |-> Labels]
Row(n) == [header |-> FALSE, columns |-> n]
Lines == [header : BOOLEAN, columns : 0..Labels]

Places == {"idle", "find", "wait", "register", "label", "open", "look", "format", "write"}

\* A thread other than t is changing the maps.
Registering(t) == \E u \in Threads \ {t} : at[u] \in {"register", "label", "open"}

\* It may be putting an entry into _metrics.
Inserting(t) == \E u \in Threads \ {t} : at[u] = "register"

---------------------------------------------------------------------------
(* push *)

Push(t, m) ==
    /\ at[t] = "idle"
    /\ pushes[t] < MaxPushes
    /\ at' = [at EXCEPT ![t] = "find"]
    /\ metric' = [metric EXCEPT ![t] = m]
    /\ pushes' = [pushes EXCEPT ![t] = @ + 1]
    /\ disturbed' = [disturbed EXCEPT ![t] = Registering(t)]
    /\ UNCHANGED <<names, labels, file, mutex, columns>>

\* find, without the mutex.
Find(t) ==
    /\ at[t] = "find"
    /\ \/ /\ metric[t] \in names
          /\ at' = [at EXCEPT ![t] = "look"]
       \/ /\ metric[t] \notin names \/ Inserting(t)
          /\ at' = [at EXCEPT ![t] = "wait"]
    /\ UNCHANGED <<names, labels, file, mutex, metric, columns, pushes, disturbed>>

\* The scoped_lock around register_new.
Lock(t) ==
    /\ at[t] = "wait"
    /\ mutex = NoThread
    /\ mutex' = t
    /\ at' = [at EXCEPT ![t] = "register"]
    /\ disturbed' = [u \in Threads |-> disturbed[u] \/ (u # t /\ at[u] # "idle")]
    /\ UNCHANGED <<names, labels, file, metric, columns, pushes>>

\* Trusting the look at the map before the mutex.
KnownNever(t) == FALSE

\* Another thread has registered the metric in the meantime.
Known(t) == file[metric[t]] # <<>>

RegisterAgain(t) ==
    /\ at[t] = "register"
    /\ Known(t)
    /\ mutex' = NoThread
    /\ at' = [at EXCEPT ![t] = "look"]
    /\ UNCHANGED <<names, labels, file, metric, columns, pushes, disturbed>>

\* The metric gets its entry, with an empty vector.
Register(t) ==
    /\ at[t] = "register"
    /\ ~Known(t)
    /\ names' = names \cup {metric[t]}
    /\ labels' = [labels EXCEPT ![metric[t]] = 0]
    /\ at' = [at EXCEPT ![t] = "label"]
    /\ UNCHANGED <<file, mutex, metric, columns, pushes, disturbed>>

\* A label too many.
AddLabelBeyond(t) ==
    /\ at[t] = "label"
    /\ labels' = [labels EXCEPT ![metric[t]] = @ + 1]
    /\ at' = [at EXCEPT ![t] = IF labels'[metric[t]] > Labels THEN "open" ELSE "label"]
    /\ UNCHANGED <<names, file, mutex, metric, columns, pushes, disturbed>>

AddLabel(t) ==
    /\ at[t] = "label"
    /\ labels' = [labels EXCEPT ![metric[t]] = @ + 1]
    /\ at' = [at EXCEPT ![t] = IF labels'[metric[t]] = Labels THEN "open" ELSE "label"]
    /\ UNCHANGED <<names, file, mutex, metric, columns, pushes, disturbed>>

\* A first push that only registers the metric.
OpenOnly(t) ==
    /\ at[t] = "open"
    /\ file' = [file EXCEPT ![metric[t]] = Append(@, Header)]
    /\ mutex' = NoThread
    /\ at' = [at EXCEPT ![t] = "idle"]
    /\ UNCHANGED <<names, labels, metric, columns, pushes, disturbed>>

\* A registration that keeps the mutex.
OpenLocked(t) ==
    /\ at[t] = "open"
    /\ file' = [file EXCEPT ![metric[t]] = Append(@, Header)]
    /\ at' = [at EXCEPT ![t] = "look"]
    /\ UNCHANGED <<names, labels, mutex, metric, columns, pushes, disturbed>>

\* The file is opened, its header written, and the mutex given back.
Open(t) ==
    /\ at[t] = "open"
    /\ file' = [file EXCEPT ![metric[t]] = Append(@, Header)]
    /\ mutex' = NoThread
    /\ at' = [at EXCEPT ![t] = "look"]
    /\ UNCHANGED <<names, labels, metric, columns, pushes, disturbed>>

\* The labels a thread sees, each time it looks at them without the mutex.
Seen(t) == {labels[metric[t]]} \cup (IF Inserting(t) THEN {0} ELSE {})

\* Without any label push returns before the row is written.
Look(t) ==
    /\ at[t] = "look"
    /\ \E n \in Seen(t) : at' = [at EXCEPT ![t] = IF n = 0 THEN "idle" ELSE "format"]
    /\ UNCHANGED <<names, labels, file, mutex, metric, columns, pushes, disturbed>>

\* The row gets a column for each label that is there by now.
Format(t) ==
    /\ at[t] = "format"
    /\ \E n \in Seen(t) : columns' = [columns EXCEPT ![t] = n]
    /\ at' = [at EXCEPT ![t] = "write"]
    /\ UNCHANGED <<names, labels, file, mutex, metric, pushes, disturbed>>

\* A row that is written before the file is looked for.
WriteAnyway(t) ==
    /\ at[t] = "write"
    /\ file' = [file EXCEPT ![metric[t]] = Append(@, Row(columns[t]))]
    /\ at' = [at EXCEPT ![t] = "idle"]
    /\ UNCHANGED <<names, labels, mutex, metric, columns, pushes, disturbed>>

\* The row is written and flushed under the mutex.
Write(t) ==
    /\ at[t] = "write"
    /\ mutex = NoThread
    /\ file' = [file EXCEPT ![metric[t]] = Append(@, Row(columns[t]))]
    /\ at' = [at EXCEPT ![t] = "idle"]
    /\ UNCHANGED <<names, labels, mutex, metric, columns, pushes, disturbed>>

---------------------------------------------------------------------------
(* The specification *)

Init ==
    /\ names = {}
    /\ labels = [m \in Names |-> 0]
    /\ file = [m \in Names |-> <<>>]
    /\ mutex = NoThread
    /\ at = [t \in Threads |-> "idle"]
    /\ metric \in [Threads -> Names]
    /\ columns = [t \in Threads |-> 0]
    /\ pushes = [t \in Threads |-> 0]
    /\ disturbed = [t \in Threads |-> FALSE]

\* What a thread does once push has begun.
Step(t) ==
    \/ Find(t)
    \/ Lock(t)
    \/ RegisterAgain(t)
    \/ Register(t)
    \/ AddLabel(t)
    \/ Open(t)
    \/ Look(t)
    \/ Format(t)
    \/ Write(t)

Next == \E t \in Threads : Step(t) \/ \E m \in Names : Push(t, m)

Spec == Init /\ [][Next]_vars

\* A thread goes on with its push, and gets the mutex if it is free again and
\* again.
FairSpec == Spec /\ \A t \in Threads : SF_vars(Step(t))

---------------------------------------------------------------------------
(* Properties *)

TypeOK ==
    /\ names \subseteq Names
    /\ labels \in [Names -> 0..Labels]
    /\ file \in [Names -> Seq(Lines)]
    /\ mutex \in Threads \cup {NoThread}
    /\ at \in [Threads -> Places]
    /\ metric \in [Threads -> Names]
    /\ columns \in [Threads -> 0..Labels]
    /\ pushes \in [Threads -> 0..MaxPushes]
    /\ disturbed \in [Threads -> BOOLEAN]

\* Each file has one header, and nothing before it, although two threads may
\* both decide to register a metric, and a third may find it in the map before
\* its file is open (metrics.cc push, register_new).
OneHeaderFirst ==
    \A m \in Names : \A i \in DOMAIN file[m] : file[m][i].header <=> i = 1

\* A push that no registration by another thread overlaps gets its row, with
\* all columns.
UndisturbedRowsAreComplete ==
    [][\A t \in Threads :
          at[t] # "idle" /\ at'[t] = "idle" /\ ~disturbed[t]
          => file'[metric[t]] = Append(file[metric[t]], Row(Labels))]_vars

\* The files only grow.  A push creates the file of its metric once, with its
\* header, and leaves one row in no file but its own, behind the header; it may
\* come to nothing only when another thread pushes at the same time, whatever
\* that one does (metrics.cc push, register_new).
Log == INSTANCE MetricLog WITH
    Rows <- {Row(n) : n \in 0..Labels},
    pending <- [t \in Threads |-> IF at[t] = "idle" THEN {} ELSE {metric[t]}]

ImplementsLog == Log!Spec

\* Every push ends: the mutex is never kept.
PushesEnd == \A t \in Threads : at[t] # "idle" ~> at[t] = "idle"

---------------------------------------------------------------------------
(* What the code is meant to do, and does not *)

\* "A mapping between a metric name and its associated label names": a row has
\* a column for each of them.
RowsAreComplete ==
    \A m \in Names : \A i \in DOMAIN file[m] : file[m][i].columns = Labels
=============================================================================
