------------------------------ MODULE MetricLog ------------------------------
(***************************************************************************)
(* What the metrics promise to the threads that push to them and to those  *)
(* who read the files later: a file per metric that only grows.  Whoever   *)
(* pushes may create the file with its header, once, and leaves one row in *)
(* the file of its own metric, behind the header.  It may fail to leave    *)
(* one only when it is not the only one to push.                           *)
(***************************************************************************)
EXTENDS Sequences

CONSTANTS Threads,   \* those who push
          Names,     \* the metrics
          Header,    \* the first line of a file
          Rows       \* the lines a push may leave

VARIABLES file,      \* file[m]: the lines of the file of m, if it is there
          pending    \* pending[t]: the metric that t is pushing, if any

Init == /\ file = [m \in Names |-> <<>>]
        /\ pending = [t \in Threads |-> {}]

\* t begins to push m.
Begin(t, m) == /\ pending[t] = {}
               /\ pending' = [pending EXCEPT ![t] = {m}]
               /\ UNCHANGED file

\* The file of the metric gets its header.
Create(t) == /\ \E m \in pending[t] :
                   /\ file[m] = <<>>
                   /\ file' = [file EXCEPT ![m] = Append(@, Header)]
             /\ UNCHANGED pending

\* The push ends with its row in the file.
Leave(t) == /\ \E m \in pending[t], row \in Rows :
                  /\ file[m] # <<>>
                  /\ file' = [file EXCEPT ![m] = Append(@, row)]
            /\ pending' = [pending EXCEPT ![t] = {}]

\* The push ends without a row, since another one got in its way.
Miss(t) == /\ pending[t] # {}
           /\ \E u \in Threads \ {t} : pending[u] # {}
           /\ pending' = [pending EXCEPT ![t] = {}]
           /\ UNCHANGED file

Next == \E t \in Threads :
           \/ \E m \in Names : Begin(t, m)
           \/ Create(t)
           \/ Leave(t)
           \/ Miss(t)

Spec == Init /\ [][Next]_<<file, pending>>
=============================================================================
