---------------------------- MODULE MetricsProofs ----------------------------
(***************************************************************************)
(* Proofs about Metrics, for any number of threads, metrics and labels.    *)
(*                                                                         *)
(* The invariant says who is where while the mutex is held (Owner), what a *)
(* registration has brought about at each of its points (Opening, Filling),*)
(* that a metric in the map either has its file and all its labels or is   *)
(* being registered right now (Opened), and what a push knows of it        *)
(* (Noted).  A thread that was not disturbed has nobody registering next   *)
(* to it (Quiet), so that the labels it saw were all of them (Whole).      *)
(***************************************************************************)
EXTENDS Metrics, TLAPS

Inside(t) == at[t] \in {"register", "label", "open"}
Opens(t) == at[t] \in {"label", "open"}

Owner == \A t \in Threads : Inside(t) <=> mutex = t

Opening == \A t \in Threads : Opens(t) => file[metric[t]] = <<>> /\ metric[t] \in names

Filling ==
    \A t \in Threads :
        /\ at[t] = "label" => labels[metric[t]] < Labels
        /\ at[t] = "open" => labels[metric[t]] = Labels

Opened ==
    \A m \in names :
        \/ file[m] # <<>> /\ labels[m] = Labels
        \/ \E t \in Threads : Opens(t) /\ metric[t] = m

Named == \A m \in Names : file[m] # <<>> => m \in names

Noted ==
    \A t \in Threads :
        at[t] \in {"look", "format", "write"} => metric[t] \in names

Quiet == \A t \in Threads : at[t] # "idle" /\ ~disturbed[t] => ~Registering(t)

Whole == \A t \in Threads : at[t] = "write" /\ ~disturbed[t] => columns[t] = Labels

MInv ==
    /\ TypeOK /\ Owner /\ Opening /\ Filling /\ Opened
    /\ Named /\ Noted /\ Quiet /\ Whole /\ OneHeaderFirst

USE LabelsAssumption, ThreadsAssumption, PushesAssumption DEF Places

---------------------------------------------------------------------------
(* Before anything is pushed nobody is inside, and no metric has a file. *)
LEMMA Initially == Init => MInv
BY DEF Init, MInv, TypeOK, Owner, Inside, Opening, Opens, Filling, Opened, Named, Noted,
       Quiet, Whole, OneHeaderFirst

(* A step that neither lets a thread in nor begins a push disturbs nobody. *)
LEMMA QuietStays ==
    ASSUME Quiet,
           disturbed' = disturbed,
           \A u \in Threads : Inside(u)' => Inside(u),
           \A u \in Threads : at'[u] # "idle" => at[u] # "idle"
    PROVE  Quiet'
<1>1. \A u \in Threads : Registering(u)' => Registering(u)
  BY DEF Registering, Inside
<1> QED
  BY <1>1 DEF Quiet

(* A push begins, and looks whether the metric is there. *)
LEMMA PushKeeps ==
    ASSUME MInv, NEW t \in Threads, NEW m \in Names, Push(t, m)
    PROVE MInv'
<1> USE DEF MInv, Push
<1>1. TypeOK'
  <2>1. pushes'[t] = pushes[t] + 1 /\ pushes[t] + 1 \in 0..MaxPushes
    BY DEF TypeOK
  <2>2. pushes' \in [Threads -> 0..MaxPushes]
    BY <2>1 DEF TypeOK
  <2>3. disturbed' \in [Threads -> BOOLEAN]
    BY Zenon DEF TypeOK, Registering
  <2> QED
    BY <2>2, <2>3 DEF TypeOK
<1>2. Owner' /\ Opening' /\ Filling' /\ Named' /\ Noted'
  <2>1. Owner'
    BY DEF TypeOK, Owner, Inside
  <2>2. Opening' /\ Filling'
    BY DEF TypeOK, Opening, Opens, Filling
  <2>3. Named' /\ Noted'
    BY DEF TypeOK, Named, Noted
  <2> QED
    BY <2>1, <2>2, <2>3
<1>3. Opened'
  BY DEF TypeOK, Opened, Opens
<1>4. Quiet' /\ Whole'
  <2>1. Quiet'
    <3>1. \A u \in Threads : Registering(u)' <=> Registering(u)
      BY DEF TypeOK, Registering
    <3>2. disturbed'[t] = Registering(t)
      BY DEF TypeOK
    <3>3. \A u \in Threads \ {t} : at'[u] = at[u] /\ disturbed'[u] = disturbed[u]
      BY DEF TypeOK
    <3> QED
      BY <3>1, <3>2, <3>3 DEF Quiet
  <2>2. Whole'
    BY DEF TypeOK, Whole
  <2> QED
    BY <2>1, <2>2
<1>5. OneHeaderFirst'
  BY DEF OneHeaderFirst
<1> QED
  BY <1>1, <1>2, <1>3, <1>4, <1>5

LEMMA FindKeeps ==
    ASSUME MInv, NEW t \in Threads, Find(t)
    PROVE MInv'
<1> USE DEF MInv, Find
<1>1. TypeOK'
  BY DEF TypeOK
<1>2. Owner' /\ Opening' /\ Filling' /\ Named' /\ Noted'
  <2>1. Owner'
    BY DEF TypeOK, Owner, Inside
  <2>2. Opening' /\ Filling'
    BY DEF TypeOK, Opening, Opens, Filling
  <2>3. Named' /\ Noted'
    BY DEF TypeOK, Named, Noted
  <2> QED
    BY <2>1, <2>2, <2>3
<1>3. Opened'
  BY DEF TypeOK, Opened, Opens
<1>4. Quiet' /\ Whole'
  <2>1. Quiet'
    <3>1. \A u \in Threads : Inside(u)' => Inside(u)
      BY DEF TypeOK, Inside
    <3>2. \A u \in Threads : at'[u] # "idle" => at[u] # "idle"
      BY DEF TypeOK
    <3> QED
      BY <3>1, <3>2, QuietStays
  <2>2. Whole'
    BY DEF TypeOK, Whole
  <2> QED
    BY <2>1, <2>2
<1>5. OneHeaderFirst'
  BY DEF OneHeaderFirst
<1> QED
  BY <1>1, <1>2, <1>3, <1>4, <1>5

(* Whoever gets the mutex disturbs every push that is going on. *)
LEMMA LockKeeps ==
    ASSUME MInv, NEW t \in Threads, Lock(t)
    PROVE MInv'
<1> USE DEF MInv, Lock
<1>1. TypeOK'
  BY DEF TypeOK
<1>2. Owner' /\ Opening' /\ Filling' /\ Named' /\ Noted'
  <2>1. Owner'
    BY DEF TypeOK, Owner, Inside
  <2>2. Opening' /\ Filling'
    BY DEF TypeOK, Opening, Opens, Filling
  <2>3. Named' /\ Noted'
    BY DEF TypeOK, Named, Noted
  <2> QED
    BY <2>1, <2>2, <2>3
<1>3. Opened'
  BY DEF TypeOK, Opened, Opens
<1>4. Quiet' /\ Whole'
  <2>1. Quiet'
    <3>1. \A u \in Threads \ {t} : at'[u] = at[u] /\ ~Inside(u)'
      BY DEF TypeOK, Owner, Inside
    <3>2. ~Registering(t)'
      BY <3>1 DEF Registering, Inside
    <3>3. \A u \in Threads \ {t} : at'[u] # "idle" => disturbed'[u]
      BY <3>1 DEF TypeOK
    <3> QED
      BY <3>2, <3>3 DEF Quiet
  <2>2. Whole'
    BY DEF TypeOK, Whole
  <2> QED
    BY <2>1, <2>2
<1>5. OneHeaderFirst'
  BY DEF OneHeaderFirst
<1> QED
  BY <1>1, <1>2, <1>3, <1>4, <1>5

LEMMA RegisterAgainKeeps ==
    ASSUME MInv, NEW t \in Threads, RegisterAgain(t)
    PROVE MInv'
<1> USE DEF MInv, RegisterAgain, Known
<1>1. TypeOK'
  BY DEF TypeOK
<1>2. Owner' /\ Opening' /\ Filling' /\ Named' /\ Noted'
  <2>1. Owner'
    BY DEF TypeOK, Owner, Inside
  <2>2. Opening' /\ Filling'
    BY DEF TypeOK, Opening, Opens, Filling
  <2>3. Named' /\ Noted'
    BY DEF TypeOK, Named, Noted
  <2> QED
    BY <2>1, <2>2, <2>3
<1>3. Opened'
  BY DEF TypeOK, Opened, Opens
<1>4. Quiet' /\ Whole'
  <2>1. Quiet'
    <3>1. \A u \in Threads : Inside(u)' => Inside(u)
      BY DEF TypeOK, Inside
    <3>2. \A u \in Threads : at'[u] # "idle" => at[u] # "idle"
      BY DEF TypeOK
    <3> QED
      BY <3>1, <3>2, QuietStays
  <2>2. Whole'
    BY DEF TypeOK, Whole
  <2> QED
    BY <2>1, <2>2
<1>5. OneHeaderFirst'
  BY DEF OneHeaderFirst
<1> QED
  BY <1>1, <1>2, <1>3, <1>4, <1>5

(* The registration proper: nobody else is inside, so that what the owner of *)
(* the mutex does to a metric meets no other registration of it.             *)
LEMMA RegisterKeeps ==
    ASSUME MInv, NEW t \in Threads, Register(t)
    PROVE MInv'
<1> USE DEF MInv, Register, Known
<1>1. TypeOK'
  <2>1. labels' \in [Names -> 0..Labels]
    BY DEF TypeOK
  <2>2. names' \subseteq Names
    BY DEF TypeOK
  <2> QED
    BY <2>1, <2>2 DEF TypeOK
<1>2. Owner' /\ Opening' /\ Named' /\ Noted'
  BY DEF TypeOK, Owner, Inside, Opening, Opens, Named, Noted
<1>3. Filling'
  BY DEF TypeOK, Owner, Inside, Filling
<1>4. Opened'
  <2>1. ASSUME NEW m \in names', m # metric[t]
        PROVE (file[m] # <<>> /\ labels[m] = Labels)' \/ (\E u \in Threads : Opens(u) /\ metric[u] = m)'
    BY <2>1 DEF TypeOK, Opened, Opens
  <2>2. (Opens(t) /\ metric[t] = metric[t])'
    BY DEF TypeOK, Opens
  <2> QED
    BY <2>1, <2>2 DEF Opened
<1>5. Quiet' /\ Whole'
  <2>1. Quiet'
    <3>1. \A u \in Threads : Inside(u)' => Inside(u)
      BY DEF TypeOK, Inside
    <3>2. \A u \in Threads : at'[u] # "idle" => at[u] # "idle"
      BY DEF TypeOK
    <3> QED
      BY <3>1, <3>2, QuietStays
  <2>2. Whole'
    BY DEF TypeOK, Whole
  <2> QED
    BY <2>1, <2>2
<1>6. OneHeaderFirst'
  BY DEF OneHeaderFirst
<1> QED
  BY <1>1, <1>2, <1>3, <1>4, <1>5, <1>6

LEMMA AddLabelKeeps ==
    ASSUME MInv, NEW t \in Threads, AddLabel(t)
    PROVE MInv'
<1> USE DEF MInv, AddLabel
<1>0. metric[t] \in Names /\ labels'[metric[t]] = labels[metric[t]] + 1 /\ labels[metric[t]] < Labels
  BY DEF TypeOK, Filling
<1>1. TypeOK'
  <2>1. labels[metric[t]] + 1 \in 0..Labels
    BY <1>0 DEF TypeOK
  <2>2. labels' \in [Names -> 0..Labels]
    BY <2>1 DEF TypeOK
  <2> QED
    BY <2>2 DEF TypeOK
<1>2. Owner' /\ Opening' /\ Named' /\ Noted'
  BY DEF TypeOK, Owner, Inside, Opening, Opens, Named, Noted
<1>3. Filling'
  <2>1. \A u \in Threads : at'[u] \in {"label", "open"} => u = t
    BY DEF TypeOK, Owner, Inside
  <2>2. metric'[t] = metric[t] /\ (at'[t] = "open" <=> labels'[metric[t]] = Labels)
    BY DEF TypeOK
  <2>3. labels'[metric[t]] # Labels => labels'[metric[t]] < Labels
    BY <1>0 DEF TypeOK
  <2> QED
    BY <2>1, <2>2, <2>3 DEF TypeOK, Filling
<1>4. Opened'
  <2>1. ASSUME NEW m \in names', m # metric[t]
        PROVE (file[m] # <<>> /\ labels[m] = Labels)' \/ (\E u \in Threads : Opens(u) /\ metric[u] = m)'
    BY <2>1 DEF TypeOK, Opened, Opens
  <2>2. (Opens(t) /\ metric[t] = metric[t])'
    BY DEF TypeOK, Opens
  <2> QED
    BY <2>1, <2>2 DEF Opened
<1>5. Quiet' /\ Whole'
  <2>1. Quiet'
    <3>1. \A u \in Threads : Inside(u)' => Inside(u)
      BY DEF TypeOK, Inside
    <3>2. \A u \in Threads : at'[u] # "idle" => at[u] # "idle"
      BY DEF TypeOK
    <3> QED
      BY <3>1, <3>2, QuietStays
  <2>2. Whole'
    BY DEF TypeOK, Whole
  <2> QED
    BY <2>1, <2>2
<1>6. OneHeaderFirst'
  BY DEF OneHeaderFirst
<1> QED
  BY <1>1, <1>2, <1>3, <1>4, <1>5, <1>6

LEMMA OpenKeeps ==
    ASSUME MInv, NEW t \in Threads, Open(t)
    PROVE MInv'
<1> USE DEF MInv, Open
<1>0. /\ metric[t] \in Names
      /\ file'[metric[t]] = <<Header>>
      /\ \A m \in Names \ {metric[t]} : file'[m] = file[m]
  <2>1. file[metric[t]] = <<>> /\ Append(<<>>, Header) = <<Header>>
    BY DEF Opening, Opens
  <2> QED
    BY <2>1 DEF TypeOK
<1>1. TypeOK'
  <2>1. <<Header>> \in Seq(Lines)
    BY DEF Header, Lines
  <2>2. file' \in [Names -> Seq(Lines)]
    BY <1>0, <2>1 DEF TypeOK
  <2> QED
    BY <2>2 DEF TypeOK
<1>2. Owner' /\ Opening' /\ Filling' /\ Named' /\ Noted'
  <2>1. Owner' /\ \A u \in Threads : ~Opens(u)'
    BY DEF TypeOK, Owner, Inside, Opens
  <2> QED
    BY <1>0, <2>1 DEF TypeOK, Opening, Opens, Filling, Named, Noted
<1>3. Opened'
  <2>1. ASSUME NEW m \in names
        PROVE file'[m] # <<>> /\ labels'[m] = Labels
    <3>1. CASE m = metric[t]
      <4>1. at[t] = "open" /\ labels' = labels
        OBVIOUS
      <4>2. labels[metric[t]] = Labels
        BY <4>1 DEF Filling
      <4>3. <<Header>> # <<>>
        OBVIOUS
      <4> QED
        BY ONLY <1>0, <3>1, <4>1, <4>2, <4>3
    <3>2. CASE m # metric[t]
      <4>1. \A u \in Threads : Opens(u) => u = t
        BY DEF Owner, Inside, Opens
      <4> QED
        BY <1>0, <3>2, <4>1 DEF TypeOK, Opened
    <3> QED
      BY <3>1, <3>2
  <2> QED
    BY <2>1 DEF Opened
<1>4. Quiet' /\ Whole'
  <2>1. Quiet'
    <3>1. \A u \in Threads : Inside(u)' => Inside(u)
      BY DEF TypeOK, Inside
    <3>2. \A u \in Threads : at'[u] # "idle" => at[u] # "idle"
      BY DEF TypeOK
    <3> QED
      BY <3>1, <3>2, QuietStays
  <2>2. Whole'
    BY DEF TypeOK, Whole
  <2> QED
    BY <2>1, <2>2
<1>5. OneHeaderFirst'
  <2>1. \A i \in DOMAIN <<Header>> : <<Header>>[i].header <=> i = 1
    BY DEF Header
  <2> QED
    BY <1>0, <2>1 DEF OneHeaderFirst
<1> QED
  BY <1>1, <1>2, <1>3, <1>4, <1>5

(* A push that is not disturbed sees all labels: nobody is inside, so the *)
(* metric it found is fully registered.                                   *)
LEMMA AllAreSeen ==
    ASSUME MInv, NEW t \in Threads, at[t] \in {"look", "format"}, NEW n \in Seen(t)
    PROVE  n \in 0..Labels /\ (~disturbed[t] => n = Labels)
<1> USE DEF MInv
<1>1. n \in 0..Labels
  BY DEF Seen, TypeOK
<1>2. ASSUME ~disturbed[t] PROVE n = Labels
  <2>1. ~Registering(t)
    BY <1>2 DEF Quiet
  <2>2. \A u \in Threads : ~Opens(u)
    BY <2>1 DEF Registering, Opens
  <2>3. labels[metric[t]] = Labels
    BY <2>2 DEF Opened, Noted
  <2> QED
    BY <2>1, <2>3 DEF Seen, Inserting, Registering
<1> QED
  BY <1>1, <1>2

(* It goes on to its row. *)
LEMMA LookKeeps ==
    ASSUME MInv, NEW t \in Threads, Look(t)
    PROVE MInv' /\ (~disturbed[t] => at'[t] = "format")
<1> USE DEF MInv, Look
<1>0. PICK n \in Seen(t) : at' = [at EXCEPT ![t] = IF n = 0 THEN "idle" ELSE "format"]
  OBVIOUS
<1>1. n \in 0..Labels /\ (~disturbed[t] => n = Labels)
  BY AllAreSeen
<1>2. TypeOK'
  BY <1>0 DEF TypeOK
<1>3. Owner' /\ Opening' /\ Filling' /\ Named' /\ Noted'
  BY <1>0 DEF TypeOK, Owner, Inside, Opening, Opens, Filling, Named, Noted
<1>4. Opened'
  BY <1>0 DEF TypeOK, Opened, Opens
<1>5. Quiet' /\ Whole'
  <2>1. \A u \in Threads : Inside(u)' => Inside(u)
    BY <1>0 DEF TypeOK, Inside
  <2>2. \A u \in Threads : at'[u] # "idle" => at[u] # "idle"
    BY <1>0 DEF TypeOK
  <2>3. Whole'
    BY <1>0 DEF TypeOK, Whole
  <2> QED
    BY <2>1, <2>2, <2>3, QuietStays
<1>6. OneHeaderFirst'
  BY DEF OneHeaderFirst
<1>7. ~disturbed[t] => at'[t] = "format"
  BY <1>0, <1>1 DEF TypeOK
<1> QED
  BY <1>2, <1>3, <1>4, <1>5, <1>6, <1>7

LEMMA FormatKeeps ==
    ASSUME MInv, NEW t \in Threads, Format(t)
    PROVE MInv'
<1> USE DEF MInv, Format
<1>0. PICK n \in Seen(t) :
         /\ columns' = [columns EXCEPT ![t] = n]
         /\ at' = [at EXCEPT ![t] = "write"]
  OBVIOUS
<1>1. n \in 0..Labels /\ (~disturbed[t] => n = Labels)
  BY AllAreSeen
<1>2. TypeOK'
  BY <1>0, <1>1 DEF TypeOK
<1>3. Owner' /\ Opening' /\ Filling' /\ Named' /\ Noted'
  BY <1>0 DEF TypeOK, Owner, Inside, Opening, Opens, Filling, Named, Noted
<1>4. Opened'
  BY <1>0 DEF TypeOK, Opened, Opens
<1>5. Quiet' /\ Whole'
  <2>1. \A u \in Threads : Inside(u)' => Inside(u)
    BY <1>0 DEF TypeOK, Inside
  <2>2. \A u \in Threads : at'[u] # "idle" => at[u] # "idle"
    BY <1>0 DEF TypeOK
  <2>3. Whole'
    BY <1>0, <1>1 DEF TypeOK, Whole
  <2> QED
    BY <2>1, <2>2, <2>3, QuietStays
<1>6. OneHeaderFirst'
  BY DEF OneHeaderFirst
<1> QED
  BY <1>2, <1>3, <1>4, <1>5, <1>6

(* A row is written while the mutex is free, so nobody is between the entry *)
(* of the metric in the map and its header.                                 *)
LEMMA WriteKeeps ==
    ASSUME MInv, NEW t \in Threads, Write(t)
    PROVE MInv'
<1> USE DEF MInv, Write
<1>0. /\ metric[t] \in Names
      /\ file[metric[t]] # <<>>
      /\ file'[metric[t]] = Append(file[metric[t]], Row(columns[t]))
      /\ \A m \in Names \ {metric[t]} : file'[m] = file[m]
      /\ file[metric[t]] \in Seq(Lines)
      /\ Row(columns[t]) \in Lines
  <2>1. \A u \in Threads : ~Opens(u)
    BY DEF Owner, Inside, Opens
  <2>2. file[metric[t]] # <<>>
    BY <2>1 DEF Noted, Opened
  <2>3. columns[t] \in 0..Labels
    BY DEF TypeOK
  <2> QED
    BY <2>2, <2>3 DEF TypeOK, Row, Lines
<1>1. TypeOK'
  <2>1. file'[metric[t]] \in Seq(Lines)
    BY <1>0
  <2>2. file' \in [Names -> Seq(Lines)]
    BY <1>0, <2>1 DEF TypeOK
  <2> QED
    BY <2>2 DEF TypeOK
<1>2. Owner' /\ Opening' /\ Filling' /\ Named' /\ Noted'
  <2>1. \A u \in Threads : ~Inside(u) /\ ~Inside(u)'
    BY DEF TypeOK, Owner, Inside
  <2>2. Owner' /\ Opening' /\ Filling'
    BY <2>1 DEF Owner, Inside, Opening, Opens, Filling
  <2>3. Named' /\ Noted'
    BY <1>0 DEF TypeOK, Named, Noted
  <2> QED
    BY <2>2, <2>3
<1>3. Opened'
  <2>1. ASSUME NEW m \in names
        PROVE file'[m] # <<>> /\ labels[m] = Labels
    <3>1. \A u \in Threads : ~Opens(u)
      BY DEF Owner, Inside, Opens
    <3>2. file[m] # <<>> /\ labels[m] = Labels /\ m \in Names
      BY <3>1 DEF Opened, TypeOK
    <3>3. Append(file[metric[t]], Row(columns[t])) # <<>>
      BY <1>0
    <3> QED
      BY <1>0, <3>2, <3>3
  <2> QED
    BY <2>1 DEF Opened
<1>4. Quiet' /\ Whole'
  <2>1. Quiet'
    <3>1. \A u \in Threads : Inside(u)' => Inside(u)
      BY DEF TypeOK, Inside
    <3>2. \A u \in Threads : at'[u] # "idle" => at[u] # "idle"
      BY DEF TypeOK
    <3> QED
      BY <3>1, <3>2, QuietStays
  <2>2. Whole'
    BY DEF TypeOK, Whole
  <2> QED
    BY <2>1, <2>2
<1>5. OneHeaderFirst'
  <2>1. \A i \in DOMAIN file'[metric[t]] : file'[metric[t]][i].header <=> i = 1
    <3> DEFINE f == file[metric[t]]
               r == Row(columns[t])
    <3>1. f # <<>> /\ f \in Seq(Lines)
      BY <1>0
    <3>2. Len(f) # 0 /\ \A i \in 1..Len(f) : f[i].header <=> i = 1
      BY <3>1, <1>0 DEF OneHeaderFirst
    <3>3. ~r.header
      BY DEF Row
    <3> HIDE DEF f, r
    <3>4. \A i \in DOMAIN Append(f, r) : Append(f, r)[i].header <=> i = 1
      <4>1. Len(Append(f, r)) = Len(f) + 1 /\ Append(f, r)[Len(f) + 1] = r
        BY <3>1, <1>0 DEF r
      <4>2. \A i \in 1..Len(f) : Append(f, r)[i] = f[i]
        BY <3>1
      <4>3. DOMAIN Append(f, r) = 1..(Len(f) + 1) /\ Len(f) \in Nat
        BY <3>1, <4>1
      <4> QED
        BY <3>2, <3>3, <4>1, <4>2, <4>3
    <3> QED
      BY <1>0, <3>4 DEF f, r
  <2> QED
    BY <1>0, <2>1 DEF OneHeaderFirst
<1> QED
  BY <1>1, <1>2, <1>3, <1>4, <1>5

(* Every step keeps the invariant. *)
LEMMA Steps == MInv /\ [Next]_vars => MInv'
<1> SUFFICES ASSUME MInv, [Next]_vars PROVE MInv'
  OBVIOUS
<1>1. CASE UNCHANGED vars
  BY <1>1 DEF vars, MInv, TypeOK, Owner, Inside, Opening, Opens, Filling, Opened, Named,
       Noted, Quiet, Registering, Whole, OneHeaderFirst
<1>2. ASSUME NEW t \in Threads, NEW m \in Names, Push(t, m) PROVE MInv'
  BY <1>2, PushKeeps
<1>3. ASSUME NEW t \in Threads, Step(t) PROVE MInv'
  BY <1>3, FindKeeps, LockKeeps, RegisterAgainKeeps, RegisterKeeps, AddLabelKeeps, OpenKeeps,
     LookKeeps, FormatKeeps, WriteKeeps DEF Step
<1> QED
  BY <1>1, <1>2, <1>3 DEF Next

(* What a push of metrics.cc relies on, at every point of every interleaving. *)
THEOREM MetricsInvariance == Spec => []MInv
BY Initially, Steps, PTL DEF Spec

(* A metric never has more labels than there are, nor a push more columns, *)
(* and the mutex is free or with one thread (metrics.cc push).             *)
THEOREM MetricsTypeCorrect == Spec => []TypeOK
<1>1. MInv => TypeOK
  BY DEF MInv
<1> QED
  BY MetricsInvariance, <1>1, PTL

(* However the first pushes of a metric overlap, its file has its header *)
(* first and once (metrics.cc push, register_new).                       *)
THEOREM HeadersComeFirst == Spec => []OneHeaderFirst
<1>1. MInv => OneHeaderFirst
  BY DEF MInv
<1> QED
  BY MetricsInvariance, <1>1, PTL

(* A step that ends an undisturbed push has appended its row, in full. *)
LEMMA RowAtTheEnd ==
    ASSUME MInv, [Next]_vars
    PROVE [\A t \in Threads :
             at[t] # "idle" /\ at'[t] = "idle" /\ ~disturbed[t]
             => file'[metric[t]] = Append(file[metric[t]], Row(Labels))]_vars
<1> SUFFICES ASSUME Next, NEW t \in Threads, at[t] # "idle", at'[t] = "idle", ~disturbed[t]
             PROVE file'[metric[t]] = Append(file[metric[t]], Row(Labels))
  OBVIOUS
<1>1. ASSUME NEW u \in Threads, NEW m \in Names, Push(u, m) PROVE FALSE
  BY <1>1 DEF MInv, TypeOK, Push
<1>2. PICK u \in Threads : Step(u)
  BY <1>1 DEF Next
<1>3. CASE Write(u)
  BY <1>3 DEF MInv, TypeOK, Whole, Write
<1>4. CASE Look(u)
  BY <1>4, LookKeeps DEF MInv, TypeOK, Look
<1>5. CASE Find(u) \/ Lock(u) \/ RegisterAgain(u) \/ Register(u) \/ AddLabel(u) \/ Open(u)
           \/ Format(u)
  BY <1>5 DEF MInv, TypeOK, Find, Lock, RegisterAgain, Register, AddLabel, Open, Format
<1> QED
  BY <1>2, <1>3, <1>4, <1>5 DEF Step

(* A push that no registration overlaps leaves its row, with a column for *)
(* every label (metrics.cc push).                                         *)
THEOREM UndisturbedPushesWriteTheirRow == Spec => UndisturbedRowsAreComplete
<1>1. MInv /\ [Next]_vars => [\A t \in Threads :
             at[t] # "idle" /\ at'[t] = "idle" /\ ~disturbed[t]
             => file'[metric[t]] = Append(file[metric[t]], Row(Labels))]_vars
  BY RowAtTheEnd
<1> QED
  BY MetricsInvariance, <1>1, PTL DEF Spec, UndisturbedRowsAreComplete

---------------------------------------------------------------------------
(* The refinement of MetricLog *)

\* What a thread is pushing, as MetricLog sees it.
Pending == [t \in Threads |-> IF at[t] = "idle" THEN {} ELSE {metric[t]}]

\* A step of a thread within its push leaves what is pushed, by whomever.
LEMMA PushGoesOn ==
    ASSUME NEW t \in Threads, at[t] # "idle", metric' = metric,
           \E p \in Places \ {"idle"} : at' = [at EXCEPT ![t] = p]
    PROVE  Pending' = Pending
<1>1. \A u \in Threads : (at'[u] = "idle") <=> (at[u] = "idle")
  OBVIOUS
<1> QED
  BY <1>1 DEF Pending

\* At its end nothing of it is left, and the other pushes are as they were.
LEMMA PushIsOver ==
    ASSUME TypeOK, NEW t \in Threads, at[t] # "idle", metric' = metric,
           at' = [at EXCEPT ![t] = "idle"]
    PROVE  Pending' = [Pending EXCEPT ![t] = {}] /\ Pending[t] = {metric[t]}
<1>1. \A u \in Threads \ {t} : at'[u] = at[u]
  BY DEF TypeOK
<1>2. at'[t] = "idle"
  BY DEF TypeOK
<1> QED
  BY <1>1, <1>2 DEF Pending

LEMMA PushBegins ==
    ASSUME MInv, NEW t \in Threads, NEW m \in Names, Push(t, m)
    PROVE  Log!Next
<1>1. \A u \in Threads \ {t} : at'[u] = at[u] /\ metric'[u] = metric[u]
  BY DEF MInv, TypeOK, Push
<1>2. at[t] = "idle" /\ at'[t] = "find" /\ metric'[t] = m /\ file' = file
  BY DEF MInv, TypeOK, Push
<1>3. Pending[t] = {} /\ Pending' = [Pending EXCEPT ![t] = {m}]
  BY <1>1, <1>2 DEF Pending
<1>4. Log!Begin(t, m)
  BY <1>2, <1>3 DEF Log!Begin, Pending
<1> QED
  BY <1>4 DEF Log!Next

\* The steps that neither write nor end a push are none of MetricLog's.
LEMMA PushStutters ==
    ASSUME MInv, NEW t \in Threads,
           Find(t) \/ Lock(t) \/ RegisterAgain(t) \/ Register(t) \/ AddLabel(t) \/ Format(t)
    PROVE  UNCHANGED <<file, Pending>>
<1>1. at[t] # "idle" /\ metric' = metric /\ file' = file
  BY DEF Find, Lock, RegisterAgain, Register, AddLabel, Format
<1>2. \E p \in Places \ {"idle"} : at' = [at EXCEPT ![t] = p]
  BY DEF Find, Lock, RegisterAgain, Register, AddLabel, Format
<1> QED
  BY <1>1, <1>2, PushGoesOn

\* The owner of the mutex finds no file, since Opening.
LEMMA OpenCreates ==
    ASSUME MInv, NEW t \in Threads, Open(t)
    PROVE  Log!Next
<1>1. Pending' = Pending
  <2>1. at[t] # "idle" /\ metric' = metric /\ at' = [at EXCEPT ![t] = "look"]
    BY DEF Open
  <2> QED
    BY <2>1, PushGoesOn
<1>2. metric[t] \in Pending[t]
  BY DEF Pending, Open
<1>3. file[metric[t]] = <<>>
  BY DEF MInv, Opening, Opens, Open
<1>4. file' = [file EXCEPT ![metric[t]] = Append(@, Header)]
  BY DEF Open
<1>5. Log!Create(t)
  BY <1>1, <1>2, <1>3, <1>4 DEF Log!Create, Pending
<1> QED
  BY <1>5 DEF Log!Next

\* A push without a row has seen no label at all, which the registration of
\* another thread is to blame for.
LEMMA LookMisses ==
    ASSUME MInv, NEW t \in Threads, Look(t)
    PROVE  Log!Next \/ UNCHANGED <<file, Pending>>
<1>1. PICK n \in Seen(t) :
         at' = [at EXCEPT ![t] = IF n = 0 THEN "idle" ELSE "format"]
  BY DEF Look
<1>2. at[t] = "look" /\ metric' = metric /\ file' = file
  BY DEF Look
<1>3. CASE n # 0
  <2>1. at' = [at EXCEPT ![t] = "format"]
    BY <1>1, <1>3
  <2> QED
    BY <1>2, <2>1, PushGoesOn
<1>4. CASE n = 0
  <2>1. \E u \in Threads \ {t} : at[u] # "idle"
    <3>1. CASE Registering(t)
      BY <3>1 DEF Registering
    <3>2. CASE ~Registering(t)
      <4>1. labels[metric[t]] = 0
        BY <1>1, <1>4, <3>2 DEF Seen, Inserting, Registering
      <4>2. PICK u \in Threads : Opens(u)
        BY <1>2, <4>1 DEF MInv, Noted, Opened
      <4> QED
        BY <1>2, <3>2, <4>2 DEF Opens, Registering
    <3> QED
      BY <3>1, <3>2
  <2>2. at' = [at EXCEPT ![t] = "idle"]
    BY <1>1, <1>4
  <2>3. Pending' = [Pending EXCEPT ![t] = {}] /\ Pending[t] = {metric[t]}
    BY <1>2, <2>2, PushIsOver DEF MInv
  <2>4. \E u \in Threads \ {t} : Pending[u] # {}
    BY <2>1 DEF Pending
  <2>5. Log!Miss(t)
    BY <1>2, <2>3, <2>4 DEF Log!Miss, Pending
  <2> QED
    BY <2>5 DEF Log!Next
<1> QED
  BY <1>3, <1>4

\* Nobody is registering while the mutex is free, so that a metric in the map
\* has its file.
LEMMA WriteLeaves ==
    ASSUME MInv, NEW t \in Threads, Write(t)
    PROVE  Log!Next
<1>1. at[t] = "write" /\ metric' = metric /\ at' = [at EXCEPT ![t] = "idle"]
  BY DEF Write
<1>2. Pending' = [Pending EXCEPT ![t] = {}] /\ Pending[t] = {metric[t]}
  BY <1>1, PushIsOver DEF MInv
<1>3. file[metric[t]] # <<>>
  <2>1. \A u \in Threads : ~Opens(u)
    BY DEF MInv, Owner, Inside, Opens, Write
  <2> QED
    BY <1>1, <2>1 DEF MInv, Noted, Opened
<1>4. Row(columns[t]) \in {Row(n) : n \in 0..Labels}
  <2>1. columns[t] \in 0..Labels
    BY <1>1 DEF MInv, TypeOK
  <2> QED
    BY <2>1
<1>5. file' = [file EXCEPT ![metric[t]] = Append(@, Row(columns[t]))]
  BY DEF Write
<1>6. Log!Leave(t)
  BY <1>2, <1>3, <1>4, <1>5 DEF Log!Leave, Pending
<1> QED
  BY <1>6 DEF Log!Next

LEMMA LogSteps == MInv /\ [Next]_vars => [Log!Next]_<<file, Pending>>
<1> SUFFICES ASSUME MInv, [Next]_vars
             PROVE  Log!Next \/ UNCHANGED <<file, Pending>>
  OBVIOUS
<1>1. CASE UNCHANGED vars
  BY <1>1 DEF vars, Pending
<1>2. ASSUME NEW t \in Threads, NEW m \in Names, Push(t, m) PROVE Log!Next
  BY <1>2, PushBegins
<1>3. ASSUME NEW t \in Threads, Step(t)
      PROVE  Log!Next \/ UNCHANGED <<file, Pending>>
  BY <1>3, PushStutters, OpenCreates, LookMisses, WriteLeaves DEF Step
<1> QED
  BY <1>1, <1>2, <1>3 DEF Next

\* For any number of threads, metrics and labels and every interleaving the
\* files are what MetricLog promises: nothing but rows behind one header, each
\* by a push of its own metric, and no push lost without another one next to
\* it (metrics.cc push, register_new).
THEOREM MetricsImplementLog == Spec => ImplementsLog
<1>1. Init => Log!Init
  BY DEF Init, Log!Init
<1>2. MInv /\ [Next]_vars => [Log!Next]_<<file, Pending>>
  BY LogSteps
<1>3. QED
  BY <1>1, <1>2, MetricsInvariance, PTL DEF Spec, ImplementsLog, Log!Spec, Pending

---------------------------------------------------------------------------
(* A push gets nearer to its end *)

\* The steps a push has before it at most.
StepsLeft(t) ==
    CASE at[t] = "idle" -> 0
      [] at[t] = "write" -> 1
      [] at[t] = "format" -> 2
      [] at[t] = "look" -> 3
      [] at[t] = "open" -> 4
      [] at[t] = "label" -> 4 + Labels - labels[metric[t]]
      [] at[t] = "register" -> 5 + Labels
      [] at[t] = "wait" -> 6 + Labels
      [] at[t] = "find" -> 7 + Labels

\* Each step of a thread within its push takes it nearer to the end, and no step
\* of another thread takes it back; whoever holds the mutex that the others wait
\* for is within register_new, which waits for nothing.
PushesAdvance ==
    [][\A t \in Threads :
          /\ StepsLeft(t) \in Nat /\ (StepsLeft(t) = 0 <=> at[t] = "idle")
          /\ Step(t) => StepsLeft(t)' < StepsLeft(t)
          /\ \A u \in Threads \ {t} : Step(u) => StepsLeft(t)' = StepsLeft(t)
          /\ mutex = t => at[t] \in {"register", "label", "open"}]_vars

LEMMA StepsLeftIsNat ==
    ASSUME MInv, NEW t \in Threads
    PROVE  StepsLeft(t) \in Nat /\ (StepsLeft(t) = 0 <=> at[t] = "idle")
<1>1. labels[metric[t]] \in 0..Labels /\ at[t] \in Places
  BY DEF MInv, TypeOK
<1>2. at[t] = "label" => labels[metric[t]] < Labels
  BY DEF MInv, Filling
<1> QED
  BY <1>1, <1>2 DEF StepsLeft

LEMMA OwnStepAdvances ==
    ASSUME MInv, NEW t \in Threads, Step(t)
    PROVE  StepsLeft(t)' < StepsLeft(t)
<1> USE DEF MInv, TypeOK
<1>1. CASE \/ Find(t) \/ Lock(t) \/ RegisterAgain(t) \/ Open(t)
          \/ Look(t) \/ Format(t) \/ Write(t)
  <2>1. \/ at[t] = "find" /\ at'[t] \in {"look", "wait"}
        \/ at[t] = "wait" /\ at'[t] = "register"
        \/ at[t] = "register" /\ at'[t] = "look"
        \/ at[t] = "open" /\ at'[t] = "look"
        \/ at[t] = "look" /\ at'[t] \in {"idle", "format"}
        \/ at[t] = "format" /\ at'[t] = "write"
        \/ at[t] = "write" /\ at'[t] = "idle"
    BY <1>1 DEF Find, Lock, RegisterAgain, Open, Look, Format, Write
  <2> QED
    BY <2>1 DEF StepsLeft
<1>2. CASE Register(t)
  <2>1. at[t] = "register" /\ at'[t] = "label" /\ labels'[metric'[t]] = 0
    BY <1>2 DEF Register
  <2> QED
    BY <2>1 DEF StepsLeft
<1>3. CASE AddLabel(t)
  <2>1. /\ at[t] = "label" /\ at'[t] \in {"label", "open"}
        /\ labels'[metric'[t]] = labels[metric[t]] + 1
        /\ labels[metric[t]] < Labels /\ labels[metric[t]] \in Nat
    BY <1>3 DEF AddLabel, Filling
  <2> QED
    BY <2>1 DEF StepsLeft
<1> QED
  BY <1>1, <1>2, <1>3 DEF Step

\* The labels that a registration has still to note are its own affair, since
\* it holds the mutex.
LEMMA OtherStepsLeave ==
    ASSUME MInv, NEW t \in Threads, NEW u \in Threads \ {t}, Step(u)
    PROVE  StepsLeft(t)' = StepsLeft(t)
<1>1. at'[t] = at[t] /\ metric' = metric
  BY DEF MInv, TypeOK, Step, Find, Lock, RegisterAgain, Register, AddLabel, Open, Look, Format, Write
<1>2. at[t] = "label" => labels' = labels
  <2>1. at[t] = "label" => ~Inside(u)
    BY DEF MInv, Owner, Inside
  <2> QED
    BY <2>1 DEF Inside, Step, Find, Lock, RegisterAgain, Register, AddLabel, Open, Look, Format, Write
<1> QED
  BY <1>1, <1>2 DEF StepsLeft

\* A push has a bounded number of steps, whatever the other threads do
\* (metrics.cc push): what PushesEnd needs, but for the fairness.
THEOREM PushesGetShorter == Spec => PushesAdvance
<1>1. MInv => [\A t \in Threads :
          /\ StepsLeft(t) \in Nat /\ (StepsLeft(t) = 0 <=> at[t] = "idle")
          /\ Step(t) => StepsLeft(t)' < StepsLeft(t)
          /\ \A u \in Threads \ {t} : Step(u) => StepsLeft(t)' = StepsLeft(t)
          /\ mutex = t => at[t] \in {"register", "label", "open"}]_vars
  <2>1. MInv => \A t \in Threads : mutex = t => at[t] \in {"register", "label", "open"}
    BY DEF MInv, Owner, Inside
  <2> QED
    BY <2>1, StepsLeftIsNat, OwnStepAdvances, OtherStepsLeave
<1> QED
  BY MetricsInvariance, <1>1, PTL DEF PushesAdvance
=============================================================================
