---------------------------- MODULE BtbPoolProofs ----------------------------
(***************************************************************************)
(* Proofs about the pool of src/plots/btb_miss_analysis.py (module        *)
(* BtbPool), for every number of sizes, every set of applications and of  *)
(* workers and every set of failing dineroIV runs.                        *)
(*                                                                         *)
(* TypeOK is not inductive: Parse counts the finished task with           *)
(* pend - 1, and pend stays in 0..Cardinality(Apps) only because pend     *)
(* counts exactly the tasks starmap still waits for, those in the queue   *)
(* and those a worker holds, each application at most once.               *)
(***************************************************************************)
EXTENDS BtbPool, Functions, FiniteSetTheorems, SequenceTheorems, TLAPS

\* The workers that hold a task of the current starmap.
Busy == {w \in Workers : wk[w] # "idle"}

\* A worker has a pipeline exactly while it holds a task.
ChildOfTask == \A w \in Workers : child[w] = "none" <=> wk[w] = "idle"

\* A task handed to a worker has left the queue, and no two workers hold
\* the same application.
TasksDistinct ==
  /\ \A w \in Busy : wk[w] \notin queue
  /\ \A v, w \in Busy : wk[v] = wk[w] => v = w

\* pend counts the tasks still queued or held by a worker; outside a
\* starmap there are none.
PendCount ==
  /\ pend = Cardinality(queue) + Cardinality(Busy)
  /\ phase # "pool" => pend = 0

PInv == TypeOK /\ ChildOfTask /\ TasksDistinct /\ PendCount

\* The queued and the held tasks are distinct applications, so there are
\* finitely many of each and at most Cardinality(Apps) of both together.
LEMMA TasksBound ==
  ASSUME TypeOK, TasksDistinct
  PROVE  /\ IsFiniteSet(queue) /\ IsFiniteSet(Busy)
         /\ Cardinality(queue) \in Nat /\ Cardinality(Busy) \in Nat
         /\ Cardinality(queue) + Cardinality(Busy) <= Cardinality(Apps)
  <1> DEFINE f == [w \in Busy |-> wk[w]]
  <1>0. Cardinality(Apps) \in Nat
    BY BtbAssumption, FS_CardinalityType
  <1>1. IsFiniteSet(queue) /\ Cardinality(queue) \in Nat
    BY BtbAssumption, FS_Subset, FS_CardinalityType DEF TypeOK
  <1>2. IsFiniteSet(Apps \ queue)
        /\ Cardinality(Apps \ queue) = Cardinality(Apps) - Cardinality(queue)
    <2>1. Apps \cap queue = queue
      BY DEF TypeOK
    <2>2. QED
      BY <2>1, BtbAssumption, FS_Difference
  <1>3. f \in Injection(Busy, Apps \ queue)
    BY DEF Injection, IsInjective, TypeOK, TasksDistinct, Busy
  <1>4. IsFiniteSet(Busy) /\ Cardinality(Busy) <= Cardinality(Apps \ queue)
    BY <1>2, <1>3, FS_Injection
  <1>5. Cardinality(Busy) \in Nat
    BY <1>4, FS_CardinalityType
  <1>6. QED
    BY <1>0, <1>1, <1>2, <1>4, <1>5

LEMMA InitPInv == Init => PInv
  <1> SUFFICES ASSUME Init PROVE PInv
    OBVIOUS
  <1>1. Busy = {}
    BY DEF Init, Busy
  <1>2. Cardinality(queue) + Cardinality(Busy) = 0
    BY <1>1, FS_EmptySet DEF Init
  <1>3. Cardinality(Apps) \in Nat
    BY BtbAssumption, FS_CardinalityType
  <1>4. TypeOK
    <2>1. k \in Sizes /\ pend \in 0..Cardinality(Apps)
      BY <1>3, BtbAssumption DEF Init, Sizes
    <2>2. out \in Seq(Lines) /\ wbuf \in [Workers -> Seq(Lines)]
          /\ live \subseteq Workers
      BY DEF Init
    <2>3. wk \in [Workers -> Apps \cup {"idle"}]
          /\ child \in [Workers -> {"none", "alive", "exited"}]
      BY DEF Init
    <2>4. QED
      BY <2>1, <2>2, <2>3 DEF Init, TypeOK
  <1>5. ChildOfTask /\ TasksDistinct
    BY <1>1 DEF Init, ChildOfTask, TasksDistinct
  <1>6. PendCount
    BY <1>2 DEF Init, PendCount
  <1>7. QED
    BY <1>4, <1>5, <1>6 DEF PInv

\* A starmap begins with every application queued and no worker busy.
LEMMA StartSizeStep == PInv /\ StartSize => PInv'
  <1> SUFFICES ASSUME PInv, StartSize PROVE PInv'
    OBVIOUS
  <1>1. Busy = {} /\ queue = {}
    BY TasksBound, FS_EmptySet DEF PInv, PendCount, StartSize
  <1>2. Busy' = {}
    BY <1>1 DEF StartSize, Busy
  <1>3. Cardinality(Apps) \in Nat
    BY BtbAssumption, FS_CardinalityType
  <1>4. out' \in Seq(Lines) /\ live' \subseteq Workers
    <2>1. Header(k) \in Lines
      BY DEF PInv, TypeOK, Lines
    <2>2. QED
      BY <2>1 DEF StartSize, PInv, TypeOK
  <1>5. TypeOK'
    <2>1. wbuf' \in [Workers -> Seq(Lines)]
      BY DEF StartSize
    <2>2. /\ k' = k /\ phase' = "pool" /\ queue' = Apps
          /\ pend' = Cardinality(Apps) /\ err' = FALSE
          /\ wk' = wk /\ child' = child
      BY DEF StartSize
    <2>3. pend' \in 0..Cardinality(Apps)
      BY <1>3, <2>2
    <2>4. k' \in Sizes /\ phase' \in {"start", "pool", "closing", "done", "failed"}
          /\ queue' \subseteq Apps /\ err' \in BOOLEAN
      BY <2>2 DEF PInv, TypeOK
    <2>5. wk' \in [Workers -> Apps \cup {"idle"}]
          /\ child' \in [Workers -> {"none", "alive", "exited"}]
      BY <2>2 DEF PInv, TypeOK
    <2>6. QED
      BY <1>4, <2>1, <2>3, <2>4, <2>5 DEF TypeOK
  <1>6. PendCount'
    BY <1>2, <1>3, FS_EmptySet DEF StartSize, PendCount
  <1>7. ChildOfTask' /\ TasksDistinct'
    BY <1>2 DEF StartSize, PInv, ChildOfTask, TasksDistinct
  <1>8. QED
    BY <1>5, <1>6, <1>7 DEF PInv

\* Taking a task moves one application from the queue to the worker.
LEMMA TakeStep ==
  ASSUME PInv, NEW w \in Workers, NEW a \in Apps, Take(w, a) PROVE PInv'
  <1>1. w \notin Busy /\ Busy' = Busy \cup {w}
    BY BtbAssumption DEF Take, Busy, PInv, TypeOK
  <1>2. IsFiniteSet(queue) /\ IsFiniteSet(Busy)
    BY TasksBound DEF PInv
  <1>3. Cardinality(queue') = Cardinality(queue) - 1
    BY <1>2, FS_RemoveElement DEF Take
  <1>4. Cardinality(Busy') = Cardinality(Busy) + 1
    BY <1>1, <1>2, FS_AddElement
  <1>5. PendCount'
    BY <1>2, <1>3, <1>4, FS_CardinalityType DEF Take, PInv, PendCount
  <1>6. TasksDistinct'
    BY <1>1 DEF Take, PInv, TypeOK, TasksDistinct, Busy
  <1>7. TypeOK' /\ ChildOfTask'
    BY BtbAssumption DEF Take, PInv, TypeOK, ChildOfTask
  <1>8. QED
    BY <1>5, <1>6, <1>7 DEF PInv

\* Parsing ends the worker's task: the worker is idle again and pend counts
\* one task fewer.
LEMMA ParseStep ==
  ASSUME PInv, NEW w \in Workers, Parse(w) PROVE PInv'
  <1>1. w \in Busy /\ wk[w] \in Apps
    BY DEF Parse, PInv, TypeOK, ChildOfTask, Busy
  <1>2. Busy' = Busy \ {w}
    BY DEF Parse, Busy, PInv, TypeOK
  <1>3. IsFiniteSet(Busy) /\ Cardinality(Busy) \in Nat
        /\ Cardinality(queue) \in Nat
    BY TasksBound DEF PInv
  <1>4. Cardinality(Busy') = Cardinality(Busy) - 1 /\ Cardinality(Busy) >= 1
    BY <1>1, <1>2, <1>3, FS_RemoveElement, FS_EmptySet
  <1>5. PendCount'
    BY <1>3, <1>4 DEF Parse, PInv, PendCount
  <1>6. pend' \in 0..Cardinality(Apps)
    <2>1. Cardinality(Apps) \in Nat /\ pend \in 1..Cardinality(Apps)
      BY <1>3, <1>4, BtbAssumption, FS_CardinalityType DEF PInv, PendCount, TypeOK
    <2>2. QED
      BY <2>1 DEF Parse
  <1>7. wbuf' \in [Workers -> Seq(Lines)] /\ out' \in Seq(Lines)
    <2>1. Row(k, wk[w]) \in Lines
      BY <1>1 DEF PInv, TypeOK, Lines
    <2>2. wbuf[w] \in Seq(Lines) /\ out \in Seq(Lines)
      BY DEF PInv, TypeOK
    <2>3. \/ wbuf' = [wbuf EXCEPT ![w] = Append(wbuf[w], Row(k, wk[w]))]
             /\ out' = out
          \/ wbuf' = [wbuf EXCEPT ![w] = wbuf[w]]
             /\ out' = Append(out, Row(k, wk[w]))
          \/ wbuf' = wbuf /\ out' = out
      BY DEF Parse, Emit
    <2>4. /\ Append(wbuf[w], Row(k, wk[w])) \in Seq(Lines)
          /\ Append(out, Row(k, wk[w])) \in Seq(Lines)
      BY <2>1, <2>2
    <2>5. wbuf \in [Workers -> Seq(Lines)]
      BY DEF PInv, TypeOK
    <2>6. QED
      BY <2>2, <2>3, <2>4, <2>5, Zenon
  <1>8. TypeOK'
    BY <1>6, <1>7 DEF Parse, PInv, TypeOK
  <1>9. ChildOfTask' /\ TasksDistinct'
    BY <1>2 DEF Parse, PInv, TypeOK, ChildOfTask, TasksDistinct, Busy
  <1>10. QED
    BY <1>5, <1>8, <1>9 DEF PInv

\* starmap returns only when pend is 0; terminate() begins with every
\* worker of the pool still to exit.
LEMMA EndMapStep == PInv /\ EndMap => PInv'
  <1> SUFFICES ASSUME PInv, EndMap PROVE PInv'
    OBVIOUS
  <1>1. Busy' = Busy
    BY DEF EndMap, Busy
  <1>2. TypeOK'
    BY DEF EndMap, PInv, TypeOK
  <1>3. PendCount'
    BY <1>1 DEF EndMap, PInv, PendCount
  <1>4. ChildOfTask' /\ TasksDistinct'
    BY <1>1 DEF EndMap, PInv, ChildOfTask, TasksDistinct
  <1>5. QED
    BY <1>2, <1>3, <1>4 DEF PInv

\* A worker leaving in terminate() empties its buffer, into the output or
\* not; nothing else changes.
LEMMA ExitStep ==
  ASSUME PInv, NEW w \in Workers, WorkerFlush(w) \/ WorkerKilled(w) PROVE PInv'
  <1>1. Busy' = Busy
    BY DEF WorkerFlush, WorkerKilled, Busy
  <1>2. out' \in Seq(Lines)
    <2>1. out \in Seq(Lines) /\ wbuf[w] \in Seq(Lines)
      BY DEF PInv, TypeOK
    <2>2. out' = out \o wbuf[w] \/ out' = out
      BY DEF WorkerFlush, WorkerKilled
    <2>3. out \o wbuf[w] \in Seq(Lines)
      BY <2>1, ConcatProperties
    <2>4. QED
      BY <2>1, <2>2, <2>3
  <1>3. wbuf' \in [Workers -> Seq(Lines)] /\ live' \subseteq Workers
    <2>1. wbuf' = [wbuf EXCEPT ![w] = <<>>] /\ live' = live \ {w}
      BY DEF WorkerFlush, WorkerKilled
    <2>2. wbuf \in [Workers -> Seq(Lines)] /\ live \subseteq Workers
      BY DEF PInv, TypeOK
    <2>3. <<>> \in Seq(Lines)
      OBVIOUS
    <2>4. QED
      BY <2>1, <2>2, <2>3
  <1>4. /\ k' = k /\ phase' = phase /\ queue' = queue /\ pend' = pend
        /\ err' = err /\ wk' = wk /\ child' = child
    BY DEF WorkerFlush, WorkerKilled
  <1>5. TypeOK'
    BY <1>2, <1>3, <1>4 DEF PInv, TypeOK
  <1>6. QED
    BY <1>1, <1>4, <1>5 DEF PInv, ChildOfTask, TasksDistinct, PendCount

\* terminate() returns; the loop moves to a size of btb_size_list or ends.
LEMMA CloseStep == PInv /\ Close => PInv'
  <1> SUFFICES ASSUME PInv, Close PROVE PInv'
    OBVIOUS
  <1>1. Busy' = Busy /\ pend = 0
    BY DEF Close, Busy, PInv, PendCount
  <1>2. k' \in Sizes
    BY BtbAssumption DEF Close, CloseNext, PInv, TypeOK, Sizes
  <1>3. phase' \in {"start", "done", "failed"}
    BY DEF Close, CloseNext
  <1>4. TypeOK'
    BY <1>2, <1>3 DEF Close, PInv, TypeOK
  <1>5. PendCount'
    BY <1>1, <1>3 DEF Close, PInv, PendCount
  <1>6. ChildOfTask' /\ TasksDistinct'
    BY <1>1 DEF Close, PInv, ChildOfTask, TasksDistinct
  <1>7. QED
    BY <1>4, <1>5, <1>6 DEF PInv

LEMMA StepPInv == PInv /\ [Next]_vars => PInv'
  <1> SUFFICES ASSUME PInv, [Next]_vars PROVE PInv'
    OBVIOUS
  <1>1. CASE StartSize
    BY <1>1, StartSizeStep
  <1>2. CASE EndMap
    BY <1>2, EndMapStep
  <1>3. ASSUME NEW w \in Workers, NEW a \in Apps, Take(w, a) PROVE PInv'
    BY <1>3, TakeStep
  <1>4. ASSUME NEW w \in Workers, ChildExit(w) PROVE PInv'
    <2>1. Busy' = Busy
      BY <1>4 DEF ChildExit, Busy
    <2>2. QED
      BY <1>4, <2>1 DEF ChildExit, PInv, TypeOK, ChildOfTask, TasksDistinct,
                       PendCount
  <1>5. ASSUME NEW w \in Workers, Parse(w) PROVE PInv'
    BY <1>5, ParseStep
  <1>6. CASE UNCHANGED vars
    <2>1. Busy' = Busy
      BY <1>6 DEF vars, Busy
    <2>2. QED
      BY <1>6, <2>1 DEF vars, PInv, TypeOK, ChildOfTask, TasksDistinct,
                       PendCount
  <1>7. CASE Close
    BY <1>7, CloseStep
  <1>8. ASSUME NEW w \in Workers, WorkerFlush(w) \/ WorkerKilled(w) PROVE PInv'
    BY <1>8, ExitStep
  <1>9. QED
    BY <1>1, <1>2, <1>3, <1>4, <1>5, <1>6, <1>7, <1>8 DEF Next

\* For every list of sizes, applications, pool size and set of failing
\* runs, main() of btb_miss_analysis.py keeps its state well typed; in
\* particular starmap's count of pending tasks never drops below zero nor
\* exceeds the number of applications, whatever order the workers take,
\* finish and parse their tasks in.
THEOREM TypeCorrect == Spec => []TypeOK
  <1>1. PInv => TypeOK
    BY DEF PInv
  <1>2. QED
    BY <1>1, InitPInv, StepPInv, PTL DEF Spec

(***************************************************************************)
(* The table on a terminal.  With stdout a terminal every print() reaches *)
(* the output at once, so the output is what the parent and the workers  *)
(* printed, in order.  Below, HB(s, i) is HeaderBefore(i) for an output  *)
(* s, and OccIn(s, x) the positions of line x in s.                      *)
(***************************************************************************)
Hs(s, i) == {j \in 1..(i - 1) : s[j][1] = "H"}

HB(s, i) ==
  LET hs == Hs(s, i)
  IN IF hs = {} THEN 0 ELSE s[CHOOSE j \in hs : \A m \in hs : m <= j][2]

OccIn(s, x) == {i \in 1..Len(s) : s[i] = x}

\* Every set of header positions has a last one, so the CHOOSE of
\* HeaderBefore picks a position of the output.  (That a finite set of
\* integers has a maximum would need induction over the set; the
\* invariant carries it instead, one print at a time.)
HasMax(S) == \E j \in S : \A m \in S : m <= j
MaxesExist(s) == \A i \in 1..(Len(s) + 1) : Hs(s, i) # {} => HasMax(Hs(s, i))

LEMMA MaxesAppend ==
  ASSUME NEW s \in Seq(Lines), NEW x \in Lines, MaxesExist(s)
  PROVE  MaxesExist(Append(s, x))
  <1> DEFINE t == Append(s, x)
  <1>1. Len(s) \in Nat /\ Len(t) = Len(s) + 1
        /\ \A j \in 1..Len(s) : t[j] = s[j] /\ t[Len(s) + 1] = x
    BY AppendProperties
  <1>2. SUFFICES ASSUME NEW i \in 1..(Len(t) + 1), Hs(t, i) # {}
                 PROVE  HasMax(Hs(t, i))
    BY DEF MaxesExist
  <1>3. CASE i <= Len(s) + 1
    <2>1. Hs(t, i) = Hs(s, i)
      BY <1>1, <1>3 DEF Hs
    <2>2. QED
      BY <1>1, <1>2, <1>3, <2>1 DEF MaxesExist
  <1>4. CASE i = Len(s) + 2 /\ x[1] = "H"
    BY <1>1, <1>4 DEF Hs, HasMax
  <1>5. CASE i = Len(s) + 2 /\ x[1] # "H"
    <2>1. Hs(t, i) = Hs(s, Len(s) + 1)
      BY <1>1, <1>5 DEF Hs
    <2>2. QED
      BY <1>1, <1>2, <2>1 DEF MaxesExist
  <1>6. QED
    BY <1>1, <1>3, <1>4, <1>5

\* A line printed does not change the header that the earlier lines sit
\* under.
LEMMA HBAppend ==
  ASSUME NEW s \in Seq(Lines), NEW x \in Lines, MaxesExist(s),
         NEW i \in 1..(Len(s) + 1)
  PROVE  HB(Append(s, x), i) = HB(s, i)
  <1> DEFINE t == Append(s, x)
             c == CHOOSE j \in Hs(s, i) : \A m \in Hs(s, i) : m <= j
  <1>1. Len(s) \in Nat /\ \A j \in 1..Len(s) : t[j] = s[j]
    BY AppendProperties
  <1>2. Hs(t, i) = Hs(s, i)
    BY <1>1 DEF Hs
  <1>3. Hs(s, i) # {} => c \in 1..Len(s)
    <2> SUFFICES ASSUME Hs(s, i) # {} PROVE c \in 1..Len(s)
      OBVIOUS
    <2>1. HasMax(Hs(s, i))
      BY DEF MaxesExist
    <2>2. c \in Hs(s, i)
      BY <2>1 DEF HasMax
    <2>3. QED
      BY <1>1, <2>2 DEF Hs
  <1>4. QED
    BY <1>1, <1>2, <1>3 DEF HB

\* After a header is printed, the last header of the output is that one.
LEMMA HBHeader ==
  ASSUME NEW s \in Seq(Lines), NEW n \in Sizes
  PROVE  HB(Append(s, Header(n)), Len(s) + 2) = n
  <1> DEFINE t == Append(s, Header(n))
             c == CHOOSE j \in Hs(t, Len(s) + 2) : \A m \in Hs(t, Len(s) + 2) : m <= j
  <1>1. Header(n) \in Lines
    BY DEF Lines
  <1>2. Len(s) \in Nat /\ t[Len(s) + 1] = Header(n)
    BY <1>1, AppendProperties
  <1>3. Len(s) + 1 \in Hs(t, Len(s) + 2)
        /\ \A m \in Hs(t, Len(s) + 2) : m <= Len(s) + 1
    BY <1>2 DEF Hs, Header
  <1>4. c \in Hs(t, Len(s) + 2) /\ \A m \in Hs(t, Len(s) + 2) : m <= c
    BY <1>3
  <1>5. c = Len(s) + 1
    BY <1>2, <1>3, <1>4 DEF Hs
  <1>6. HB(t, Len(s) + 2) = t[c][2]
    BY <1>3 DEF HB
  <1>7. t[c] = Header(n)
    BY <1>2, <1>5
  <1>8. Header(n)[2] = n
    BY DEF Header
  <1>9. QED
    BY <1>6, <1>7, <1>8

\* A row printed after the last header leaves that header the last one.
LEMMA HBRow ==
  ASSUME NEW s \in Seq(Lines), NEW j \in Sizes, NEW a \in Apps, MaxesExist(s)
  PROVE  HB(Append(s, Row(j, a)), Len(s) + 2) = HB(s, Len(s) + 1)
  <1> DEFINE t == Append(s, Row(j, a))
             c == CHOOSE m \in Hs(s, Len(s) + 1) : \A p \in Hs(s, Len(s) + 1) : p <= m
  <1>1. Row(j, a) \in Lines
    BY DEF Lines
  <1>2. Len(s) \in Nat /\ \A m \in 1..Len(s) : t[m] = s[m]
        /\ t[Len(s) + 1] = Row(j, a)
    BY <1>1, AppendProperties
  <1>3. Hs(t, Len(s) + 2) = Hs(s, Len(s) + 1)
    BY <1>2 DEF Hs, Row
  <1>4. Hs(s, Len(s) + 1) # {} => c \in 1..Len(s)
    <2> SUFFICES ASSUME Hs(s, Len(s) + 1) # {} PROVE c \in 1..Len(s)
      OBVIOUS
    <2>1. HasMax(Hs(s, Len(s) + 1))
      BY <1>2 DEF MaxesExist
    <2>2. c \in Hs(s, Len(s) + 1)
      BY <2>1 DEF HasMax
    <2>3. QED
      BY <1>2, <2>2 DEF Hs
  <1>5. CASE Hs(s, Len(s) + 1) = {}
    BY <1>3, <1>5 DEF HB
  <1>6. CASE Hs(s, Len(s) + 1) # {}
    <2>1. (CHOOSE m \in Hs(t, Len(s) + 2) : \A p \in Hs(t, Len(s) + 2) : p <= m) = c
      BY <1>3
    <2>2. HB(t, Len(s) + 2) = t[c][2]
      BY <1>3, <1>6, <2>1 DEF HB
    <2>3. HB(s, Len(s) + 1) = s[c][2]
      BY <1>6 DEF HB
    <2>4. QED
      BY <1>2, <1>4, <1>6, <2>2, <2>3
  <1>7. QED
    BY <1>5, <1>6

\* Printing line y adds one occurrence of y and none of any other line.
LEMMA OccAppend ==
  ASSUME NEW s \in Seq(Lines), NEW x, NEW y \in Lines
  PROVE  /\ IsFiniteSet(OccIn(s, x))
         /\ Cardinality(OccIn(Append(s, y), x))
              = IF y = x THEN Cardinality(OccIn(s, x)) + 1
                         ELSE Cardinality(OccIn(s, x))
  <1>1. Len(s) \in Nat /\ \A m \in 1..Len(s) : Append(s, y)[m] = s[m]
        /\ Append(s, y)[Len(s) + 1] = y /\ Len(Append(s, y)) = Len(s) + 1
    BY AppendProperties
  <1>2. IsFiniteSet(OccIn(s, x))
    <2>1. IsFiniteSet(1..Len(s)) /\ OccIn(s, x) \subseteq 1..Len(s)
      BY <1>1, FS_Interval DEF OccIn
    <2>2. QED
      BY <2>1, FS_Subset
  <1>3. Len(s) + 1 \notin OccIn(s, x)
    BY <1>1 DEF OccIn
  <1>4. CASE y = x
    <2>1. OccIn(Append(s, y), x) = OccIn(s, x) \cup {Len(s) + 1}
      BY <1>1, <1>4 DEF OccIn
    <2>2. QED
      BY <1>2, <1>3, <1>4, <2>1, FS_AddElement
  <1>5. CASE y # x
    <2>1. OccIn(Append(s, y), x) = OccIn(s, x)
      BY <1>1, <1>5 DEF OccIn
    <2>2. QED
      BY <1>2, <1>5, <2>1
  <1>6. QED
    BY <1>2, <1>4, <1>5

(***************************************************************************)
(* The invariant of the table.  With stdout a terminal the workers'       *)
(* buffers stay empty, every row printed sits under the header of its own *)
(* size, the last header printed during a starmap is that of the current *)
(* size, and each row has been printed once for every finished size, at  *)
(* most once for the current one, never for a later one and never for an *)
(* application still queued or held by a worker.                         *)
(***************************************************************************)
\* Some worker holds application a.
Held(a) == \E w \in Busy : wk[w] = a

\* How often the row of size j and application a has been printed.
Cnt(j, a) == Cardinality(OccIn(out, Row(j, a)))

RowsUnderHeader ==
  \A i \in 1..Len(out) : out[i][1] = "R" => HB(out, i) = out[i][2]

LastHeaderIsK == phase = "pool" => HB(out, Len(out) + 1) = k

CountOK(n, j, a) ==
  /\ (j < k \/ phase = "done") => n = 1
  /\ (j > k \/ (j = k /\ phase = "start")) => n = 0
  /\ n <= 1
  /\ (j = k /\ phase = "pool" /\ (a \in queue \/ Held(a))) => n = 0
  /\ (j = k /\ phase \in {"pool", "closing"} /\ ~err /\ a \notin queue /\ ~Held(a))
       => n = 1

RowCounts == \A j \in Sizes, a \in Apps : CountOK(Cnt(j, a), j, a)

\* Every worker's stdout buffer is empty.
WbufEmpty == \A w \in Workers : wbuf[w] = <<>>

TInv == /\ PInv /\ WbufEmpty /\ MaxesExist(out)
        /\ RowsUnderHeader /\ LastHeaderIsK /\ RowCounts

\* A count of printed rows is a natural number.
LEMMA CntNat ==
  ASSUME out \in Seq(Lines), NEW j \in Sizes, NEW a \in Apps
  PROVE  Cnt(j, a) \in Nat
  <1>1. Row(j, a) \in Lines
    BY DEF Lines
  <1>2. IsFiniteSet(OccIn(out, Row(j, a)))
    BY <1>1, OccAppend
  <1>3. QED
    BY <1>2, FS_CardinalityType DEF Cnt

\* A step that leaves the output as it is keeps its shape.
LEMMA OutFrame ==
  ASSUME out' = out, MaxesExist(out), RowsUnderHeader
  PROVE  MaxesExist(out') /\ RowsUnderHeader' /\ \A j, a : Cnt(j, a)' = Cnt(j, a)
  BY DEF RowsUnderHeader, Cnt

\* Printing a line keeps every earlier row under its header, and the new
\* line too when it is a row of the size of the last header.
LEMMA AppendKeeps ==
  ASSUME out \in Seq(Lines), MaxesExist(out), RowsUnderHeader,
         NEW x \in Lines, out' = Append(out, x),
         x[1] = "R" => HB(out, Len(out) + 1) = x[2]
  PROVE  MaxesExist(out') /\ RowsUnderHeader'
  <1>1. MaxesExist(out')
    BY MaxesAppend
  <1>2. Len(out) \in Nat /\ Len(out') = Len(out) + 1
        /\ \A i \in 1..Len(out) : out'[i] = out[i] /\ out'[Len(out) + 1] = x
    BY AppendProperties
  <1>3. \A i \in 1..(Len(out) + 1) : HB(out', i) = HB(out, i)
    BY HBAppend
  <1>4. RowsUnderHeader'
    BY <1>2, <1>3 DEF RowsUnderHeader
  <1>5. QED
    BY <1>1, <1>4

LEMMA InitTInv == ~Redirected /\ Init => TInv
  <1> SUFFICES ASSUME ~Redirected, Init PROVE TInv
    OBVIOUS
  <1>1. PInv
    BY InitPInv
  <1>2. MaxesExist(out) /\ RowsUnderHeader /\ LastHeaderIsK
    BY DEF Init, MaxesExist, Hs, RowsUnderHeader, LastHeaderIsK
  <1>3. \A j \in Sizes, a \in Apps : Cnt(j, a) = 0
    <2>1. \A j \in Sizes, a \in Apps : OccIn(out, Row(j, a)) = {}
      BY DEF Init, OccIn
    <2>2. QED
      BY <2>1, FS_EmptySet DEF Cnt
  <1>4. RowCounts
    BY <1>3 DEF Init, RowCounts, CountOK, Sizes
  <1>5. QED
    BY <1>1, <1>2, <1>4 DEF Init, TInv, WbufEmpty

\* StartSize prints the header of the current size; no row of it has been
\* printed yet, and every application is queued.
LEMMA StartSizeTable ==
  ASSUME ~Redirected, TInv, StartSize, PInv' PROVE TInv'
  <1>1. out \in Seq(Lines) /\ Header(k) \in Lines /\ k \in Sizes
    BY DEF TInv, PInv, TypeOK, Lines
  <1>2. out' = Append(out, Header(k)) /\ WbufEmpty'
    BY DEF StartSize, WbufEmpty
  <1>3. MaxesExist(out') /\ RowsUnderHeader'
    BY <1>1, <1>2, AppendKeeps DEF TInv, Header
  <1>4. LastHeaderIsK'
    BY <1>1, <1>2, HBHeader DEF StartSize, LastHeaderIsK
  <1>5. RowCounts'
    <2> SUFFICES ASSUME NEW j \in Sizes, NEW a \in Apps
                 PROVE  CountOK(Cnt(j, a), j, a)'
      BY DEF RowCounts
    <2>1. Cnt(j, a)' = Cnt(j, a)
      BY <1>1, <1>2, OccAppend DEF Cnt, Header, Row, Lines
    <2>2. CountOK(Cnt(j, a), j, a) /\ phase = "start"
      BY DEF TInv, RowCounts, StartSize
    <2>3. Cnt(j, a) \in Nat
      BY <1>1, CntNat
    <2>4. a \in queue'
      BY DEF StartSize
    <2>5. QED
      BY <2>1, <2>2, <2>3, <2>4 DEF StartSize, CountOK
  <1>6. QED
    BY <1>2, <1>3, <1>4, <1>5 DEF TInv

\* Handing a queued application to a worker keeps it among the queued or
\* held ones.
LEMMA TakeTable ==
  ASSUME TInv, NEW w \in Workers, NEW a0 \in Apps, Take(w, a0), PInv'
  PROVE  TInv'
  <1>1. MaxesExist(out') /\ RowsUnderHeader' /\ \A j, a : Cnt(j, a)' = Cnt(j, a)
    BY OutFrame DEF Take, TInv
  <1>2. \A a \in Apps : (a \in queue' \/ Held(a)') <=> (a \in queue \/ Held(a))
    <2>1. w \notin Busy /\ Busy' = Busy \cup {w}
      BY BtbAssumption DEF Take, Busy, TInv, PInv, TypeOK
    <2>2. \A v \in Busy : wk'[v] = wk[v]
      BY <2>1 DEF Take, TInv, PInv, TypeOK
    <2>3. \A a \in Apps : Held(a)' <=> (Held(a) \/ a = a0)
      BY <2>1, <2>2 DEF Take, Held, TInv, PInv, TypeOK
    <2>4. QED
      BY <2>3 DEF Take
  <1>3. RowCounts'
    <2> SUFFICES ASSUME NEW j \in Sizes, NEW a \in Apps
                 PROVE  CountOK(Cnt(j, a), j, a)'
      BY DEF RowCounts
    <2>1. CountOK(Cnt(j, a), j, a)
      BY DEF TInv, RowCounts
    <2>2. QED
      BY <1>1, <1>2, <2>1 DEF Take, CountOK
  <1>4. QED
    BY <1>1, <1>3 DEF Take, TInv, LastHeaderIsK, WbufEmpty

\* A pipeline ending changes nothing the table depends on.
LEMMA ChildExitTable ==
  ASSUME TInv, NEW w \in Workers, ChildExit(w), PInv' PROVE TInv'
  <1>1. MaxesExist(out') /\ RowsUnderHeader' /\ \A j, a : Cnt(j, a)' = Cnt(j, a)
    BY OutFrame DEF ChildExit, TInv
  <1>2. \A a \in Apps : Held(a)' = Held(a)
    BY DEF ChildExit, Held, Busy
  <1>3. RowCounts'
    BY <1>1, <1>2 DEF ChildExit, TInv, RowCounts, CountOK
  <1>4. QED
    BY <1>1, <1>3 DEF ChildExit, TInv, LastHeaderIsK, WbufEmpty

\* Parse prints the row of the current size for the application it held,
\* or (a failed dineroIV run) prints nothing and records the error.
LEMMA ParseTable ==
  ASSUME ~Redirected, TInv, NEW w \in Workers, Parse(w), PInv' PROVE TInv'
  <1> DEFINE a0 == wk[w]
  <1>1. w \in Busy /\ a0 \in Apps
    BY DEF Parse, TInv, PInv, TypeOK, ChildOfTask, Busy
  <1>2. phase = "pool"
    <2>1. IsFiniteSet(Busy) /\ Cardinality(Busy) \in Nat /\ Cardinality(queue) \in Nat
      BY TasksBound DEF TInv, PInv
    <2>2. Cardinality(Busy) # 0
      BY <1>1, <2>1, FS_EmptySet
    <2>3. QED
      BY <2>1, <2>2 DEF TInv, PInv, PendCount
  <1>3. Held(a0) /\ a0 \notin queue
    BY <1>1 DEF Held, TInv, PInv, TasksDistinct
  <1>4. out \in Seq(Lines) /\ k \in Sizes /\ Row(k, a0) \in Lines
    BY <1>1 DEF TInv, PInv, TypeOK, Lines
  <1>5. Cnt(k, a0) = 0
    BY <1>1, <1>2, <1>3, <1>4 DEF TInv, RowCounts, CountOK
  <1>6. \A a \in Apps : Held(a)' <=> (Held(a) /\ a # a0)
    <2>1. Busy' = Busy \ {w}
      BY DEF Parse, Busy, TInv, PInv, TypeOK
    <2>2. \A v \in Busy' : wk'[v] = wk[v]
      BY <2>1 DEF Parse, TInv, PInv, TypeOK
    <2>3. \A v \in Busy : wk[v] = a0 => v = w
      BY <1>1 DEF TInv, PInv, TasksDistinct
    <2>4. QED
      BY <2>1, <2>2, <2>3 DEF Held
  <1>7. phase' = phase /\ k' = k /\ queue' = queue /\ WbufEmpty'
    <2>1. wbuf' = wbuf
      BY DEF Parse, Emit, TInv, PInv, TypeOK
    <2>2. QED
      BY <2>1 DEF Parse, TInv, WbufEmpty
  <1>8. \A j \in Sizes, a \in Apps :
          CountOK(Cnt(j, a), j, a) /\ Cnt(j, a) \in Nat
    BY <1>4, CntNat DEF TInv, RowCounts
  <1>9. \A j \in Sizes, a \in Apps : Row(j, a) = Row(k, a0) <=> j = k /\ a = a0
    BY DEF Row
  <1>10. CASE out' = Append(out, Row(k, a0)) /\ err' = err
    <2>1. HB(out, Len(out) + 1) = k
      BY <1>2 DEF TInv, LastHeaderIsK
    <2>2. MaxesExist(out') /\ RowsUnderHeader'
      BY <1>4, <1>10, <2>1, AppendKeeps DEF TInv, Row
    <2>3. LastHeaderIsK'
      BY <1>1, <1>4, <1>7, <1>10, <2>1, HBRow DEF TInv, LastHeaderIsK
    <2>4. RowCounts'
      <3> SUFFICES ASSUME NEW j \in Sizes, NEW a \in Apps
                   PROVE  CountOK(Cnt(j, a), j, a)'
        BY DEF RowCounts
      <3>1. Cnt(j, a)' = IF j = k /\ a = a0 THEN Cnt(j, a) + 1 ELSE Cnt(j, a)
        BY <1>4, <1>9, <1>10, OccAppend DEF Cnt
      <3>2. QED
        BY <1>2, <1>3, <1>5, <1>6, <1>7, <1>8, <1>10, <3>1 DEF CountOK
    <2>5. QED
      BY <1>7, <2>2, <2>3, <2>4 DEF TInv
  <1>11. CASE out' = out /\ err' = TRUE
    <2>1. MaxesExist(out') /\ RowsUnderHeader' /\ \A j, a : Cnt(j, a)' = Cnt(j, a)
      BY <1>11, OutFrame DEF TInv
    <2>2. RowCounts'
      <3> SUFFICES ASSUME NEW j \in Sizes, NEW a \in Apps
                   PROVE  CountOK(Cnt(j, a), j, a)'
        BY DEF RowCounts
      <3>1. QED
        BY <1>2, <1>5, <1>6, <1>7, <1>8, <1>11, <2>1 DEF CountOK
    <2>3. QED
      BY <1>7, <1>11, <2>1, <2>2 DEF TInv, LastHeaderIsK
  <1>12. QED
    <2>1. \/ out' = Append(out, Row(k, a0)) /\ err' = err
          \/ out' = out /\ err' = TRUE
      BY DEF Parse, Emit
    <2>2. QED
      BY <1>10, <1>11, <2>1

\* starmap returns with every task finished, so none is queued or held:
\* without an error every row of the current size has been printed.
LEMMA EndMapTable ==
  ASSUME TInv, EndMap, PInv' PROVE TInv'
  <1>1. MaxesExist(out') /\ RowsUnderHeader' /\ \A j, a : Cnt(j, a)' = Cnt(j, a)
    BY OutFrame DEF EndMap, TInv
  <1>2. Busy = {} /\ queue = {}
    BY TasksBound, FS_EmptySet DEF TInv, PInv, PendCount, EndMap
  <1>3. \A a \in Apps : ~Held(a) /\ ~Held(a)'
    BY <1>2 DEF Held, EndMap, Busy
  <1>4. RowCounts'
    <2> SUFFICES ASSUME NEW j \in Sizes, NEW a \in Apps
                 PROVE  CountOK(Cnt(j, a), j, a)'
      BY DEF RowCounts
    <2>1. CountOK(Cnt(j, a), j, a)
      BY DEF TInv, RowCounts
    <2>2. QED
      BY <1>1, <1>2, <1>3, <2>1 DEF EndMap, CountOK
  <1>5. QED
    BY <1>1, <1>4 DEF EndMap, TInv, LastHeaderIsK, WbufEmpty

\* A worker leaving in terminate() has an empty buffer: the output stays.
LEMMA ExitTable ==
  ASSUME TInv, NEW w \in Workers, WorkerFlush(w) \/ WorkerKilled(w), PInv'
  PROVE  TInv'
  <1>1. out' = out
    <2>1. out \in Seq(Lines) /\ wbuf[w] = <<>>
      BY DEF TInv, PInv, TypeOK, WbufEmpty
    <2>2. out \o wbuf[w] = out
      BY <2>1, ConcatEmptySeq
    <2>3. QED
      BY <2>2 DEF WorkerFlush, WorkerKilled
  <1>2. MaxesExist(out') /\ RowsUnderHeader' /\ \A j, a : Cnt(j, a)' = Cnt(j, a)
    BY <1>1, OutFrame DEF TInv
  <1>3. \A a \in Apps : Held(a)' = Held(a)
    BY DEF WorkerFlush, WorkerKilled, Held, Busy
  <1>4. WbufEmpty'
    <2>1. wbuf' = [wbuf EXCEPT ![w] = <<>>]
      BY DEF WorkerFlush, WorkerKilled
    <2>2. wbuf \in [Workers -> Seq(Lines)] /\ WbufEmpty
      BY DEF TInv, PInv, TypeOK
    <2>3. QED
      BY <2>1, <2>2 DEF WbufEmpty
  <1>5. /\ k' = k /\ phase' = phase /\ queue' = queue /\ err' = err
    BY DEF WorkerFlush, WorkerKilled
  <1>6. RowCounts'
    BY <1>2, <1>3, <1>5 DEF TInv, RowCounts, CountOK
  <1>7. QED
    BY <1>1, <1>2, <1>4, <1>5, <1>6 DEF TInv, LastHeaderIsK

\* terminate() has returned: the loop moves to the next size (all rows of
\* this one printed), ends, or the exception ends the program.
LEMMA CloseTable ==
  ASSUME TInv, Close, PInv' PROVE TInv'
  <1>1. MaxesExist(out') /\ RowsUnderHeader' /\ \A j, a : Cnt(j, a)' = Cnt(j, a)
    BY OutFrame DEF Close, TInv
  <1>2. Busy = {} /\ queue = {}
    <2>1. phase # "pool"
      BY DEF Close
    <2>2. QED
      BY <2>1, TasksBound, FS_EmptySet DEF TInv, PInv, PendCount
  <1>3. \A a \in Apps : ~Held(a)
    BY <1>2 DEF Held
  <1>4. \A j \in Sizes, a \in Apps :
          CountOK(Cnt(j, a), j, a) /\ Cnt(j, a) \in Nat
    BY CntNat DEF TInv, PInv, TypeOK, RowCounts
  <1>5. k \in Sizes /\ phase = "closing"
    BY DEF TInv, PInv, TypeOK, Close
  <1>6. \A a \in Apps : ~err => Cnt(k, a) = 1
    BY <1>2, <1>3, <1>4, <1>5 DEF CountOK
  <1>7. RowCounts'
    <2> SUFFICES ASSUME NEW j \in Sizes, NEW a \in Apps
                 PROVE  CountOK(Cnt(j, a), j, a)'
      BY DEF RowCounts
    <2>1. CASE ~err /\ k < NS
      <3>a. phase' = "start" /\ k' = k + 1 /\ err' = err
        BY <2>1 DEF Close, CloseNext
      <3>b. CountOK(Cnt(j, a), j, a) /\ Cnt(j, a) \in Nat
            /\ (j = k => Cnt(j, a) = 1) /\ Cnt(j, a)' = Cnt(j, a)
        BY <1>1, <1>4, <1>6, <2>1
      <3>c. QED
        BY <1>5, <3>a, <3>b, BtbAssumption DEF CountOK, Sizes
    <2>2. CASE ~err /\ ~(k < NS)
      <3>a. phase' = "done" /\ k' = k /\ err' = err
        BY <2>2 DEF Close, CloseNext
      <3>b. j <= k
        BY <1>5, <2>2, BtbAssumption DEF Sizes
      <3>c. CountOK(Cnt(j, a), j, a) /\ Cnt(j, a) \in Nat
            /\ (j = k => Cnt(j, a) = 1) /\ Cnt(j, a)' = Cnt(j, a)
        BY <1>1, <1>4, <1>6, <2>2
      <3>d. QED
        BY <1>5, <3>a, <3>b, <3>c, BtbAssumption DEF CountOK, Sizes
    <2>3. CASE err
      <3>a. phase' = "failed" /\ k' = k /\ err' = err
        BY <2>3 DEF Close, CloseNext
      <3>b. QED
        BY <1>1, <1>4, <1>5, <3>a DEF CountOK
    <2>4. QED
      BY <2>1, <2>2, <2>3
  <1>8. phase' # "pool"
    BY DEF Close, CloseNext
  <1>9. QED
    BY <1>1, <1>7, <1>8 DEF Close, TInv, LastHeaderIsK, WbufEmpty

LEMMA StepTInv == ~Redirected /\ TInv /\ [Next]_vars => TInv'
  <1> SUFFICES ASSUME ~Redirected, TInv, [Next]_vars PROVE TInv'
    OBVIOUS
  <1>0. PInv'
    BY StepPInv DEF TInv
  <1>1. CASE StartSize
    BY <1>0, <1>1, StartSizeTable
  <1>2. CASE EndMap
    BY <1>0, <1>2, EndMapTable
  <1>2a. CASE Close
    BY <1>0, <1>2a, CloseTable
  <1>2b. ASSUME NEW w \in Workers, WorkerFlush(w) \/ WorkerKilled(w) PROVE TInv'
    BY <1>0, <1>2b, ExitTable
  <1>3. ASSUME NEW w \in Workers, NEW a \in Apps, Take(w, a) PROVE TInv'
    BY <1>0, <1>3, TakeTable
  <1>4. ASSUME NEW w \in Workers, ChildExit(w) PROVE TInv'
    BY <1>0, <1>4, ChildExitTable
  <1>5. ASSUME NEW w \in Workers, Parse(w) PROVE TInv'
    BY <1>0, <1>5, ParseTable
  <1>6. CASE UNCHANGED vars
    <2>1. MaxesExist(out') /\ RowsUnderHeader' /\ \A j, a : Cnt(j, a)' = Cnt(j, a)
      BY <1>6, OutFrame DEF vars, TInv
    <2>2. \A a \in Apps : Held(a)' = Held(a)
      BY <1>6 DEF vars, Held, Busy
    <2>3. QED
      BY <1>0, <1>6, <2>1, <2>2
         DEF vars, TInv, LastHeaderIsK, RowCounts, CountOK, WbufEmpty
  <1>7. QED
    BY <1>1, <1>2, <1>2a, <1>2b, <1>3, <1>4, <1>5, <1>6 DEF Next

\* With stdout a terminal, whatever order the pool's workers take, finish
\* and parse their tasks in, and whichever dineroIV runs fail: when the
\* program has ended, every row printed by parse_one_file sits under the
\* header main() printed for its size, and every size whose starmap
\* returned has exactly one row per application.  (With stdout
\* redirected this fails: run btb_redirect.)
THEOREM TableAtExitHolds ==
  ASSUME ~Redirected PROVE Spec => []TableAtExit
  <1>1. TInv => TableAtExit
    <2> SUFFICES ASSUME TInv PROVE TableAtExit
      OBVIOUS
    <2>1. \A i \in 1..Len(out) : out[i][1] = "R" => HeaderBefore(i) = out[i][2]
      BY DEF TInv, RowsUnderHeader, HeaderBefore, HB, Hs
    <2>2. \A j \in Sizes : (j < k \/ phase = "done") =>
            \A a \in Apps : Cardinality({i \in 1..Len(out) : out[i] = Row(j, a)}) = 1
      BY DEF TInv, RowCounts, CountOK, Cnt, OccIn
    <2>3. QED
      BY <2>1, <2>2 DEF TableAtExit
  <1>2. Init => TInv
    BY InitTInv
  <1>3. TInv /\ [Next]_vars => TInv'
    BY StepTInv
  <1>4. QED
    BY <1>1, <1>2, <1>3, PTL DEF Spec

=============================================================================
