------------------------------- MODULE BtbPool -------------------------------
(***************************************************************************)
(* The process pool of src/plots/btb_miss_analysis.py.  main() (lines     *)
(* 28-66) loops over btb_size_list; for each size it prints a header,    *)
(* creates multiprocessing.Pool(26) and starmaps parse_one_file over the  *)
(* applications; leaving the `with` block calls Pool.terminate().  Its  *)
(* task handler sends each worker the exit sentinel, and it then kills    *)
(* with SIGTERM the workers still running: a worker that took a sentinel  *)
(* first exits normally, the others are killed.  parse_one_file (lines   *)
(* 12-24)                                                                  *)
(* runs `zcat | awk | dineroIV` through a shell, waits for it without a  *)
(* timeout, searches its output and prints one row.                       *)
(*                                                                         *)
(* print() writes into the process's sys.stdout buffer: line-buffered on  *)
(* a terminal, block-buffered when stdout is redirected (Redirected).    *)
(* A buffer reaches the output only when its process flushes it: the    *)
(* parent flushes before each fork of Pool(26) (popen_fork), a worker     *)
(* when it exits normally, and a worker killed by SIGTERM never does.    *)
(* The rows are a few hundred bytes, far below the 8 KiB block, so no     *)
(* buffer fills up.                                                        *)
(***************************************************************************)
EXTENDS Integers, Sequences, FiniteSets

CONSTANTS
  NS,          \* length of btb_size_list (line 29)
  Apps,        \* app_list (lines 30-44)
  Workers,     \* the pool's worker processes (Pool(26), line 65)
  Bad,         \* <<size, app>> whose dineroIV run may fail (crash, out of
               \* memory, missing input): its output then lacks the
               \* "fraction" lines, re.search returns None and .group raises
  Redirected   \* sys.stdout is not a terminal

Sizes == 1..NS

ASSUME BtbAssumption ==
  /\ NS \in Nat \ {0}
  /\ IsFiniteSet(Apps) /\ Apps # {}
  /\ "idle" \notin Apps     \* the model's mark of a worker without a task
  /\ Workers # {}
  /\ Bad \subseteq Sizes \X Apps
  /\ Redirected \in BOOLEAN

Header(k) == <<"H", k>>
Row(k, a) == <<"R", k, a>>
Lines == {Header(j) : j \in Sizes} \cup {Row(j, a) : j \in Sizes, a \in Apps}

VARIABLES
  k,       \* index of the size the loop of line 53 is at
  phase,   \* "start" (top of the loop body), "pool" (in starmap), "closing"
           \* (in terminate()), "done", "failed"
  queue,   \* applications of this starmap not yet handed to a worker
  pend,    \* tasks of this starmap not yet finished
  err,     \* some task of this starmap raised
  wk,      \* wk[w]: the application worker w runs, or "idle"
  child,   \* child[w]: the shell pipeline of worker w's task
  wbuf,    \* wbuf[w]: worker w's stdout buffer
  live,    \* the workers terminate() has not yet seen exit
  out      \* what has reached the output file or terminal

vars == <<k, phase, queue, pend, err, wk, child, wbuf, live, out>>

\* print(line) by a process with buffer `buf`: straight to the output on a
\* terminal, into the buffer otherwise.
Emit(buf, line) ==
  IF Redirected THEN <<Append(buf, line), out>> ELSE <<buf, Append(out, line)>>

\* Lines 54-66 up to the first task: header printed, task list built, pool
\* forked.  Pool(26) flushes the parent's buffer before it forks, so the
\* header reaches the output here whether or not stdout is a terminal, and
\* each worker starts with an empty buffer of its own.
StartSize ==
  /\ phase = "start"
  /\ out' = Append(out, Header(k))
  /\ queue' = Apps
  /\ pend' = Cardinality(Apps)
  /\ err' = FALSE
  /\ wbuf' = [w \in Workers |-> <<>>]
  /\ phase' = "pool"
  /\ UNCHANGED <<k, wk, child, live>>

\* An idle worker takes the next task and starts its pipeline (line 17).
Take(w, a) ==
  /\ phase = "pool"
  /\ wk[w] = "idle"
  /\ a \in queue
  /\ queue' = queue \ {a}
  /\ wk' = [wk EXCEPT ![w] = a]
  /\ child' = [child EXCEPT ![w] = "alive"]
  /\ UNCHANGED <<k, phase, pend, err, wbuf, live, out>>

\* The pipeline of worker w ends (dineroIV writes its report and exits).
ChildExit(w) ==
  /\ child[w] = "alive"
  /\ child' = [child EXCEPT ![w] = "exited"]
  /\ UNCHANGED <<k, phase, queue, pend, err, wk, wbuf, live, out>>

\* Lines 18-24: communicate() returns; the three searches either all match
\* and the row is printed, or (line 23) one finds nothing, .group raises
\* and the worker sends the exception back as the task's result.
Parse(w) ==
  /\ child[w] = "exited"
  /\ LET a == wk[w] IN
       \/ /\ LET p == Emit(wbuf[w], Row(k, a)) IN
                wbuf' = [wbuf EXCEPT ![w] = p[1]] /\ out' = p[2]
          /\ UNCHANGED err
       \/ /\ <<k, a>> \in Bad
          /\ err' = TRUE
          /\ UNCHANGED <<wbuf, out>>
  /\ wk' = [wk EXCEPT ![w] = "idle"]
  /\ child' = [child EXCEPT ![w] = "none"]
  /\ pend' = pend - 1
  /\ UNCHANGED <<k, phase, queue, live>>

\* Mutant: the result of starmap not waited for (map_async without get).
EndMapNoWait ==
  /\ phase = "pool"
  /\ queue = {}
  /\ phase' = "closing"
  /\ live' = Workers
  /\ wk' = [w \in Workers |-> "idle"]
  /\ child' = [w \in Workers |-> "none"]
  /\ UNCHANGED <<k, queue, pend, err, wbuf, out>>

\* Lines 65-66: starmap returns once every task has finished (raising the
\* first exception if one raised), and the `with` block calls terminate().
EndMap ==
  /\ phase = "pool"
  /\ pend = 0
  /\ phase' = "closing"
  /\ live' = Workers
  /\ UNCHANGED <<k, queue, pend, err, wk, child, wbuf, out>>

\* In terminate(): worker w takes an exit sentinel, returns from its loop
\* and flushes its buffer as it exits.
WorkerFlush(w) ==
  /\ phase = "closing"
  /\ w \in live
  /\ out' = out \o wbuf[w]
  /\ wbuf' = [wbuf EXCEPT ![w] = <<>>]
  /\ live' = live \ {w}
  /\ UNCHANGED <<k, phase, queue, pend, err, wk, child>>

\* In terminate(): worker w is killed by SIGTERM; its buffer is lost.
WorkerKilled(w) ==
  /\ phase = "closing"
  /\ w \in live
  /\ wbuf' = [wbuf EXCEPT ![w] = <<>>]
  /\ live' = live \ {w}
  /\ UNCHANGED <<k, phase, queue, pend, err, wk, child, out>>

\* Mutant: the loop over the sizes bounded with <= (one size too many).
CloseNextPastEnd == IF err THEN "failed" ELSE IF k <= NS THEN "start" ELSE "done"

\* After the `with` block: the exception of starmap ends the program, or
\* the loop of line 53 goes on to the next size or ends.
CloseNext == IF err THEN "failed" ELSE IF k < NS THEN "start" ELSE "done"

\* terminate() returns once every worker is gone.
Close ==
  /\ phase = "closing"
  /\ live = {}
  /\ phase' = CloseNext
  /\ k' = IF CloseNext = "start" THEN k + 1 ELSE k
  /\ UNCHANGED <<queue, pend, err, wk, child, wbuf, live, out>>

Init ==
  /\ k = 1
  /\ phase = "start"
  /\ queue = {}
  /\ pend = 0
  /\ err = FALSE
  /\ wk = [w \in Workers |-> "idle"]
  /\ child = [w \in Workers |-> "none"]
  /\ wbuf = [w \in Workers |-> <<>>]
  /\ live = {}
  /\ out = <<>>

Next ==
  \/ StartSize \/ EndMap \/ Close
  \/ \E w \in Workers : \/ \E a \in Apps : Take(w, a)
                        \/ ChildExit(w) \/ Parse(w)
                        \/ WorkerFlush(w) \/ WorkerKilled(w)

(***************************************************************************)
(* The parent and the pool's threads and workers run whenever they can.   *)
(* communicate() has no timeout, so nothing makes a pipeline end.         *)
(***************************************************************************)
Fairness ==
  /\ WF_vars(StartSize) /\ WF_vars(EndMap) /\ WF_vars(Close)
  /\ \A w \in Workers : /\ WF_vars(\E a \in Apps : Take(w, a)) /\ WF_vars(Parse(w))
                        /\ WF_vars(WorkerFlush(w) \/ WorkerKilled(w))

Spec == Init /\ [][Next]_vars /\ Fairness

-----------------------------------------------------------------------------
TypeOK ==
  /\ k \in Sizes
  /\ phase \in {"start", "pool", "closing", "done", "failed"}
  /\ queue \subseteq Apps
  /\ pend \in 0..Cardinality(Apps)
  /\ err \in BOOLEAN
  /\ wk \in [Workers -> Apps \cup {"idle"}]
  /\ child \in [Workers -> {"none", "alive", "exited"}]
  /\ out \in Seq(Lines)
  /\ wbuf \in [Workers -> Seq(Lines)]
  /\ live \subseteq Workers

\* The index of the last header before position i of the output (0 if none).
HeaderBefore(i) ==
  LET hs == {j \in 1..(i - 1) : out[j][1] = "H"}
  IN IF hs = {} THEN 0 ELSE out[CHOOSE j \in hs : \A m \in hs : m <= j][2]

\* When the program has ended (normally or by the exception of line 66),
\* every size whose starmap returned appears in the output as a table:
\* its header, then exactly one row per application, each row under the
\* header of its own size (the header of line 55 announces them).
TableAtExit ==
  phase \in {"done", "failed"} =>
    /\ \A i \in 1..Len(out) : out[i][1] = "R" => HeaderBefore(i) = out[i][2]
    /\ \A j \in Sizes : (j < k \/ phase = "done") =>
         \A a \in Apps :
           Cardinality({i \in 1..Len(out) : out[i] = Row(j, a)}) = 1

=============================================================================
