------------------------------ MODULE Footprint ------------------------------
(***************************************************************************)
(* The stack-distance runner of src/plots/gen_footprint_size_raw_data.py: *)
(* one coroutine, run_stack_simulator (lines 40-68), loops over the traces *)
(* and for each spawns, through create_subprocess_shell, the shell command *)
(* `zcat <trace> | stack-distance`, waits for it under a TIMEOUT and      *)
(* kills it; main() runs it under asyncio.run (lines 71-82).              *)
(*                                                                         *)
(* The child of create_subprocess_shell is /bin/sh; the shell forks the   *)
(* two pipeline processes and exits only after they have.  p.kill()       *)
(* signals the shell alone.  The pipeline (zcat and stack-distance, which *)
(* live and die together through the pipe) is modelled as one process.   *)
(***************************************************************************)
EXTENDS Integers, FiniteSets

CONSTANTS
  N,         \* number of entries of pt_traces (lines 27-37)
  Capacity,  \* initial value of `workers` (line 23)
  CanFail    \* traces for which create_subprocess_shell raises (fork fails)

Traces == 1..N

ASSUME FootprintAssumption ==
  /\ N \in Nat \ {0}
  /\ Capacity \in Nat \ {0}
  /\ CanFail \subseteq Traces

VARIABLES
  at,        \* index of the trace the loop of line 41 is at
  pc,        \* "loop" (top of the body), "run" (in wait_for), "done", "failed"
  workers,   \* the global admission counter
  count,     \* the global count of finished traces
  shell,     \* shell[i]: the /bin/sh child of trace i
  pipe,      \* pipe[i]: the zcat | stack-distance pipeline of trace i
  result     \* result[i]: how wait_for ended for trace i

vars == <<at, pc, workers, count, shell, pipe, result>>

ProcStates == {"none", "alive", "exited", "killed"}

\* Lines 41-57 for trace `at`: mkdir, admission, create_subprocess_shell
\* returns.  The task is alone on the loop, so `workers` is never 0 here
\* and the polling loop of lines 51-52 never sleeps.
Spawn ==
  /\ pc = "loop"
  /\ workers > 0
  /\ workers' = workers - 1
  /\ shell' = [shell EXCEPT ![at] = "alive"]
  /\ pipe' = [pipe EXCEPT ![at] = "alive"]
  /\ pc' = "run"
  /\ UNCHANGED <<at, count, result>>

\* Line 57 raises (the fork of /bin/sh fails): the exception leaves
\* run_stack_simulator before line 66 and ends asyncio.run.
SpawnFail ==
  /\ pc = "loop"
  /\ workers > 0
  /\ at \in CanFail
  /\ workers' = workers - 1
  /\ pc' = "failed"
  /\ UNCHANGED <<at, count, shell, pipe, result>>

\* Mutant: the loop bound checked with <= (one trace past the list).
AfterWaitPastEnd(r) ==
  /\ result' = [result EXCEPT ![at] = r]
  /\ workers' = workers + 1
  /\ count' = count + 1
  /\ IF at <= N THEN at' = at + 1 /\ pc' = "loop"
                ELSE at' = at /\ pc' = "done"

\* Lines 61-68 and the loop: release, count, next trace or return.
AfterWait(r) ==
  /\ result' = [result EXCEPT ![at] = r]
  /\ workers' = workers + 1
  /\ count' = count + 1
  /\ IF at < N THEN at' = at + 1 /\ pc' = "loop"
               ELSE at' = at /\ pc' = "done"

\* Mutant: wait_for taken to return while the shell is still running.
FinishEarly ==
  /\ pc = "run"
  /\ shell[at] \in {"alive", "exited"}
  /\ shell' = [shell EXCEPT ![at] = IF @ = "alive" THEN "killed" ELSE @]
  /\ AfterWait("Completed")
  /\ UNCHANGED pipe

\* Line 58 returns: the shell has exited; p.kill() raises and is
\* swallowed (lines 61-64).
Finish ==
  /\ pc = "run"
  /\ shell[at] = "exited"
  /\ AfterWait("Completed")
  /\ UNCHANGED <<shell, pipe>>

\* Mutant: p.communicate() awaited without wait_for: no timer ever fires.
TimedOutNoTimer == FALSE

\* Lines 58-62: TIMEOUT elapses; p.kill() sends SIGKILL to the shell
\* (or fails if it already exited).  The pipeline is not signalled.
TimedOut ==
  /\ pc = "run"
  /\ shell[at] \in {"alive", "exited"}
  /\ shell' = [shell EXCEPT ![at] = IF @ = "alive" THEN "killed" ELSE @]
  /\ AfterWait("TimedOut")
  /\ UNCHANGED pipe

\* The pipeline of trace i ends by itself (end of trace, or a crash).
PipeExit(i) ==
  /\ pipe[i] = "alive"
  /\ pipe' = [pipe EXCEPT ![i] = "exited"]
  /\ UNCHANGED <<at, pc, workers, count, shell, result>>

\* The shell of trace i exits once its pipeline has ended.
ShellExit(i) ==
  /\ shell[i] = "alive"
  /\ pipe[i] # "alive"
  /\ shell' = [shell EXCEPT ![i] = "exited"]
  /\ UNCHANGED <<at, pc, workers, count, pipe, result>>

\* Lines 23-24 at import; main() calls run_stack_simulator on pt_traces.
Init ==
  /\ at = 1
  /\ pc = "loop"
  /\ workers = Capacity
  /\ count = 0
  /\ shell = [i \in Traces |-> "none"]
  /\ pipe = [i \in Traces |-> "none"]
  /\ result = [i \in Traces |-> "none"]

Next ==
  \/ Spawn \/ SpawnFail \/ Finish \/ TimedOut
  \/ \E i \in Traces : PipeExit(i) \/ ShellExit(i)

(***************************************************************************)
(* The event loop runs the task whenever its await completes; the shell  *)
(* exits as soon as its last child has; the pipeline itself is not        *)
(* obliged to end (only the timer bounds the wait).                       *)
(***************************************************************************)
Fairness ==
  /\ WF_vars(Spawn \/ SpawnFail) /\ WF_vars(Finish) /\ WF_vars(TimedOut)
  /\ \A i \in Traces : WF_vars(ShellExit(i))

Spec == Init /\ [][Next]_vars /\ Fairness

-----------------------------------------------------------------------------
TypeOK ==
  /\ at \in Traces
  /\ pc \in {"loop", "run", "done", "failed"}
  /\ workers \in Int
  /\ count \in Nat
  /\ shell \in [Traces -> ProcStates]
  /\ pipe \in [Traces -> ProcStates]
  /\ result \in [Traces -> {"none", "Completed", "TimedOut"}]

\* A stack-distance pipeline survives the end of its trace's wait only
\* when that wait timed out: a completed wait saw the shell exit, which
\* waits for its pipeline (so orphans come only from the kill of line 62).
OrphansOnlyFromTimeouts ==
  \A i \in Traces : pipe[i] = "alive" /\ result[i] # "none" => result[i] = "TimedOut"

\* run_stack_simulator eventually returns or raises.
LoopEnds == <>(pc \in {"done", "failed"})

=============================================================================
