------------------------------- MODULE RunTest -------------------------------
(***************************************************************************)
(* The job runner of src/run_test.py: the coroutine run() (one per         *)
(* trace x configuration, created by main() through foo()) and the         *)
(* asyncio.gather over all tasks, under asyncio.run.                     *)
(*                                                                         *)
(* asyncio runs one task at a time and switches only at an await, so each  *)
(* action below is the code of one task from one await to the next:       *)
(*   - Start:    task begins; mkdir, open(output_path, "w"), build args,   *)
(*               test `workers` (lines 112-221);                           *)
(*   - Acquire:  wakes from asyncio.sleep(1) and finds workers > 0;        *)
(*   - SpawnOk / SpawnFail: create_subprocess_exec returns or raises;      *)
(*   - Finish / TimedOut: wait_for(p.communicate(), TIMEOUT) returns or    *)
(*               raises TimeoutError; then p.kill(), workers += 1,         *)
(*               count += 1, and the next program of the loop up to its    *)
(*               own admission test;                                       *)
(*   - Abort:    the first exception of a task reaches gather, main()      *)
(*               raises and asyncio.run cancels every other task;          *)
(*   - Complete: gather returns once every task has returned.              *)
(* ProcExit is the child process exiting on its own, at any time.          *)
(*                                                                         *)
(* Data is abstracted away: a task is a model value, its output file is    *)
(* its step <<t, k>> (k-th program of the `programs` list of run()).       *)
(***************************************************************************)
EXTENDS Integers, FiniteSets

CONSTANTS
  Tasks,      \* the run() coroutines gathered by main()
  Capacity,   \* initial value of the global `workers` (67)
  Gen,        \* tasks whose run_program ends in "opt" with --generate:
              \* programs = [<run_program>_generate, <run_program>]
  CanFail     \* steps whose create_subprocess_exec may raise (missing
              \* binary, fork or fd exhaustion)

Steps == (Tasks \X {1}) \cup (Gen \X {2})

ASSUME TasksAssumption    == IsFiniteSet(Tasks) /\ Tasks # {}
ASSUME CapacityAssumption == Capacity \in Nat \ {0}
ASSUME GenAssumption      == Gen \subseteq Tasks
ASSUME CanFailAssumption  == CanFail \subseteq Steps

VARIABLES
  pc,        \* pc[t]: the await task t is suspended at, or how it ended
  prog,      \* prog[t]: index of the program of `programs` t is at
  workers,   \* the global admission counter
  count,     \* the global count of finished programs
  proc,      \* proc[s]: the child process of step s
  result,    \* result[s]: how wait_for ended for step s
  files,     \* steps whose output_file object is open
  sweep      \* state of main()'s asyncio.gather

vars == <<pc, prog, workers, count, proc, result, files, sweep>>

PCs == {"init",      \* created by gather, not yet run
        "wait",      \* in `while workers <= 0: await asyncio.sleep(1)`
        "spawn",     \* workers -= 1 done, awaiting create_subprocess_exec
        "run",       \* awaiting wait_for(p.communicate(), timeout=TIMEOUT)
        "done",      \* returned
        "failed"}    \* raised out of run()

\* Number of entries of `programs` (lines 140-147).
NProg(t) == IF t \in Gen THEN 2 ELSE 1

\* The step task t is at.
Cur(t) == <<t, prog[t]>>

\* Tasks that hold an admission unit: they did `workers -= 1` and have not
\* executed the matching `workers += 1`.
Holders == {t \in Tasks : pc[t] \in {"spawn", "run", "failed"}}

-----------------------------------------------------------------------------
\* Mutant: `while workers < 0` instead of `while workers <= 0`.
GateOffByOne(t, w) ==
  \/ /\ w >= 0
     /\ workers' = w - 1
     /\ pc' = [pc EXCEPT ![t] = "spawn"]
  \/ /\ w < 0
     /\ workers' = w
     /\ pc' = [pc EXCEPT ![t] = "wait"]

\* The admission test of lines 217-221, reached with `workers` equal to w:
\* either the task takes a unit and goes on to spawn, or it starts polling.
Gate(t, w) ==
  \/ /\ w > 0
     /\ workers' = w - 1
     /\ pc' = [pc EXCEPT ![t] = "spawn"]
  \/ /\ w <= 0
     /\ workers' = w
     /\ pc' = [pc EXCEPT ![t] = "wait"]

\* Lines 112-221 for the first program: output file opened (truncated)
\* before the admission test.
Start(t) ==
  /\ sweep = "running"
  /\ pc[t] = "init"
  /\ files' = files \cup {<<t, 1>>}
  /\ Gate(t, workers)
  /\ UNCHANGED <<prog, count, proc, result, sweep>>

\* Mutant: the poll loop leaves on a free unit but `workers -= 1` is lost.
AcquireNoTake(t) ==
  /\ sweep = "running"
  /\ pc[t] = "wait"
  /\ workers > 0
  /\ pc' = [pc EXCEPT ![t] = "spawn"]
  /\ UNCHANGED <<prog, workers, count, proc, result, files, sweep>>

\* Lines 218-221: the task wakes from asyncio.sleep(1) with a free unit.
Acquire(t) ==
  /\ sweep = "running"
  /\ pc[t] = "wait"
  /\ workers > 0
  /\ workers' = workers - 1
  /\ pc' = [pc EXCEPT ![t] = "spawn"]
  /\ UNCHANGED <<prog, count, proc, result, files, sweep>>

\* Lines 224-227: the child is spawned, wait_for starts.
SpawnOk(t) ==
  /\ sweep = "running"
  /\ pc[t] = "spawn"
  /\ proc' = [proc EXCEPT ![Cur(t)] = "alive"]
  /\ pc' = [pc EXCEPT ![t] = "run"]
  /\ UNCHANGED <<prog, workers, count, result, files, sweep>>

\* Lines 223-228: create_subprocess_exec raises; the exception is not a
\* TimeoutError, so it leaves run() before lines 230-236: no kill, no
\* `workers += 1`.  The file is closed no later than Abort: the task's
\* exception holds run()'s frame, and output_file with it, until gather
\* collects the exception; the model closes it here.
SpawnFail(t) ==
  /\ sweep = "running"
  /\ pc[t] = "spawn"
  /\ Cur(t) \in CanFail
  /\ pc' = [pc EXCEPT ![t] = "failed"]
  /\ files' = files \ {Cur(t)}
  /\ UNCHANGED <<prog, workers, count, proc, result, sweep>>

\* Mutant: the loop over `programs` does not stop after the last one.
AfterJobNoBound(t) ==
  /\ count' = count + 1
  /\ prog' = [prog EXCEPT ![t] = prog[t] + 1]
  /\ files' = (files \ {Cur(t)}) \cup {<<t, prog[t] + 1>>}
  /\ Gate(t, workers + 1)

\* Lines 230-237 and the loop of line 148: release, count, then either the
\* next program (open its output file, admission test with the released
\* unit) or return from run(), which closes output_file.
AfterJob(t) ==
  /\ count' = count + 1
  /\ \/ /\ prog[t] < NProg(t)
        /\ prog' = [prog EXCEPT ![t] = prog[t] + 1]
        /\ files' = (files \ {Cur(t)}) \cup {<<t, prog[t] + 1>>}
        /\ Gate(t, workers + 1)
     \/ /\ prog[t] = NProg(t)
        /\ workers' = workers + 1
        /\ pc' = [pc EXCEPT ![t] = "done"]
        /\ files' = files \ {Cur(t)}
        /\ UNCHANGED prog

\* Line 227 returns: communicate() saw the child exit; p.kill() at line
\* 231 raises ProcessLookupError, swallowed at line 232.
Finish(t) ==
  /\ sweep = "running"
  /\ pc[t] = "run"
  /\ proc[Cur(t)] = "exited"
  /\ result' = [result EXCEPT ![Cur(t)] = "Completed"]
  /\ AfterJob(t)
  /\ UNCHANGED <<proc, sweep>>

\* Mutant: the TimeoutError handler does not kill the child.
TimedOutNoKill(t) ==
  /\ sweep = "running"
  /\ pc[t] = "run"
  /\ proc[Cur(t)] \in {"alive", "exited"}
  /\ result' = [result EXCEPT ![Cur(t)] = "TimedOut"]
  /\ AfterJob(t)
  /\ UNCHANGED <<proc, sweep>>

\* Mutant: p.communicate() awaited without wait_for: no timer ever fires.
TimedOutNoTimer(t) == FALSE

\* Lines 227-231: TIMEOUT elapses first.  The timer may fire after the
\* child exited but before the task resumed; the kill then fails and is
\* swallowed, otherwise it kills the child.
TimedOut(t) ==
  /\ sweep = "running"
  /\ pc[t] = "run"
  /\ proc[Cur(t)] \in {"alive", "exited"}
  /\ proc' = [proc EXCEPT ![Cur(t)] =
                IF @ = "alive" THEN "killed" ELSE @]
  /\ result' = [result EXCEPT ![Cur(t)] = "TimedOut"]
  /\ AfterJob(t)
  /\ UNCHANGED sweep

\* The child of step s exits by itself (the simulator finishes or crashes).
ProcExit(s) ==
  /\ proc[s] = "alive"
  /\ proc' = [proc EXCEPT ![s] = "exited"]
  /\ UNCHANGED <<pc, prog, workers, count, result, files, sweep>>

\* Line 411 and asyncio.run (lines 240-243): a failed task makes gather
\* raise in main(); asyncio.run then cancels every pending task, which
\* stops at its await without running its release code; their frames die
\* and close their output files.  Children already spawned are left alone.
Abort ==
  /\ sweep = "running"
  /\ \E t \in Tasks : pc[t] = "failed"
  /\ sweep' = "aborted"
  /\ files' = {}
  /\ UNCHANGED <<pc, prog, workers, count, proc, result>>

\* Mutant: the driver returns as soon as one task has returned.
CompleteOnFirst ==
  /\ sweep = "running"
  /\ \E t \in Tasks : pc[t] = "done"
  /\ sweep' = "done"
  /\ UNCHANGED <<pc, prog, workers, count, proc, result, files>>

\* Line 411: gather returns when every task has returned.
Complete ==
  /\ sweep = "running"
  /\ \A t \in Tasks : pc[t] = "done"
  /\ sweep' = "done"
  /\ UNCHANGED <<pc, prog, workers, count, proc, result, files>>

-----------------------------------------------------------------------------
\* Lines 20-21 and 411: the counters at import, every task created.
Init ==
  /\ pc = [t \in Tasks |-> "init"]
  /\ prog = [t \in Tasks |-> 1]
  /\ workers = Capacity
  /\ count = 0
  /\ proc = [s \in Steps |-> "none"]
  /\ result = [s \in Steps |-> "none"]
  /\ files = {}
  /\ sweep = "running"

Next ==
  \/ \E t \in Tasks :
       \/ Start(t) \/ Acquire(t) \/ SpawnOk(t) \/ SpawnFail(t)
       \/ Finish(t) \/ TimedOut(t)
  \/ \E s \in Steps : ProcExit(s)
  \/ Abort
  \/ Complete

(***************************************************************************)
(* The event loop runs every ready task: a task whose await has completed  *)
(* (spawn returned, child exited, timer fired, sleep elapsed with a free   *)
(* unit) and main() once gather is resolved.  A child process is not      *)
(* obliged to exit: only the TIMEOUT timer bounds it, so ProcExit is not   *)
(* fair.                                                                   *)
(***************************************************************************)
Fairness ==
  /\ \A t \in Tasks :
       /\ WF_vars(Start(t)) /\ WF_vars(Acquire(t))
       /\ WF_vars(SpawnOk(t) \/ SpawnFail(t))
       /\ WF_vars(Finish(t)) /\ WF_vars(TimedOut(t))
  /\ WF_vars(Abort)
  /\ WF_vars(Complete)

Spec == Init /\ [][Next]_vars /\ Fairness

-----------------------------------------------------------------------------
(***************************************************************************)
(* Invariants and properties.                                              *)
(***************************************************************************)

TypeOK ==
  /\ pc \in [Tasks -> PCs]
  /\ prog \in [Tasks -> {1, 2}]
  /\ \A t \in Tasks : Cur(t) \in Steps
  /\ workers \in Int
  /\ count \in Nat
  /\ proc \in [Steps -> {"none", "alive", "exited", "killed"}]
  /\ result \in [Steps -> {"none", "Completed", "TimedOut"}]
  /\ files \subseteq Steps
  /\ sweep \in {"running", "aborted", "done"}

\* Child processes that are still running.
Alive == {s \in Steps : proc[s] = "alive"}

\* At no instant do more than Capacity simulator processes run at once,
\* whatever the interleaving of the polling loops (lines 218-221), the
\* releases (line 235), timeouts and spawn failures.
CapacityRespected == Cardinality(Alive) <= Capacity

\* The global counter `workers` is exactly Capacity minus the units held:
\* every `workers -= 1` (line 221) is matched by one `workers += 1` (line
\* 235) on the same task, and a task that raised keeps its unit.
TokenAccounting == workers + Cardinality(Holders) = Capacity

\* Once wait_for has ended for a step (completed or TimeoutError), its
\* simulator is no longer running: the kill of line 231 stops a timed-out
\* child before its slot is reused or the next program of the task (the
\* run after a _generate) starts.
NoLiveProcessAfterResult ==
  \A s \in Steps : result[s] # "none" => proc[s] # "alive"

\* When gather (line 411) returns normally, every step has ended once,
\* every unit is back, the progress counter counts every program and no
\* output file is left open.
SweepCompletion ==
  sweep = "done" =>
    /\ \A s \in Steps : result[s] # "none"
    /\ workers = Capacity
    /\ count = Cardinality(Steps)
    /\ files = {}

\* The sweep eventually ends: asyncio.run returns (normally or by an
\* exception); no task polls forever and no child blocks a task beyond
\* its TIMEOUT.
SweepEnds == <>(sweep # "running")

(***************************************************************************)
(* Statements of spec.md that run_test.py does not meet (violation runs).  *)
(***************************************************************************)

\* spec.md 8: by the time the scheduler returns, every job has reached
\* exactly one terminal state (a launch failure being LaunchFailed) -- a
\* spawn failure must not abort the other jobs (spec.md 4.3).
SweepEndsWithEveryJobTerminal ==
  sweep # "running" =>
    \A s \in Steps :
      result[s] # "none" \/ (s = Cur(s[1]) /\ pc[s[1]] = "failed")

\* spec.md 4.3 / 7: the admission unit is released on every exit path of
\* the runner, exceptions included: only tasks that are spawning or
\* running hold one.
ReleaseOnEveryExit ==
  workers + Cardinality({t \in Tasks : pc[t] \in {"spawn", "run"}}) = Capacity

\* spec.md 4.3: the runner opens output_path with the admission token
\* held, and closes it on every exit path.
OutputOpenOnlyWhileAdmitted ==
  \A s \in files : s = Cur(s[1]) /\ pc[s[1]] \in {"spawn", "run"}

-----------------------------------------------------------------------------
(***************************************************************************)
(* Refinement: the runner implements the abstract Sweep.  A step is        *)
(* Running from its spawn to the end of its wait_for, LaunchFailed when    *)
(* its spawn raised, and Pending before.                                   *)
(***************************************************************************)
AbsState(s) ==
  CASE result[s] # "none"                     -> result[s]
    [] result[s] = "none" /\ s = Cur(s[1]) /\ pc[s[1]] = "run"
                                              -> "Running"
    [] result[s] = "none" /\ s = Cur(s[1]) /\ pc[s[1]] = "failed"
                                              -> "LaunchFailed"
    [] OTHER                                  -> "Pending"

\* The abstract state of every step.
AbsSt == [s \in Steps |-> AbsState(s)]

Abs == INSTANCE Sweep WITH st <- AbsSt

\* Every behaviour of run_test.py's runner is a behaviour of the abstract
\* sweep: steps move Pending -> Running -> terminal (or Pending ->
\* LaunchFailed) once, and a spawn happens only below the ceiling.
AbsSpec == Abs!Spec

=============================================================================
