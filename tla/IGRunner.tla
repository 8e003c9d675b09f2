------------------------------ MODULE IGRunner -------------------------------
(***************************************************************************)
(* The runner of src/input_generalization/run_input_generalization.py:    *)
(* the coroutine run() (lines 28-92), the rounds twig_profile_round,      *)
(* first_round and second_round (each one asyncio.gather of its run()    *)
(* tasks) and main(), which awaits the selected rounds one after the      *)
(* other under asyncio.run (lines 20-25, 242-279).                        *)
(*                                                                         *)
(* Unlike src/run_test.py, run() here takes its admission unit before it  *)
(* creates the output directory and opens the output file (lines 63-73), *)
(* and the `with` block closes the file on every exit from it.  Each      *)
(* action is one task from one await to the next, as in module RunTest.   *)
(***************************************************************************)
EXTENDS Integers, FiniteSets

CONSTANTS
  Tasks,      \* the run() coroutines of all selected rounds
  Capacity,   \* initial value of the global `workers` (line 15)
  NRounds,    \* number of rounds main() awaits ("both": first, second)
  Round,      \* Round[t]: the round whose gather runs task t
  Gen,        \* tasks with opt_generate: programs = [<prog>_generate, <prog>]
  CanFail     \* steps whose create_subprocess_exec may raise

Steps == (Tasks \X {1}) \cup (Gen \X {2})

ASSUME IGTasksAssumption    == IsFiniteSet(Tasks) /\ Tasks # {}
ASSUME IGCapacityAssumption == Capacity \in Nat \ {0}
ASSUME IGRoundAssumption    == NRounds \in Nat \ {0} /\ Round \in [Tasks -> 1..NRounds]
ASSUME IGGenAssumption      == Gen \subseteq Tasks
ASSUME IGCanFailAssumption  == CanFail \subseteq Steps

VARIABLES
  pc,        \* pc[t]: the await task t is suspended at, or how it ended
  prog,      \* prog[t]: index of the program of `programs` t is at
  workers,   \* the global admission counter
  count,     \* the global count of finished programs
  proc,      \* proc[s]: the child process of step s
  result,    \* result[s]: how wait_for ended for step s
  files,     \* steps whose output_file is open
  round,     \* the round main() is awaiting
  sweep      \* "running", or how asyncio.run ended

vars == <<pc, prog, workers, count, proc, result, files, round, sweep>>

PCs == {"init", "wait", "spawn", "run", "done", "failed"}

\* Number of entries of `programs` (lines 40-43).
NProg(t) == IF t \in Gen THEN 2 ELSE 1

Cur(t) == <<t, prog[t]>>

\* Tasks holding an admission unit (between line 66 and line 87).
Holders == {t \in Tasks : pc[t] \in {"spawn", "run", "failed"}}

-----------------------------------------------------------------------------
\* Mutant: `while workers < 0` instead of `while workers <= 0`.
GateOffByOne(t, s, w, open) ==
  \/ /\ w >= 0
     /\ workers' = w - 1
     /\ pc' = [pc EXCEPT ![t] = "spawn"]
     /\ files' = open \cup {s}
  \/ /\ w < 0
     /\ workers' = w
     /\ pc' = [pc EXCEPT ![t] = "wait"]
     /\ files' = open

\* Lines 62-73 reached with `workers` equal to w and the files `open`, for
\* step s: either take a unit, mkdir and open (truncate) the output file
\* of s, or start polling.
Gate(t, s, w, open) ==
  \/ /\ w > 0
     /\ workers' = w - 1
     /\ pc' = [pc EXCEPT ![t] = "spawn"]
     /\ files' = open \cup {s}
  \/ /\ w <= 0
     /\ workers' = w
     /\ pc' = [pc EXCEPT ![t] = "wait"]
     /\ files' = open

\* Mutant: the output file opened before the admission loop, as in
\* src/run_test.py.
StartOpensEarly(t) ==
  /\ sweep = "running"
  /\ round = Round[t]
  /\ pc[t] = "init"
  /\ Gate(t, <<t, 1>>, workers, files \cup {<<t, 1>>})
  /\ UNCHANGED <<prog, count, proc, result, round, sweep>>

\* The gather of the task's round runs it for the first time
\* (lines 40-66 for the first program).
Start(t) ==
  /\ sweep = "running"
  /\ round = Round[t]
  /\ pc[t] = "init"
  /\ Gate(t, <<t, 1>>, workers, files)
  /\ UNCHANGED <<prog, count, proc, result, round, sweep>>

\* Lines 63-73: wakes from asyncio.sleep(1) and finds a free unit.
Acquire(t) ==
  /\ sweep = "running"
  /\ pc[t] = "wait"
  /\ workers > 0
  /\ workers' = workers - 1
  /\ pc' = [pc EXCEPT ![t] = "spawn"]
  /\ files' = files \cup {Cur(t)}
  /\ UNCHANGED <<prog, count, proc, result, round, sweep>>

\* Lines 76-79: the child is spawned, wait_for starts.
SpawnOk(t) ==
  /\ sweep = "running"
  /\ pc[t] = "spawn"
  /\ proc' = [proc EXCEPT ![Cur(t)] = "alive"]
  /\ pc' = [pc EXCEPT ![t] = "run"]
  /\ UNCHANGED <<prog, workers, count, result, files, round, sweep>>

\* Lines 76-80: create_subprocess_exec raises something other than a
\* TimeoutError; it leaves the `with` block (closing the file) and run(),
\* skipping `workers += 1`.
SpawnFail(t) ==
  /\ sweep = "running"
  /\ pc[t] = "spawn"
  /\ Cur(t) \in CanFail
  /\ pc' = [pc EXCEPT ![t] = "failed"]
  /\ files' = files \ {Cur(t)}
  /\ UNCHANGED <<prog, workers, count, proc, result, round, sweep>>

\* Mutant: the loop over `programs` does not stop after the last one.
AfterJobNoBound(t) ==
  /\ count' = count + 1
  /\ prog' = [prog EXCEPT ![t] = prog[t] + 1]
  /\ Gate(t, <<t, prog[t] + 1>>, workers + 1, files \ {Cur(t)})

\* Lines 82-92 and the loop of line 45: kill, release, count, leave the
\* `with` block (closing the file), then either the next program's
\* admission test with the released unit or return from run().
AfterJob(t) ==
  /\ count' = count + 1
  /\ \/ /\ prog[t] < NProg(t)
        /\ prog' = [prog EXCEPT ![t] = prog[t] + 1]
        /\ Gate(t, <<t, prog[t] + 1>>, workers + 1, files \ {Cur(t)})
     \/ /\ prog[t] = NProg(t)
        /\ workers' = workers + 1
        /\ pc' = [pc EXCEPT ![t] = "done"]
        /\ files' = files \ {Cur(t)}
        /\ UNCHANGED prog

\* Line 79 returns: the child has exited; p.kill() (line 83) raises and
\* the bare except of line 84 swallows it.
Finish(t) ==
  /\ sweep = "running"
  /\ pc[t] = "run"
  /\ proc[Cur(t)] = "exited"
  /\ result' = [result EXCEPT ![Cur(t)] = "Completed"]
  /\ AfterJob(t)
  /\ UNCHANGED <<proc, round, sweep>>

\* Mutant: p.communicate() awaited without wait_for: no timer ever fires.
TimedOutNoTimer(t) == FALSE

\* Lines 79-83: TIMEOUT elapses first; p.kill() kills a child still
\* running, and fails silently on one that exited meanwhile.
TimedOut(t) ==
  /\ sweep = "running"
  /\ pc[t] = "run"
  /\ proc[Cur(t)] \in {"alive", "exited"}
  /\ proc' = [proc EXCEPT ![Cur(t)] = IF @ = "alive" THEN "killed" ELSE @]
  /\ result' = [result EXCEPT ![Cur(t)] = "TimedOut"]
  /\ AfterJob(t)
  /\ UNCHANGED <<round, sweep>>

\* The child of step s exits by itself.
ProcExit(s) ==
  /\ proc[s] = "alive"
  /\ proc' = [proc EXCEPT ![s] = "exited"]
  /\ UNCHANGED <<pc, prog, workers, count, result, files, round, sweep>>

\* Tasks of the round main() is awaiting.
InRound(r) == {t \in Tasks : Round[t] = r}

\* A failed task makes the round's gather raise (lines 130, 176, 201),
\* main() raises, and asyncio.run cancels every task still pending: each
\* stops at its await, skipping its release; the `with` blocks close
\* their files.  The later rounds are never created.
Abort ==
  /\ sweep = "running"
  /\ \E t \in Tasks : pc[t] = "failed"
  /\ sweep' = "aborted"
  /\ files' = {}
  /\ UNCHANGED <<pc, prog, workers, count, proc, result, round>>

\* Mutant: main() moves on as soon as one task of the round returned
\* (the round's tasks not awaited together).
NextRoundEarly ==
  /\ sweep = "running"
  /\ round < NRounds
  /\ \E t \in InRound(round) : pc[t] = "done"
  /\ round' = round + 1
  /\ UNCHANGED <<pc, prog, workers, count, proc, result, files, sweep>>

\* Lines 256-270: the round's gather returned; main() awaits the next
\* round, which creates its tasks and gathers them.
NextRound ==
  /\ sweep = "running"
  /\ round < NRounds
  /\ \A t \in InRound(round) : pc[t] = "done"
  /\ round' = round + 1
  /\ UNCHANGED <<pc, prog, workers, count, proc, result, files, sweep>>

\* Mutant: main() returns after the round it is awaiting, whichever it is.
CompleteEarly ==
  /\ sweep = "running"
  /\ \A t \in InRound(round) : pc[t] = "done"
  /\ sweep' = "done"
  /\ UNCHANGED <<pc, prog, workers, count, proc, result, files, round>>

\* Lines 269-279: the last round's gather returned; main() returns.
Complete ==
  /\ sweep = "running"
  /\ round = NRounds
  /\ \A t \in InRound(round) : pc[t] = "done"
  /\ sweep' = "done"
  /\ UNCHANGED <<pc, prog, workers, count, proc, result, files, round>>

-----------------------------------------------------------------------------
\* Lines 15-16 at import; main() starts with the first selected round.
Init ==
  /\ pc = [t \in Tasks |-> "init"]
  /\ prog = [t \in Tasks |-> 1]
  /\ workers = Capacity
  /\ count = 0
  /\ proc = [s \in Steps |-> "none"]
  /\ result = [s \in Steps |-> "none"]
  /\ files = {}
  /\ round = 1
  /\ sweep = "running"

Next ==
  \/ \E t \in Tasks :
       \/ Start(t) \/ Acquire(t) \/ SpawnOk(t) \/ SpawnFail(t)
       \/ Finish(t) \/ TimedOut(t)
  \/ \E s \in Steps : ProcExit(s)
  \/ Abort \/ NextRound \/ Complete

\* As in RunTest: the event loop runs every ready task and main() once
\* its gather is resolved; a child is not obliged to exit.
Fairness ==
  /\ \A t \in Tasks :
       /\ WF_vars(Start(t)) /\ WF_vars(Acquire(t))
       /\ WF_vars(SpawnOk(t) \/ SpawnFail(t))
       /\ WF_vars(Finish(t)) /\ WF_vars(TimedOut(t))
  /\ WF_vars(Abort) /\ WF_vars(NextRound) /\ WF_vars(Complete)

Spec == Init /\ [][Next]_vars /\ Fairness

-----------------------------------------------------------------------------
TypeOK ==
  /\ pc \in [Tasks -> PCs]
  /\ prog \in [Tasks -> {1, 2}]
  /\ \A t \in Tasks : Cur(t) \in Steps
  /\ workers \in Int
  /\ count \in Nat
  /\ proc \in [Steps -> {"none", "alive", "exited", "killed"}]
  /\ result \in [Steps -> {"none", "Completed", "TimedOut"}]
  /\ files \subseteq Steps
  /\ round \in 1..NRounds
  /\ sweep \in {"running", "aborted", "done"}

\* At no instant do more than Capacity simulators run, across the tasks
\* of a round polling the shared counter and the releases (line 87).
CapacityRespected == Cardinality({s \in Steps : proc[s] = "alive"}) <= Capacity

\* An output file is open only for the program a task is at, and only
\* while that task holds its admission unit before or during its child:
\* the open of line 73 follows the `workers -= 1` of line 66, and the
\* `with` block closes it on the success, timeout and spawn-failure paths.
OutputOpenOnlyWhileAdmitted ==
  \A s \in files : s = Cur(s[1]) /\ pc[s[1]] \in {"spawn", "run"}

\* The rounds do not overlap: no task of a round has started while a task
\* of an earlier round has not returned (main() awaits each round's
\* gather before it creates the next round's tasks).
RoundsInOrder ==
  \A t, u \in Tasks :
    Round[u] < Round[t] /\ pc[t] # "init" => pc[u] = "done"

\* When main() returns normally, every step of every selected round has
\* ended, and every admission unit is back.
SweepCompletion ==
  sweep = "done" =>
    /\ \A s \in Steps : result[s] # "none"
    /\ workers = Capacity

\* asyncio.run eventually returns.
SweepEnds == <>(sweep # "running")

-----------------------------------------------------------------------------
\* Refinement: the runner of every round implements the abstract Sweep.
AbsState(s) ==
  CASE result[s] # "none"                     -> result[s]
    [] result[s] = "none" /\ s = Cur(s[1]) /\ pc[s[1]] = "run"
                                              -> "Running"
    [] result[s] = "none" /\ s = Cur(s[1]) /\ pc[s[1]] = "failed"
                                              -> "LaunchFailed"
    [] OTHER                                  -> "Pending"

\* The abstract state of every step.
AbsSt == [s \in Steps |-> AbsState(s)]

Abs == INSTANCE Sweep WITH st <- AbsSt

\* Every behaviour of the input-generalization runner is one of Sweep.
AbsSpec == Abs!Spec

=============================================================================
