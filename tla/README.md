# Verification of the batch job runners of thermometer-artifact

This directory holds TLA+ models of the parts of the repository that run
external programs concurrently:

- the simulator sweep of `src/run_test.py`: the job enumeration in `main()`
  and `foo()`, the `run()` coroutine and `asyncio.gather`;
- its sibling `src/input_generalization/run_input_generalization.py`;
- the stack-distance runner `src/plots/gen_footprint_size_raw_data.py`;
- the process pool of `src/plots/btb_miss_analysis.py`.

With the models come the TLC configurations that check them, and TLAPS
proofs for every value of the constants.

## 1. Inventory

### Components

| Component | Source | Module | State | Operations |
|---|---|---|---|---|
| Admission controller | `src/run_test.py` 20, 217-221, 235 | `RunTest` | global `workers` (67) | a test-and-decrement in a polling loop (`while workers <= 0: await asyncio.sleep(1)`); `workers += 1` |
| Process runner | `src/run_test.py` `run()` 97-237 | `RunTest` | per task: the `programs` index, `output_file`, the child `p` | open the output, `create_subprocess_exec`, `wait_for(p.communicate(), TIMEOUT)`, `p.kill()` (errors swallowed), release, `count += 1` |
| Scheduler | `src/run_test.py` `main()` 411, `cli_async` 240-245 | `RunTest` | the task list, `gather` | fan-out and fan-in; the first exception ends `main()`, and `asyncio.run` cancels the rest |
| JobStore | `src/run_test.py` `main()` 326-411, `foo()` 248-294, `get_output_filename` 73-82, `get_result_dirname` 85-94, path code of `run()` 112-179 | `JobStore` | the axis lists | nested loops with the non-default filter; one `foo()` call per trace type; one `run()` per application; output path |
| Input-generalization runner | `run_input_generalization.py` 15-92, 101-279 | `IGRunner` | the same globals (75) | the same loop, but the file is opened after admission in a `with`; the rounds are gathered one after the other |
| Footprint runner | `gen_footprint_size_raw_data.py` 23-82 | `Footprint` | the same globals | one coroutine runs `zcat \| stack-distance` through a shell, trace after trace |
| BTB miss pool | `btb_miss_analysis.py` 12-66 | `BtbPool` | stdout buffers | per size: print a header, then `Pool(26).starmap` of pipelines that print one row each |
| Parsing and plots | the rest of `src/` | none | files | out of scope (spec.md 1) |

### Interaction

`main()` of `run_test.py` expands the axis options into a list of `run()`
coroutines (JobStore), and `asyncio.gather` runs them as tasks on one
event loop. The tasks share only the globals `workers` and `count`. A task
switches only at an `await`: the admission sleep, the spawn and the
`wait_for`. The children run outside the loop. `communicate()` returns
when the child exits, and `wait_for` raises `TimeoutError` after
`TIMEOUT`. An exception that leaves a task makes `gather` raise, and
`asyncio.run` then cancels every pending task.

`run_input_generalization.py` repeats the pattern, round after round.
`gen_footprint_size_raw_data.py` runs it with a single task.
`btb_miss_analysis.py` uses a process pool instead. Its workers print the
results themselves, and the pool is torn down with `terminate()`.

### What is hard

- The interleaving of hundreds of tasks on the shared counter. The
  test-and-decrement is atomic only because no `await` separates the test
  from the decrement.
- Failure paths. A spawn that raises skips the release and the kill, and it
  aborts the sweep. Cancelled tasks release nothing and kill nothing.
- Timeouts racing a child's natural exit, and a kill that reaches only a
  shell, not the pipeline the shell runs.
- Sequencing: a `_generate` program runs before its simulator, and one
  round runs before the next.
- Resources: output files opened before admission, and stdout buffers
  that are lost when a worker is killed.
- Enumeration: blanks left in option values, and output names built by
  concatenation with no separator.
- Liveness: tasks poll with no fairness, and children may hang.

## 2. Modules

- `Sweep.tla` is the abstract specification, taken from spec.md 4.3 rather
  than from the code. Each step goes `Pending -> Running -> Completed |
  TimedOut` or `Pending -> LaunchFailed`. A launch happens only while fewer
  than `Capacity` steps are running.
- `RunTest.tla` models `run_test.py`'s `run()`, `gather` and `asyncio.run`.
  It has one action per await-to-await segment of `run()`, plus
  `ProcExit` for the child and `Abort`/`Complete` for the driver.
  - Constants: `Tasks`, `Capacity`, `Gen` (the tasks whose `programs` list
    is `[X_generate, X]`) and `CanFail` (the steps whose spawn may raise).
  - State:
    - `pc[t]`: the `await` a task is at (`init`, `wait`, `spawn`, `run`), or
      how it ended (`done`, `failed`).
    - `prog[t]`: the index in `programs`.
    - `workers` and `count`: the globals.
    - `proc[s]`: the child of step `s`.
    - `result[s]`: which branch of `wait_for` was taken.
    - `files`: the open output files.
    - `sweep`: the state of `gather`.
  - Abort leaves the cancelled tasks where they were suspended. This
    matches a cancelled coroutine, which runs none of its remaining code.
  - The refinement mapping `AbsState` sends a step:
    - to its `result` once it is set;
    - to `Running` while its task awaits `wait_for` on it;
    - to `LaunchFailed` when its spawn raised;
    - to `Pending` otherwise.
- `IGRunner.tla` is the same model for `run_input_generalization.py`, with
  these differences:
  - `Gate` opens the output file only when it takes a unit.
  - `SpawnFail` closes the file, because the `with` block exits.
  - `Round[t]` assigns each task to a round. `round` is the round `main()`
    awaits.
  - `NextRound` and `Complete` fire when every task of the current round
    has returned.
  - It refines `Sweep` with the same mapping.
- `Footprint.tla` models `run_stack_simulator`. It keeps the shell
  (`shell[i]`) and the `zcat | stack-distance` pipeline (`pipe[i]`)
  separate:
  - `ShellExit` is enabled only once the pipeline has ended.
  - `TimedOut` kills the shell alone, which is what `p.kill()` does to the
    child of `create_subprocess_shell`.
- `BtbPool.tla` models `btb_miss_analysis.py`.
  - The parent prints a header (`StartSize`).
  - Idle workers take applications (`Take`). The pipeline ends
    (`ChildExit`). The worker parses the output (`Parse`): it either
    prints a row or raises, because one of the `re.search` calls
    returned `None`.
  - `EndMap` models the return of `starmap`, which waits for every task.
    The `terminate()` at the end of the `with` block follows. Each worker
    either takes an exit sentinel and flushes its buffer as it exits
    (`WorkerFlush`), or is killed by SIGTERM and loses it
    (`WorkerKilled`). In CPython the worker blocked on the task queue
    usually takes a sentinel and the others are killed; the model lets
    each worker go either way. `Close` is the return of `terminate()`:
    the next size, the end, or the exception of `starmap`.
  - A worker's `print` is `Emit`. It writes to the worker's own buffer
    when `Redirected` holds, and straight to the output otherwise. The
    parent's header reaches the output at once either way, because
    `Pool(26)` flushes the parent's stdout before it forks.
- `JobStore.tla` models the enumeration as one step from a command line
  (`in`) to the job list (`jobs`) or to `TypeError`.
  - `TypeError` comes from argument binding. `FooParams` lists `foo`'s
    parameters, none with a default. `CallArgs(m)` lists what the call
    site for mode `m` binds. The ipc1 call omits `twig_profile`, so
    `--trace-type ipc1` or `both` raises before any job is dispatched.
    No run checks this: it shows at the first call, and reading lines
    363-377 shows it as well.
  - Option values are sequences of characters, so that `strip()` (`Strip`),
    `int()` (`Val`) and concatenation are modelled by what they do.
  - The nested loops are `FlattenSeq` over index functions, and the skip
    is `SelectSeq` with `Kept`.
  - `OutputPath` is the triple of raw-data directory, result directory and
    file name that `run()` joins.
  - `--generate` and `--use-twig-prefetch` keep their defaults.
- `MC_RunTest.tla`, `MC_IGRunner.tla`, `MC_BtbPool.tla` and `MC_JobStore.tla`
  give TLC the model values and constant sets. `Footprint` needs none.
- `RunTestProofs.tla`, `IGRunnerProofs.tla`, `FootprintProofs.tla` and
  `BtbPoolProofs.tla` hold the TLAPS proofs of invariants.
  `RunTestRefinement.tla` and `IGRunnerRefinement.tla` hold the proofs
  that the runners implement `Sweep`.

Abstraction, in every module: paths, argument lists, and printing apart
from what `BtbPool` is about are left out. A task or an application is a
model value. Real time is abstracted: a timeout may fire at any moment
while a child runs.

## 3. Runs

| Run | Module / cfg | Expect | Shows |
|---|---|---|---|
| `runner_safety` | `MC_RunTest` / `MC_RunTest.cfg` | pass | `TypeOK`, `CapacityRespected`, `TokenAccounting`, `NoLiveProcessAfterResult`, `SweepCompletion`, the liveness property `SweepEnds`, and the refinement `AbsSpec` |
| `launch_failure_aborts_sweep` | `MC_RunTest_abort.cfg` | violation | a spawn failure ends the sweep with jobs never run (spec.md 4.3, 8) |
| `launch_failure_leaks_slot` | `MC_RunTest_leak.cfg` | violation | a spawn failure keeps its admission unit (spec.md 4.3, 7) |
| `output_opened_before_admission` | `MC_RunTest_open.cfg` | violation | output files are truncated and held open before admission |
| `ig_safety` | `MC_IGRunner` / `MC_IGRunner.cfg` | pass | `TypeOK`, `CapacityRespected`, `OutputOpenOnlyWhileAdmitted`, `RoundsInOrder`, `SweepCompletion`, `SweepEnds`, `AbsSpec` |
| `footprint_safety` | `Footprint` / `MC_Footprint.cfg` | pass | `TypeOK`, `OrphansOnlyFromTimeouts`, `LoopEnds` |
| `btb_table` | `MC_BtbPool` / `MC_BtbPool.cfg` | pass | on a terminal, the output at exit is one complete table per finished size (`TableAtExit`) |
| `btb_redirect` | `MC_BtbPool_redirect.cfg` | violation | redirected to a file, the rows of every killed worker are lost |
| `jobstore_paths` | `MC_JobStore` / `MC_JobStore.cfg` | pass | the jobs' output paths are pairwise distinct (`OutputPathsDistinct`) |
| `jobstore_strip` | `MC_JobStore_strip.cfg` | violation | `"4, 8"` as train ways drops the matching 8-way combination |
| `jobstore_digit` | `MC_JobStore_digit.cfg` | violation | programs `lru` and `lru2` with total ways `24` and `4` share an output file |

### Bounds, and why they are enough

- `RunTest`: four tasks, two of them with `_generate`, a ceiling of 2, and
  a failing first spawn and a failing second spawn (36,480 states). This
  gives:
  - more tasks than units, so tasks wait in the polling loop;
  - a `_generate` task that re-enters admission while others wait;
  - timeouts both before and after a child's exit.
- `IGRunner`: five tasks in two rounds (three, then two), one `_generate`
  task, a ceiling of 2, and two failing spawns (7,402 states). The first
  round alone exceeds the ceiling, and a failure can happen in either
  round.
- `Footprint`: three traces, the second of which may fail to spawn. This
  covers a timeout with a live pipeline, followed by the next admission.
- `BtbPool`: two sizes, three applications and two workers, so that one
  worker runs two tasks. One (size, application) pair has a dineroIV run
  that may fail, so both the success and the abort paths are reached.
- `JobStore`: every combination of these, 640 command lines:
  - ways lists `4` and `4, 8`;
  - entries lists `8` and `8, 2` (the 8K default with its empty prefix,
    and a `K_` prefix);
  - the same lists for the train options;
  - `--use-default-btb-record` on or off;
  - all five trace types;
  - one or two programs;
  - one or two applications.

  The passing run uses lists whose stripped values are distinct and
  program names that end in a letter. `jobstore_digit` lifts the second
  restriction: program names `lru` and `lru2` with ways `24,4`.

`CHECK_DEADLOCK FALSE` is set everywhere because every program stops
after its last step (the return of `main()`, or an abort). Stuck states
are caught instead by the liveness properties `SweepEnds` and `LoopEnds`.

Every property of a passing run has a mutant, placed just before the
definition it replaces. Each mutant is a plausible slip in the code, and
TLC finds it:

- `GateOffByOne`: `while workers < 0`.
- `AcquireNoTake`: the decrement is lost.
- `TimedOutNoKill`: no `p.kill()`.
- `TimedOutNoTimer`: `communicate()` is awaited without `wait_for`.
- `CompleteOnFirst` and `CompleteEarly`: the driver returns too soon.
- `AfterJobNoBound` and `AfterWaitPastEnd`: a loop that does not stop.
- `StartOpensEarly`: the file is opened before admission, as in
  `run_test.py`.
- `NextRoundEarly`: the next round starts when one task of this round
  has returned.
- `FinishEarly`: the wait returns with the shell alive.
- `EndMapNoWait` and `CloseNextPastEnd`: no wait for `starmap`, and one
  size too many.
- `FileNameNoTrain`: the default-record suffix is left out of the file
  name.

### Fairness

Every task action is weakly fair, and so are the driver steps (`Abort`,
`NextRound`, `Complete`). The event loop runs every task whose `await`
has completed, and `main()` once its `gather` is resolved.

`Acquire` needs only weak fairness. Waiters can lose races, but the set of
tasks is finite: once the others have finished, `workers > 0` stays true.

A child's own exit (`ProcExit`, `PipeExit`, `ChildExit`) is not fair: a
simulator may hang. The only bound is the `TIMEOUT` timer (`TimedOut`,
weakly fair), which is why the mutants without the timer violate `SweepEnds`
and `LoopEnds`. The shell's exit after its pipeline (`ShellExit`) is
fair. In `BtbPool`, `communicate()` has no timeout, so no liveness
property is claimed there.

## 4. Findings

- `run_test.py:224`: a spawn failure aborts the whole sweep
  (`launch_failure_aborts_sweep`).
- `run_test.py:235`: the release is not in a `finally`
  (`launch_failure_leaks_slot`). `run_input_generalization.py:87` has the
  same shape; `IGRunner` models it the same way.
- `run_test.py:180`: output files are opened before admission
  (`output_opened_before_admission`). `run_input_generalization.py` does
  it right, and `ig_safety` checks that.
- `btb_miss_analysis.py:24`: with stdout redirected, the rows of every
  worker that `terminate()` kills never reach the file (`btb_redirect`).
  Only a worker that takes an exit sentinel first flushes.
- `run_test.py:342`: train values are compared unstripped
  (`jobstore_strip`).
- `run_test.py:94`: the result directory joins the program name and the
  ways with no separator, so `lru` with 24 ways and `lru2` with 4 ways
  write the same output file (`jobstore_digit`, spec.md 3).

Two more observations, with no run. The ipc1 call of `foo()` at
`run_test.py:365` lacks `twig_profile`, so `--trace-type ipc1` or `both`
raises `TypeError`. `JobStore` derives this from the call's arguments,
but it shows at the first call and needs no model checking. At
`gen_footprint_size_raw_data.py:62`, `p.kill()` kills only `/bin/sh`, and
`zcat | stack-distance` goes on running. That script is under
`src/plots`, outside the runner spec.md 8 describes, so the project
claims no contract for it. `OrphansOnlyFromTimeouts` (proved) shows that
the kill after a timeout is the only way a pipeline is orphaned.

## 5. Proofs (TLAPS)

The proofs hold for every value of the constants that satisfies the
modules' `ASSUME`s:

- every finite, non-empty task set;
- every `Capacity \in Nat \ {0}`;
- `Gen \subseteq Tasks` and `CanFail \subseteq Steps`;
- for `IGRunner`, every `Round \in [Tasks -> 1..NRounds]`;
- for `Footprint`, every `N \in Nat \ {0}` and `CanFail \subseteq 1..N`;
- for `BtbPool`, every `NS \in Nat \ {0}`, every finite non-empty `Apps`
  that does not contain the model's mark `"idle"`, every non-empty set of
  workers (finite or not), and every `Bad \subseteq Sizes \X Apps`.

Each strengthening below was checked with TLC as an invariant of the
module's passing run before it was proved.

`RunTestProofs`:

- `TypeCorrect`: `TypeOK` is inductive by itself. It includes
  `Cur(t) \in Steps`: the `programs` loop never moves past its end.
- `TokenAccountingHolds`:
  - The inductive invariant is `TypeOK /\ workers >= 0 /\ TokenAccounting`.
  - `workers >= 0` is needed because a `_generate` task re-enters the
    admission test with the unit it has just released.
  - The lemmas `HolderAdded` and `HolderRemoved` count the holders.
- `CapacityRespectedHolds`:
  - The strengthening is `AliveOwned`: every live child belongs to a task
    that awaits `wait_for` on that step.
  - So `t |-> Cur(t)` maps the tasks with live children onto the live
    children. There are at most `Capacity - workers` such tasks.
- `NoLiveProcessAfterResultHolds`. The invariant `RInv` adds `ResultIff`:
  a step has a result exactly when its task has passed it, or is at it
  and done. So the step a task is about to spawn has no result yet, and
  `AfterJob` sets the result of the step whose child it has just killed
  or reaped.
- `SweepCompletionHolds`. `CInv` adds to `RInv` and the accounting:
  - `LoopInv`: a task that has not started is at its first program, and
    a done task at its last;
  - `FilesLive`: an open file is that of a task between `Gate` and the
    end of its wait;
  - `SweepDone`: `gather` returns only when every task is done;
  - `CountFinished`: `count` is the number of steps with a result.
  `StepsFinite` (from `FS_Product` and `FS_Union`) makes these counts
  finite.

`RunTestRefinement`: `RunTestRefinesSweep` proves `Spec => AbsSpec`.

- `AbsInitial`: every step starts `Pending`.
- `AbsStep`, one case per action:
  - `SpawnOk` is a Sweep `Launch`. `LaunchBelowCapacity` shows that the
    abstract guard holds: fewer than `Capacity` steps are `Running`
    while a task holds a unit for its spawn. `RunningOwned` is the
    surjection from the tasks in `run` onto the `Running` steps.
  - `SpawnFail` is `Fail`, `Finish` is `Complete`, `TimedOut` is
    `Expire`.
  - Every other action leaves `AbsSt` unchanged (lemma `AbsFrame`).
- The arms of `AbsState` are mutually exclusive, so each step's
  abstract state is read off one arm (lemma `AbsStateCases`).

`IGRunnerProofs`:

- `TypeCorrect`, as for `RunTest`. The round also stays in
  `1..NRounds`.
- `RoundsInOrderHolds`:
  - `RoundsInOrder` alone is not inductive.
  - The strengthening adds `StartedReached` (a started task is in a round
    `main()` has reached) and `EarlierDone` (every task of an earlier
    round has returned).
  - `NextRound` preserves `EarlierDone` because it requires every task of
    the current round to be done.
- `OutputOpenOnlyWhileAdmittedHolds`:
  - The strengthening adds `InitAtFirst`: a task that has not started is
    at its first program, so the file `Start` opens is its current one.
  - The lemma `OwnStep` factors out the frame argument: a step that
    moves one task keeps the files of every other task.
- `CapacityRespectedHolds`. This is the `RunTest` argument again: the
  unit accounting (`TokenAccounting`, proved here) and `AliveOwned`.
- `SweepCompletionHolds`. `ResultIff`, `DoneAtLast` and `SweepDone`. At
  `Complete`, `EarlierDone` and the last round show that every task is
  done.

`IGRunnerRefinement`: `IGRunnerRefinesSweep` proves `Spec => AbsSpec`
with the same mapping and step cases; `NextRound` is a stutter.

`FootprintProofs`:

- `OrphansOnlyFromTimeoutsHolds`. The strengthening has three parts:
  - `ShellWaits`: an exited shell has no live pipeline.
  - `CompletedSawExit`: a completed wait saw its shell exit.
  - `ResultsBehind`: results exist only for traces the loop has passed,
    so the trace that `Spawn` starts has none.
- `TypeCorrect` follows from the same invariant.

`BtbPoolProofs`:

- `TypeCorrect`. `TypeOK` is not inductive: `Parse` does `pend - 1`.
  The strengthening `PInv` adds:
  - `ChildOfTask`: a worker has a pipeline exactly while it holds a task;
  - `TasksDistinct`: a held application has left the queue, and no two
    workers hold the same one;
  - `PendCount`: `pend` is the number of queued tasks plus the number of
    busy workers, and 0 outside a `starmap`.
- The lemma `TasksBound` maps each busy worker to its application. This
  is an injection into `Apps \ queue` (`FS_Injection`). So the busy
  workers are finitely many, even for an unbounded pool, and
  `pend <= Cardinality(Apps)`.

- `TableAtExitHolds` proves `Spec => []TableAtExit` under the
  hypothesis `~Redirected`, that is, with stdout a terminal. The
  hypothesis is needed. With stdout redirected, the workers' rows stay
  in their buffers, and `terminate()` discards the buffers of the
  workers it kills. Run `btb_redirect` shows this violation. The
  inductive invariant `TInv` adds to `PInv`:
  - `WbufEmpty`: on a terminal, every worker's buffer is always empty,
    so a worker that flushes as it exits writes nothing;
  - `RowsUnderHeader`: every row already written sits under its size's
    header;
  - `LastHeaderIsK`: during a `starmap`, the last header written is that
    of the current size `k`;
  - `RowCounts`: for each size and application, the number of its rows
    in the output. This is 1 for a finished size and 0 for a later one.
    For the current size it is 0 while the task is queued or held, and
    1 once it has left the pool without error, through `terminate()`
    too. It is never more than 1.
  - `MaxesExist(out)`: every non-empty set of header positions before a
    position has a largest element. `HeaderBefore` picks that element
    with `CHOOSE`. That every finite set of naturals has a maximum
    needs induction, which the provers do not do. So the invariant
    carries the fact, and the lemma `MaxesAppend` shows that appending
    one line keeps it.
  The lemmas `HBAppend`, `HBHeader` and `HBRow` say what `HeaderBefore`
  is after an append. `OccAppend` says how an append changes the set of
  positions holding a line. There is one lemma per action that writes
  (`StartSizeTable`, `TakeTable`, `ChildExitTable`, `ParseTable`,
  `EndMapTable`, `ExitTable`, `CloseTable`). The assumption `"idle" \notin Apps` keeps the mark of
  a free worker apart from an application.

Only TLC checks the following:

- the liveness properties `SweepEnds` and `LoopEnds`. TLAPS does not
  reason about fairness or `ENABLED`;
- `TableAtExit` with stdout redirected. There it is violated: run
  `btb_redirect` and the `btb_miss_analysis.py:24` finding;
- everything about `JobStore`. `JobStore` uses `SequencesExt`, which
  reaches a `RECURSIVE` operator, so its results are checked on the
  bounded inputs only.

## 6. Not modelled, and why

- Parsing and plotting are pure data transformations, out of scope per
  spec.md 1. Neither `choose_largest_traces` (a sort by file size) nor the
  simulators' argument lists is modelled.
- `--generate` in `JobStore`. It adds a `_generate` program with its own
  directory, and `RunTest` models its sequencing.
- Real time. spec.md's "recorded within `timeout + epsilon`" needs a
  clock.
