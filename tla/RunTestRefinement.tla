-------------------------- MODULE RunTestRefinement --------------------------
(***************************************************************************)
(* The runner of src/run_test.py implements the abstract Sweep under the   *)
(* refinement mapping AbsSt of module RunTest: a step is Running from its  *)
(* spawn (SpawnOk) to the end of its wait_for, LaunchFailed once its spawn *)
(* raised, and its result after that.                                      *)
(*                                                                         *)
(* Each step of the runner maps to one step of Sweep or to a stutter:      *)
(*   SpawnOk   -> Launch     SpawnFail -> Fail                             *)
(*   Finish    -> Complete   TimedOut  -> Expire                           *)
(*   Start, Acquire, ProcExit, Abort, Complete (of gather) -> stutter.     *)
(* The invariants it rests on: ResultIff (a task at a step has no result   *)
(* for it yet, so the step it spawns is Pending and the step it waits on  *)
(* is Running) and the admission accounting (a spawning task holds one of *)
(* the Capacity units, and so does every running one, which bounds the    *)
(* Running steps below Capacity at a Launch).                              *)
(***************************************************************************)
EXTENDS RunTestProofs

RefInv == RInv /\ AccountingInv

\* Sweep's Cardinality, reached through the instance, is FiniteSets'.
LEMMA AbsCardinality == ASSUME NEW S PROVE Abs!Cardinality(S) = Cardinality(S)
  BY DEF Abs!Cardinality, Cardinality

\* The abstract state of a step in terms of the runner's state.
LEMMA AbsStateCases ==
  ASSUME NEW s \in Steps
  PROVE  /\ result[s] # "none" => AbsState(s) = result[s]
         /\ result[s] = "none" /\ s = Cur(s[1]) /\ pc[s[1]] = "run"
              => AbsState(s) = "Running"
         /\ result[s] = "none" /\ s = Cur(s[1]) /\ pc[s[1]] = "failed"
              => AbsState(s) = "LaunchFailed"
         /\ result[s] = "none" /\ ~(s = Cur(s[1]) /\ pc[s[1]] \in {"run", "failed"})
              => AbsState(s) = "Pending"
  BY DEF AbsState

\* A step of the runner that records no result, moves no program index and
\* moves no task into or out of "run" or "failed" is invisible to Sweep.
LEMMA AbsFrame ==
  ASSUME result' = result, prog' = prog,
         \A u \in Tasks : /\ pc'[u] = "run" <=> pc[u] = "run"
                          /\ pc'[u] = "failed" <=> pc[u] = "failed"
  PROVE  AbsSt' = AbsSt
  BY StepsShape DEF AbsSt, AbsState, Cur

\* The Running steps are the current steps of the tasks in "run".
LEMMA RunningOwned ==
  ASSUME RInv
  PROVE  [u \in {v \in Tasks : pc[v] = "run"} |-> Cur(u)]
           \in Surjection({v \in Tasks : pc[v] = "run"},
                          {s \in Steps : AbsSt[s] = "Running"})
  <1> DEFINE RunTasks == {v \in Tasks : pc[v] = "run"}
             Running  == {s \in Steps : AbsSt[s] = "Running"}
             f        == [u \in RunTasks |-> Cur(u)]
  <1>1. ASSUME NEW u \in RunTasks PROVE f[u] \in Running
    <2>1. Cur(u) \in Steps /\ Cur(u) = <<u, prog[u]>>
      BY DEF RInv, TypeOK, Cur
    <2>2. Cur(u)[1] = u /\ Cur(u)[2] = prog[u] /\ pc[u] = "run"
      BY DEF Cur
    <2>3. result[Cur(u)] = "none"
      BY <2>1, <2>2 DEF RInv, ResultIff, TypeOK
    <2>4. QED
      BY <2>1, <2>2, <2>3, AbsStateCases DEF AbsSt
  <1>2. ASSUME NEW s \in Running PROVE \E u \in RunTasks : f[u] = s
    <2>1. s = <<s[1], s[2]>> /\ s[1] \in Tasks
      BY StepsShape
    <2>2. AbsState(s) = "Running"
      BY DEF AbsSt
    <2>3. result[s] = "none" /\ s = Cur(s[1]) /\ pc[s[1]] = "run"
      <3>1. result[s] \in {"none", "Completed", "TimedOut"}
        BY DEF RInv, TypeOK
      <3>2. QED
        BY <2>2, <3>1, AbsStateCases
    <2>4. QED
      BY <2>1, <2>3
  <1>3. QED
    BY <1>1, <1>2 DEF Surjection

\* A task about to spawn holds a unit that no running task holds, so fewer
\* than Capacity steps are Running: the guard of Sweep's Launch.
LEMMA LaunchBelowCapacity ==
  ASSUME RefInv, NEW t \in Tasks, pc[t] = "spawn"
  PROVE  Cardinality({s \in Steps : AbsSt[s] = "Running"}) < Capacity
  <1> DEFINE RunTasks == {v \in Tasks : pc[v] = "run"}
             Running  == {s \in Steps : AbsSt[s] = "Running"}
  <1>1. TypeOK /\ workers >= 0 /\ TokenAccounting
    BY DEF RefInv, AccountingInv
  <1>2. IsFiniteSet(Holders) /\ Cardinality(Holders) \in Nat
    BY <1>1, HoldersFinite
  <1>3. t \in Holders /\ RunTasks \subseteq Holders \ {t}
    BY DEF Holders
  <1>4. Cardinality(Holders \ {t}) = Cardinality(Holders) - 1
    BY <1>2, <1>3, FS_RemoveElement
  <1>5. IsFiniteSet(RunTasks)
        /\ Cardinality(RunTasks) <= Cardinality(Holders \ {t})
    BY <1>2, <1>3, FS_Subset
  <1>6. IsFiniteSet(Running) /\ Cardinality(Running) <= Cardinality(RunTasks)
    BY <1>5, RunningOwned, FS_Surjection DEF RefInv
  <1>7. Cardinality(Holders) <= Capacity
    BY <1>1, <1>2 DEF TokenAccounting, TypeOK
  <1>8. Cardinality(RunTasks) \in Nat /\ Cardinality(Running) \in Nat
    BY <1>5, <1>6, FS_CardinalityType
  <1>9. QED
    BY <1>2, <1>4, <1>5, <1>6, <1>7, <1>8, CapacityAssumption

\* The end of a wait_for turns the abstract state of the current step from
\* Running into its result, and leaves every other step as it was: the
\* next program of a _generate task stays Pending until its own spawn.
LEMMA AbsAfterJob ==
  ASSUME RInv, TypeOK', NEW t \in Tasks, pc[t] = "run", AfterJob(t),
         NEW r \in {"Completed", "TimedOut"},
         result' = [result EXCEPT ![Cur(t)] = r]
  PROVE  /\ Cur(t) \in Steps /\ AbsSt[Cur(t)] = "Running"
         /\ AbsSt' = [AbsSt EXCEPT ![Cur(t)] = r]
  <1>1. Cur(t) \in Steps /\ Cur(t) = <<t, prog[t]>> /\ result[Cur(t)] = "none"
    BY DEF RInv, TypeOK, ResultIff, Cur
  <1>2. AbsSt[Cur(t)] = "Running"
    BY <1>1, AbsStateCases DEF AbsSt
  <1>3. /\ \A u \in Tasks \ {t} : pc'[u] = pc[u] /\ prog'[u] = prog[u]
        /\ \/ /\ t \in Gen /\ prog[t] = 1 /\ prog'[t] = 2
              /\ pc'[t] \in {"spawn", "wait"}
           \/ /\ prog[t] = NProg(t) /\ prog'[t] = prog[t]
              /\ pc'[t] = "done"
    BY AfterJobCases DEF RInv
  <1>4. ASSUME NEW s \in Steps PROVE AbsState(s)' = [AbsSt EXCEPT ![Cur(t)] = r][s]
    <2>1. s = <<s[1], s[2]>> /\ s[1] \in Tasks /\ s[2] \in {1, 2}
      BY StepsShape
    <2>2. CASE s = Cur(t)
      BY <1>1, <2>2 DEF AbsSt, AbsState, RInv, TypeOK
    <2>3. CASE s[1] # t
      BY <1>1, <1>3, <2>1, <2>3 DEF AbsSt, AbsState, Cur, RInv, TypeOK
    <2>4. CASE s[1] = t /\ s # Cur(t)
      <3>1. s[2] # prog[t] /\ result'[s] = result[s] /\ AbsSt[s] = AbsState(s)
        BY <1>1, <2>1, <2>4 DEF AbsSt, RInv, TypeOK
      <3>2. result[s] # "none" <=> \/ s[2] < prog[t]
                                   \/ s[2] = prog[t] /\ pc[t] = "done"
        BY <2>4 DEF RInv, ResultIff
      <3>3. prog[t] \in {1, 2}
        BY DEF RInv, TypeOK
      <3>4. CASE t \in Gen /\ prog[t] = 1 /\ prog'[t] = 2 /\ pc'[t] \in {"spawn", "wait"}
        BY <1>1, <2>1, <2>4, <3>1, <3>2, <3>4 DEF AbsState, Cur
      <3>5. CASE prog'[t] = prog[t] /\ pc'[t] = "done"
        BY <1>1, <2>1, <2>4, <3>1, <3>5 DEF AbsState, Cur
      <3>6. QED
        BY <1>3, <3>4, <3>5
    <2>5. QED
      BY <2>2, <2>3, <2>4
  <1>5. QED
    BY <1>1, <1>2, <1>4 DEF AbsSt

\* Sweep's state after a step that changes the abstract state of one step.
LEMMA AbsUpdate ==
  ASSUME NEW c \in Steps, NEW v,
         \A s \in Steps : AbsState(s)' = IF s = c THEN v ELSE AbsState(s)
  PROVE  AbsSt' = [AbsSt EXCEPT ![c] = v]
  BY DEF AbsSt

\* A spawn (successful or not) changes the abstract state of the task's
\* current step only.
LEMMA AbsSpawn ==
  ASSUME TypeOK, NEW t \in Tasks, NEW v \in {"run", "failed"}, pc[t] = "spawn",
         result' = result, prog' = prog, pc' = [pc EXCEPT ![t] = v],
         result[Cur(t)] = "none"
  PROVE  AbsSt' = [AbsSt EXCEPT ![Cur(t)] = IF v = "run" THEN "Running"
                                                        ELSE "LaunchFailed"]
  <1>1. Cur(t) \in Steps /\ Cur(t)' = Cur(t) /\ Cur(t) = <<t, prog[t]>>
    BY DEF TypeOK, Cur
  <1>2. ASSUME NEW s \in Steps
        PROVE  AbsState(s)' = IF s = Cur(t)
                              THEN IF v = "run" THEN "Running" ELSE "LaunchFailed"
                              ELSE AbsState(s)
    <2>1. s = <<s[1], s[2]>> /\ s[1] \in Tasks
      BY StepsShape
    <2>2. CASE s = Cur(t)
      BY <1>1, <2>2 DEF AbsState, TypeOK
    <2>3. CASE s # Cur(t) /\ s[1] = t
      BY <1>1, <2>1, <2>3 DEF AbsState, Cur
    <2>4. CASE s[1] # t
      BY <1>1, <2>1, <2>4 DEF AbsState, Cur, TypeOK
    <2>5. QED
      BY <2>2, <2>3, <2>4
  <1>3. QED
    BY <1>1, <1>2, AbsUpdate

LEMMA RefInvariant == Spec => []RefInv
  BY ResultsInitial, ResultsStep, AccountingInitial, AccountingStep, PTL
  DEF Spec, RefInv

LEMMA AbsInitial == Init => Abs!Init
  BY StepsShape DEF Init, Abs!Init, AbsSt, AbsState

LEMMA AbsStep == RefInv /\ [Next]_vars => [Abs!Next]_AbsSt
  <1> SUFFICES ASSUME RefInv, [Next]_vars PROVE [Abs!Next]_AbsSt
    OBVIOUS
  <1>0. TypeOK /\ TypeOK'
    BY TypeStep DEF RefInv, RInv
  <1>1. ASSUME NEW t \in Tasks, Start(t) \/ Acquire(t) PROVE UNCHANGED AbsSt
    <2>1. result' = result /\ prog' = prog /\ pc[t] \in {"init", "wait"}
          /\ pc'[t] \in {"spawn", "wait"} /\ \A u \in Tasks \ {t} : pc'[u] = pc[u]
      BY <1>0, <1>1 DEF Start, Gate, Acquire, TypeOK
    <2>2. QED
      BY <2>1, AbsFrame
  <1>2. ASSUME NEW t \in Tasks, SpawnOk(t) PROVE Abs!Launch(Cur(t))
    <2>1. pc[t] = "spawn" /\ Cur(t) \in Steps /\ result[Cur(t)] = "none"
      BY <1>2 DEF SpawnOk, RefInv, RInv, ResultIff, TypeOK, Cur
    <2>2. AbsSt[Cur(t)] = "Pending"
      BY <2>1, AbsStateCases DEF AbsSt, Cur
    <2>3. AbsSt' = [AbsSt EXCEPT ![Cur(t)] = "Running"]
      BY <1>0, <1>2, <2>1, AbsSpawn DEF SpawnOk
    <2>4. Cardinality({s \in Steps : AbsSt[s] = "Running"}) < Capacity
      BY <2>1, LaunchBelowCapacity
    <2>5. QED
      BY <2>2, <2>3, <2>4, AbsCardinality DEF Abs!Launch, Abs!RunningSteps
  <1>3. ASSUME NEW t \in Tasks, SpawnFail(t) PROVE Abs!Fail(Cur(t))
    <2>1. pc[t] = "spawn" /\ Cur(t) \in Steps /\ result[Cur(t)] = "none"
      BY <1>3 DEF SpawnFail, RefInv, RInv, ResultIff, TypeOK, Cur
    <2>2. AbsSt[Cur(t)] = "Pending"
      BY <2>1, AbsStateCases DEF AbsSt, Cur
    <2>3. AbsSt' = [AbsSt EXCEPT ![Cur(t)] = "LaunchFailed"]
      BY <1>0, <1>3, <2>1, AbsSpawn DEF SpawnFail
    <2>4. QED
      BY <2>2, <2>3 DEF Abs!Fail
  <1>4. ASSUME NEW t \in Tasks, Finish(t) PROVE Abs!Complete(Cur(t))
    <2>1. pc[t] = "run" /\ AfterJob(t)
          /\ result' = [result EXCEPT ![Cur(t)] = "Completed"]
      BY <1>4 DEF Finish
    <2>2. QED
      BY <1>0, <2>1, AbsAfterJob DEF Abs!Complete, RefInv
  <1>5. ASSUME NEW t \in Tasks, TimedOut(t) PROVE Abs!Expire(Cur(t))
    <2>1. pc[t] = "run" /\ AfterJob(t)
          /\ result' = [result EXCEPT ![Cur(t)] = "TimedOut"]
      BY <1>5 DEF TimedOut
    <2>2. QED
      BY <1>0, <2>1, AbsAfterJob DEF Abs!Expire, RefInv
  <1>6. CASE (\E s \in Steps : ProcExit(s)) \/ Abort \/ Complete \/ UNCHANGED vars
    <2>1. result' = result /\ prog' = prog /\ pc' = pc
      BY <1>6 DEF ProcExit, Abort, Complete, vars
    <2>2. QED
      BY <2>1, AbsFrame
  <1>7. \A t \in Tasks : Cur(t) \in Steps
    BY <1>0 DEF TypeOK
  <1>8. QED
    BY <1>1, <1>2, <1>3, <1>4, <1>5, <1>6, <1>7 DEF Next, Abs!Next

\* For every set of tasks, ceiling and set of failing spawns, every
\* behaviour of run_test.py's runner is a behaviour of the abstract Sweep:
\* each step is launched at most once and only while fewer than Capacity
\* steps run, and ends once, in a terminal state it never leaves.
THEOREM RunTestRefinesSweep == Spec => AbsSpec
  <1>1. []RefInv /\ [][Next]_vars => [][Abs!Next]_AbsSt
    BY AbsStep, PTL
  <1>2. QED
    BY AbsInitial, RefInvariant, <1>1, PTL DEF Spec, AbsSpec, Abs!Spec

=============================================================================
