---------------------------- MODULE RunTestProofs ----------------------------
(***************************************************************************)
(* Proofs about the runner of src/run_test.py (module RunTest), for every  *)
(* set of tasks, every ceiling and every set of failing spawns.            *)
(***************************************************************************)
EXTENDS RunTest, Functions, FiniteSetTheorems, TLAPS

-----------------------------------------------------------------------------
(***************************************************************************)
(* Type correctness.                                                       *)
(***************************************************************************)

\* Every step of the runner keeps the variables in their types; in
\* particular the loop over `programs` never moves a task past its last
\* program (Cur(t) stays a step of the sweep).
LEMMA TypeInitial == Init => TypeOK
  BY CapacityAssumption DEF Init, TypeOK, PCs, Cur, Steps

LEMMA TypeStep == TypeOK /\ [Next]_vars => TypeOK'
  <1> SUFFICES ASSUME TypeOK, [Next]_vars PROVE TypeOK'
    OBVIOUS
  <1>1. ASSUME NEW t \in Tasks, Start(t) PROVE TypeOK'
    BY <1>1 DEF Start, Gate, TypeOK, PCs, Cur, Steps
  <1>2. ASSUME NEW t \in Tasks, Acquire(t) PROVE TypeOK'
    BY <1>2 DEF Acquire, TypeOK, PCs, Cur, Steps
  <1>3. ASSUME NEW t \in Tasks, SpawnOk(t) PROVE TypeOK'
    BY <1>3 DEF SpawnOk, TypeOK, PCs, Cur, Steps
  <1>4. ASSUME NEW t \in Tasks, SpawnFail(t) PROVE TypeOK'
    BY <1>4 DEF SpawnFail, TypeOK, PCs, Cur, Steps
  <1>5. ASSUME NEW t \in Tasks, AfterJob(t),
               result' \in [Steps -> {"none", "Completed", "TimedOut"}],
               proc' \in [Steps -> {"none", "alive", "exited", "killed"}],
               sweep' = sweep
        PROVE TypeOK'
    <2>1. CASE prog[t] < NProg(t)
      <3>1. t \in Gen /\ prog[t] = 1
        BY <2>1 DEF TypeOK, NProg
      <3>2. prog' = [prog EXCEPT ![t] = 2]
        BY <1>5, <2>1, <3>1 DEF AfterJob, NProg
      <3>3. files' = (files \ {Cur(t)}) \cup {<<t, 2>>}
        BY <1>5, <2>1, <3>1 DEF AfterJob, NProg
      <3>4. Gate(t, workers + 1) /\ count' = count + 1
        BY <1>5, <2>1 DEF AfterJob, NProg
      <3>5. pc' \in [Tasks -> PCs] /\ workers' \in Int
        BY <3>4 DEF Gate, TypeOK, PCs
      <3>6. prog' \in [Tasks -> {1, 2}] /\ \A u \in Tasks : Cur(u)' \in Steps
        BY <3>1, <3>2 DEF TypeOK, Cur, Steps
      <3>7. files' \subseteq Steps
        BY <3>1, <3>3 DEF TypeOK, Steps
      <3>8. QED
        BY <1>5, <3>4, <3>5, <3>6, <3>7 DEF TypeOK
    <2>2. CASE prog[t] = NProg(t)
      <3>1. /\ workers' = workers + 1 /\ count' = count + 1
            /\ pc' = [pc EXCEPT ![t] = "done"]
            /\ files' = files \ {Cur(t)}
            /\ prog' = prog
        BY <1>5, <2>2 DEF AfterJob, NProg, TypeOK
      <3>2. QED
        BY <1>5, <3>1 DEF TypeOK, PCs, Cur
    <2>3. QED
      BY <1>5, <2>1, <2>2 DEF AfterJob
  <1>6. ASSUME NEW t \in Tasks, Finish(t) PROVE TypeOK'
    <2>1. result' \in [Steps -> {"none", "Completed", "TimedOut"}]
      BY <1>6 DEF Finish, TypeOK, Cur
    <2>2. QED
      BY <1>6, <2>1, <1>5 DEF Finish, TypeOK
  <1>7. ASSUME NEW t \in Tasks, TimedOut(t) PROVE TypeOK'
    <2>1. result' \in [Steps -> {"none", "Completed", "TimedOut"}]
      BY <1>7 DEF TimedOut, TypeOK, Cur
    <2>2. proc' \in [Steps -> {"none", "alive", "exited", "killed"}]
      BY <1>7 DEF TimedOut, TypeOK, Cur
    <2>3. QED
      BY <1>7, <2>1, <2>2, <1>5 DEF TimedOut
  <1>8. ASSUME NEW s \in Steps, ProcExit(s) PROVE TypeOK'
    BY <1>8 DEF ProcExit, TypeOK, Cur
  <1>9. CASE Abort
    BY <1>9 DEF Abort, TypeOK, Cur
  <1>10. CASE Complete
    BY <1>10 DEF Complete, TypeOK, Cur
  <1>11. CASE UNCHANGED vars
    BY <1>11 DEF vars, TypeOK, Cur
  <1>12. QED
    BY <1>1, <1>2, <1>3, <1>4, <1>6, <1>7, <1>8, <1>9, <1>10, <1>11
    DEF Next

\* The type invariant holds in every reachable state of the runner.
THEOREM TypeCorrect == Spec => []TypeOK
  BY TypeInitial, TypeStep, PTL DEF Spec

-----------------------------------------------------------------------------
(***************************************************************************)
(* Admission accounting.  TokenAccounting alone is not inductive: a task   *)
(* that re-enters the admission test after its release (the second        *)
(* program of a _generate task) must find a unit, which needs             *)
(* workers >= 0.  The inductive invariant adds it and the types.          *)
(***************************************************************************)
AccountingInv == TypeOK /\ workers >= 0 /\ TokenAccounting

\* The set of tasks holding a unit is a finite set of naturals' size.
LEMMA HoldersFinite ==
  ASSUME TypeOK
  PROVE  IsFiniteSet(Holders) /\ Cardinality(Holders) \in Nat
  <1>1. Holders \subseteq Tasks
    BY DEF Holders
  <1>2. IsFiniteSet(Holders)
    BY <1>1, TasksAssumption, FS_Subset
  <1>3. QED
    BY <1>2, FS_CardinalityType

\* A task taking a unit adds one holder.
LEMMA HolderAdded ==
  ASSUME TypeOK, NEW t \in Tasks, t \notin Holders,
         Holders' = Holders \cup {t}
  PROVE  Cardinality(Holders') = Cardinality(Holders) + 1
  BY HoldersFinite, FS_AddElement

\* A task returning its unit removes one holder.
LEMMA HolderRemoved ==
  ASSUME TypeOK, NEW t \in Tasks, t \in Holders,
         Holders' = Holders \ {t}
  PROVE  Cardinality(Holders') = Cardinality(Holders) - 1
  BY HoldersFinite, FS_RemoveElement

LEMMA AccountingInitial == Init => AccountingInv
  <1> SUFFICES ASSUME Init PROVE AccountingInv
    OBVIOUS
  <1>1. Holders = {}
    BY DEF Init, Holders
  <1>2. QED
    BY <1>1, TypeInitial, CapacityAssumption, FS_EmptySet
    DEF AccountingInv, TokenAccounting, Init

LEMMA AccountingStep == AccountingInv /\ [Next]_vars => AccountingInv'
  <1> SUFFICES ASSUME AccountingInv, [Next]_vars PROVE AccountingInv'
    OBVIOUS
  <1> TypeOK' BY TypeStep DEF AccountingInv
  <1> USE DEF AccountingInv, TokenAccounting
  <1>2. ASSUME NEW t \in Tasks, Start(t) PROVE AccountingInv'
    <2>1. t \notin Holders /\ workers \in Int /\ Gate(t, workers)
      BY <1>2 DEF Start, Holders, TypeOK
    <2>2. CASE workers > 0
      <3>1. workers' = workers - 1 /\ Holders' = Holders \cup {t}
        BY <2>1, <2>2 DEF Gate, Holders, TypeOK
      <3>2. Cardinality(Holders') = Cardinality(Holders) + 1
        BY <2>1, <3>1, HolderAdded
      <3>3. QED
        BY <2>2, <3>1, <3>2, HoldersFinite DEF TypeOK
    <2>3. CASE workers <= 0
      <3>1. workers' = workers /\ Holders' = Holders
        BY <2>1, <2>3 DEF Gate, Holders, TypeOK
      <3>2. QED
        BY <3>1
    <2>4. QED
      BY <2>1, <2>2, <2>3
  <1>3. ASSUME NEW t \in Tasks, Acquire(t) PROVE AccountingInv'
    <2>1. t \notin Holders /\ Holders' = Holders \cup {t}
      BY <1>3 DEF Acquire, Holders, TypeOK
    <2>2. Cardinality(Holders') = Cardinality(Holders) + 1
      BY <2>1, HolderAdded
    <2>3. workers' = workers - 1 /\ workers > 0
      BY <1>3 DEF Acquire
    <2>4. QED
      BY <2>2, <2>3, HoldersFinite DEF TypeOK
  <1>4. ASSUME NEW t \in Tasks, SpawnOk(t) \/ SpawnFail(t)
        PROVE AccountingInv'
    <2>1. Holders' = Holders /\ workers' = workers
      BY <1>4 DEF SpawnOk, SpawnFail, Holders, TypeOK
    <2>2. QED
      BY <2>1
  <1>5. ASSUME NEW t \in Tasks, pc[t] = "run", AfterJob(t)
        PROVE AccountingInv'
    <2>1. t \in Holders /\ workers \in Int
      BY <1>5 DEF Holders, TypeOK
    <2>2. CASE prog[t] < NProg(t)
      <3>1. Gate(t, workers + 1)
        BY <1>5, <2>2 DEF AfterJob, NProg, TypeOK
      <3>2. workers' = workers /\ Holders' = Holders
        BY <2>1, <3>1 DEF Gate, Holders, TypeOK
      <3>3. QED
        BY <3>2
    <2>3. CASE prog[t] = NProg(t)
      <3>1. workers' = workers + 1 /\ pc' = [pc EXCEPT ![t] = "done"]
        BY <1>5, <2>3 DEF AfterJob, NProg, TypeOK
      <3>2. Holders' = Holders \ {t}
        BY <3>1 DEF Holders, TypeOK
      <3>3. Cardinality(Holders') = Cardinality(Holders) - 1
        BY <2>1, <3>2, HolderRemoved
      <3>4. QED
        BY <3>1, <3>3, HoldersFinite DEF TypeOK
    <2>4. QED
      BY <2>2, <2>3, <1>5 DEF AfterJob
  <1>6. ASSUME NEW t \in Tasks, Finish(t) \/ TimedOut(t)
        PROVE AccountingInv'
    BY <1>6, <1>5 DEF Finish, TimedOut
  <1>7. ASSUME pc' = pc, workers' = workers PROVE AccountingInv'
    <2>1. Holders' = Holders
      BY <1>7 DEF Holders
    <2>2. QED
      BY <1>7, <2>1
  <1>8. QED
    BY <1>2, <1>3, <1>4, <1>6, <1>7
    DEF Next, ProcExit, Abort, Complete, vars

\* The admission counter always equals the ceiling minus the units held by
\* spawning, running and failed tasks, for every number of tasks, every
\* ceiling and every set of failing spawns.
THEOREM TokenAccountingHolds == Spec => []TokenAccounting
  <1>1. AccountingInv => TokenAccounting
    BY DEF AccountingInv
  <1>2. QED
    BY AccountingInitial, AccountingStep, <1>1, PTL DEF Spec

-----------------------------------------------------------------------------
(***************************************************************************)
(* The concurrency ceiling.  Every live child belongs to a task that is    *)
(* awaiting its wait_for at that very step (AliveOwned): a child is only   *)
(* spawned by SpawnOk, and a task leaves "run" or moves to its next        *)
(* program only after its child has exited or been killed.  Such a task   *)
(* holds a unit, so there are at most Capacity - workers of them.         *)
(***************************************************************************)
AliveOwned ==
  \A s \in Steps : proc[s] = "alive" => pc[s[1]] = "run" /\ prog[s[1]] = s[2]

\* Tasks whose current child is alive.
AliveOwners == {t \in Tasks : pc[t] = "run" /\ proc[Cur(t)] = "alive"}

LEMMA AliveOwnedInitial == Init => AliveOwned
  BY DEF Init, AliveOwned

LEMMA AliveOwnedStep == TypeOK /\ AliveOwned /\ [Next]_vars => AliveOwned'
  <1> SUFFICES ASSUME TypeOK, AliveOwned, [Next]_vars PROVE AliveOwned'
    OBVIOUS
  <1>0. \A s \in Steps : s = <<s[1], s[2]>> /\ s[1] \in Tasks
    BY GenAssumption DEF Steps
  \* Steps that leave proc and prog alone and move no task out of "run".
  <1>1. ASSUME proc' = proc, prog' = prog,
               \A u \in Tasks : pc[u] = "run" => pc'[u] = "run"
        PROVE  AliveOwned'
    BY <1>1, <1>0 DEF AliveOwned
  <1>2. ASSUME NEW t \in Tasks, Start(t) PROVE AliveOwned'
    BY <1>2, <1>1 DEF Start, Gate, TypeOK
  <1>3. ASSUME NEW t \in Tasks, Acquire(t) PROVE AliveOwned'
    BY <1>3, <1>1 DEF Acquire, TypeOK
  <1>4. ASSUME NEW t \in Tasks, SpawnFail(t) PROVE AliveOwned'
    BY <1>4, <1>1 DEF SpawnFail, TypeOK
  <1>5. ASSUME NEW t \in Tasks, SpawnOk(t) PROVE AliveOwned'
    <2>1. pc[t] = "spawn" /\ proc' = [proc EXCEPT ![Cur(t)] = "alive"]
          /\ pc' = [pc EXCEPT ![t] = "run"] /\ prog' = prog
      BY <1>5 DEF SpawnOk
    <2>2. QED
      BY <2>1, <1>0 DEF AliveOwned, TypeOK, Cur
  \* A task that ends its wait_for: its child is no longer alive.
  <1>6. ASSUME NEW t \in Tasks, AfterJob(t), pc[t] = "run",
               proc' \in [Steps -> {"none", "alive", "exited", "killed"}],
               proc'[Cur(t)] # "alive",
               \A s \in Steps : s # Cur(t) => proc'[s] = proc[s]
        PROVE  AliveOwned'
    <2>1. /\ \A u \in Tasks \ {t} : pc'[u] = pc[u] /\ prog'[u] = prog[u]
          /\ prog' \in [Tasks -> {1, 2}]
      <3>1. CASE prog[t] < NProg(t)
        <4>1. prog' = [prog EXCEPT ![t] = prog[t] + 1] /\ Gate(t, workers + 1)
          BY <1>6, <3>1 DEF AfterJob, NProg, TypeOK
        <4>2. QED
          BY <3>1, <4>1 DEF Gate, TypeOK, NProg
      <3>2. CASE prog[t] = NProg(t)
        <4>1. prog' = prog /\ pc' = [pc EXCEPT ![t] = "done"]
          BY <1>6, <3>2 DEF AfterJob, NProg, TypeOK
        <4>2. QED
          BY <4>1 DEF TypeOK
      <3>3. QED
        BY <1>6, <3>1, <3>2 DEF AfterJob
    <2>2. \A s \in Steps : proc'[s] = "alive" => s[1] # t
      BY <1>6, <1>0 DEF AliveOwned, TypeOK, Cur
    <2>3. QED
      BY <2>1, <2>2, <1>6, <1>0 DEF AliveOwned
  <1>7. ASSUME NEW t \in Tasks, Finish(t) PROVE AliveOwned'
    BY <1>7, <1>6 DEF Finish, TypeOK
  <1>8. ASSUME NEW t \in Tasks, TimedOut(t) PROVE AliveOwned'
    <2>1. /\ proc' \in [Steps -> {"none", "alive", "exited", "killed"}]
          /\ proc'[Cur(t)] # "alive"
          /\ \A s \in Steps : s # Cur(t) => proc'[s] = proc[s]
      BY <1>8 DEF TimedOut, TypeOK
    <2>2. QED
      BY <1>8, <2>1, <1>6 DEF TimedOut
  <1>9. ASSUME NEW s \in Steps, ProcExit(s) PROVE AliveOwned'
    BY <1>9 DEF ProcExit, AliveOwned, TypeOK
  <1>10. QED
    BY <1>1, <1>2, <1>3, <1>4, <1>5, <1>7, <1>8, <1>9
    DEF Next, Abort, Complete, vars

\* The live children are the current children of AliveOwners, which hold
\* units: their number is bounded by Capacity - workers.
LEMMA CapacityFromInvariants ==
  ASSUME AccountingInv, AliveOwned
  PROVE  CapacityRespected
  <1> DEFINE f == [t \in AliveOwners |-> Cur(t)]
  <1>1. AliveOwners \subseteq Holders
    BY DEF AliveOwners, Holders
  <1>2. IsFiniteSet(AliveOwners)
        /\ Cardinality(AliveOwners) <= Cardinality(Holders)
    BY <1>1, HoldersFinite, FS_Subset DEF AccountingInv
  <1>3. f \in Surjection(AliveOwners, Alive)
    <2>1. f \in [AliveOwners -> Alive]
      BY DEF AliveOwners, Alive, AccountingInv, TypeOK
    <2>2. ASSUME NEW s \in Alive PROVE \E t \in AliveOwners : f[t] = s
      <3>1. s = <<s[1], s[2]>> /\ s[1] \in Tasks
        BY GenAssumption DEF Alive, Steps
      <3>2. pc[s[1]] = "run" /\ prog[s[1]] = s[2] /\ proc[s] = "alive"
        BY DEF Alive, AliveOwned
      <3>3. Cur(s[1]) = s
        BY <3>1, <3>2 DEF Cur
      <3>4. s[1] \in AliveOwners
        BY <3>1, <3>2, <3>3 DEF AliveOwners
      <3>5. QED
        BY <3>3, <3>4
    <2>3. QED
      BY <2>1, <2>2 DEF Surjection
  <1>4. Cardinality(Alive) <= Cardinality(AliveOwners)
    BY <1>2, <1>3, FS_Surjection
  <1>5. Cardinality(Holders) <= Capacity
    BY HoldersFinite DEF AccountingInv, TokenAccounting, TypeOK
  <1>6. IsFiniteSet(Alive)
    BY <1>2, <1>3, FS_Surjection
  <1>7. QED
    BY <1>2, <1>4, <1>5, <1>6, HoldersFinite, FS_CardinalityType,
       CapacityAssumption
    DEF CapacityRespected, AccountingInv

\* At no instant do more than Capacity simulators run at once, for every
\* number of tasks, every ceiling and every set of failing spawns.
THEOREM CapacityRespectedHolds == Spec => []CapacityRespected
  <1>1. Init => AccountingInv /\ AliveOwned
    BY AccountingInitial, AliveOwnedInitial
  <1>2. AccountingInv /\ AliveOwned /\ [Next]_vars
          => (AccountingInv /\ AliveOwned)'
    BY AccountingStep, AliveOwnedStep DEF AccountingInv
  <1>3. AccountingInv /\ AliveOwned => CapacityRespected
    BY CapacityFromInvariants
  <1>4. QED
    BY <1>1, <1>2, <1>3, PTL DEF Spec


-----------------------------------------------------------------------------
(***************************************************************************)
(* Results and the loop over `programs`.  A step has a result exactly     *)
(* when its task has moved past it, or returned from run() at it          *)
(* (ResultIff): wait_for ends once per step, and only for the step the    *)
(* task is at.  So the step SpawnOk starts has no result yet, and with    *)
(* the kill of line 231 no child of a step with a result is alive.        *)
(***************************************************************************)
ResultIff ==
  \A s \in Steps :
    result[s] # "none" <=> \/ s[2] < prog[s[1]]
                           \/ s[2] = prog[s[1]] /\ pc[s[1]] = "done"

RInv == TypeOK /\ ResultIff /\ NoLiveProcessAfterResult

\* A step is a pair of a task and a program index, the second only for a
\* _generate task.
LEMMA StepsShape ==
  ASSUME NEW s \in Steps
  PROVE  /\ s = <<s[1], s[2]>> /\ s[1] \in Tasks /\ s[2] \in {1, 2}
         /\ s[2] = 2 => s[1] \in Gen
  BY GenAssumption DEF Steps

\* The end of a wait_for (lines 230-237) either moves a _generate task on
\* to its second program and its admission test, or returns from run();
\* no other task moves.
LEMMA AfterJobCases ==
  ASSUME TypeOK, NEW t \in Tasks, AfterJob(t)
  PROVE  /\ \A u \in Tasks \ {t} : pc'[u] = pc[u] /\ prog'[u] = prog[u]
         /\ pc' \in [Tasks -> PCs] /\ prog' \in [Tasks -> {1, 2}]
         /\ \/ /\ t \in Gen /\ prog[t] = 1 /\ prog'[t] = 2
               /\ pc'[t] \in {"spawn", "wait"}
            \/ /\ prog[t] = NProg(t) /\ prog'[t] = prog[t]
               /\ pc'[t] = "done"
  <1>1. CASE prog[t] < NProg(t)
    <2>1. t \in Gen /\ prog[t] = 1
      BY <1>1 DEF TypeOK, NProg
    <2>2. prog' = [prog EXCEPT ![t] = prog[t] + 1] /\ Gate(t, workers + 1)
      BY <1>1 DEF AfterJob, NProg, TypeOK
    <2>3. \/ pc' = [pc EXCEPT ![t] = "spawn"]
          \/ pc' = [pc EXCEPT ![t] = "wait"]
      BY <2>2 DEF Gate, TypeOK
    <2>4. QED
      BY <2>1, <2>2, <2>3 DEF TypeOK, PCs
  <1>2. CASE prog[t] = NProg(t)
    <2>1. prog' = prog /\ pc' = [pc EXCEPT ![t] = "done"]
      BY <1>2 DEF AfterJob, NProg, TypeOK
    <2>2. QED
      BY <1>2, <2>1 DEF TypeOK, PCs
  <1>3. QED
    BY <1>1, <1>2 DEF AfterJob

LEMMA ResultsInitial == Init => RInv
  BY TypeInitial, StepsShape
  DEF Init, RInv, ResultIff, NoLiveProcessAfterResult

\* Steps that leave result, prog and proc alone and move no task to or
\* from "done" keep RInv.
LEMMA ResultsFrame ==
  ASSUME RInv, TypeOK', result' = result, prog' = prog, proc' = proc,
         \A u \in Tasks : pc'[u] = "done" <=> pc[u] = "done"
  PROVE  RInv'
  BY StepsShape DEF RInv, ResultIff, NoLiveProcessAfterResult

\* The end of the wait_for of the current step records its result, and a
\* child that is still alive at that moment is killed.
LEMMA ResultsAfterJob ==
  ASSUME RInv, TypeOK', NEW t \in Tasks, pc[t] = "run", AfterJob(t),
         NEW r \in {"Completed", "TimedOut"},
         result' = [result EXCEPT ![Cur(t)] = r],
         proc'[Cur(t)] # "alive",
         \A s \in Steps : s # Cur(t) => proc'[s] = proc[s]
  PROVE  RInv'
  <1>1. Cur(t) \in Steps /\ Cur(t) = <<t, prog[t]>>
    BY DEF RInv, TypeOK, Cur
  <1>2. /\ \A u \in Tasks \ {t} : pc'[u] = pc[u] /\ prog'[u] = prog[u]
        /\ \/ /\ t \in Gen /\ prog[t] = 1 /\ prog'[t] = 2
              /\ pc'[t] \in {"spawn", "wait"}
           \/ /\ prog[t] = NProg(t) /\ prog'[t] = prog[t]
              /\ pc'[t] = "done"
    BY AfterJobCases DEF RInv
  <1>3. ResultIff'
    <2> SUFFICES ASSUME NEW s \in Steps
                 PROVE  result'[s] # "none" <=>
                          \/ s[2] < prog'[s[1]]
                          \/ s[2] = prog'[s[1]] /\ pc'[s[1]] = "done"
      BY DEF ResultIff
    <2>1. CASE s[1] # t
      BY <2>1, <1>1, <1>2, StepsShape DEF RInv, ResultIff
    <2>2. CASE s = Cur(t)
      BY <2>2, <1>1, <1>2, StepsShape DEF RInv, TypeOK
    <2>3. CASE s[1] = t /\ s # Cur(t)
      <3>1. s[2] # prog[t] /\ result'[s] = result[s]
        BY <2>3, <1>1, StepsShape DEF RInv, TypeOK
      <3>2. result[s] # "none" <=> \/ s[2] < prog[t]
                                   \/ s[2] = prog[t] /\ pc[t] = "done"
        BY <2>3 DEF RInv, ResultIff
      <3>3. s[2] \in {1, 2} /\ prog[t] \in {1, 2}
        BY StepsShape DEF RInv, TypeOK
      <3>4. CASE prog[t] = 1 /\ prog'[t] = 2 /\ pc'[t] \in {"spawn", "wait"}
        BY <2>3, <3>1, <3>2, <3>3, <3>4
      <3>5. CASE prog'[t] = prog[t] /\ pc'[t] = "done"
        BY <2>3, <3>1, <3>2, <3>3, <3>5
      <3>6. QED
        BY <1>2, <3>4, <3>5
    <2>4. QED
      BY <2>1, <2>2, <2>3
  <1>4. NoLiveProcessAfterResult'
    BY <1>1 DEF RInv, NoLiveProcessAfterResult, TypeOK
  <1>5. QED
    BY <1>3, <1>4 DEF RInv

LEMMA ResultsStep == RInv /\ [Next]_vars => RInv'
  <1> SUFFICES ASSUME RInv, [Next]_vars PROVE RInv'
    OBVIOUS
  <1>0. TypeOK'
    BY TypeStep DEF RInv
  <1>1. ASSUME NEW t \in Tasks, Start(t) PROVE RInv'
    BY <1>0, <1>1, ResultsFrame DEF Start, Gate, RInv, TypeOK
  <1>2. ASSUME NEW t \in Tasks, Acquire(t) PROVE RInv'
    BY <1>0, <1>2, ResultsFrame DEF Acquire, RInv, TypeOK
  <1>3. ASSUME NEW t \in Tasks, SpawnFail(t) PROVE RInv'
    BY <1>0, <1>3, ResultsFrame DEF SpawnFail, RInv, TypeOK
  <1>4. ASSUME NEW t \in Tasks, SpawnOk(t) PROVE RInv'
    <2>1. result[Cur(t)] = "none" /\ Cur(t) \in Steps
      BY <1>4 DEF SpawnOk, RInv, ResultIff, TypeOK, Cur
    <2>2. ResultIff'
      BY <1>0, <1>4, StepsShape DEF SpawnOk, RInv, ResultIff, TypeOK
    <2>3. NoLiveProcessAfterResult'
      BY <1>4, <2>1 DEF SpawnOk, RInv, NoLiveProcessAfterResult, TypeOK
    <2>4. QED
      BY <1>0, <2>2, <2>3 DEF RInv
  <1>5. ASSUME NEW t \in Tasks, Finish(t) PROVE RInv'
    <2>1. /\ pc[t] = "run" /\ AfterJob(t)
          /\ result' = [result EXCEPT ![Cur(t)] = "Completed"]
          /\ proc'[Cur(t)] # "alive"
          /\ \A s \in Steps : s # Cur(t) => proc'[s] = proc[s]
      BY <1>5 DEF Finish
    <2>2. QED
      BY <1>0, <2>1, ResultsAfterJob
  <1>6. ASSUME NEW t \in Tasks, TimedOut(t) PROVE RInv'
    <2>1. /\ pc[t] = "run" /\ AfterJob(t)
          /\ result' = [result EXCEPT ![Cur(t)] = "TimedOut"]
          /\ proc'[Cur(t)] # "alive"
          /\ \A s \in Steps : s # Cur(t) => proc'[s] = proc[s]
      BY <1>6 DEF TimedOut, RInv, TypeOK, Cur
    <2>2. QED
      BY <1>0, <2>1, ResultsAfterJob
  <1>7. ASSUME NEW s \in Steps, ProcExit(s) PROVE RInv'
    BY <1>0, <1>7 DEF ProcExit, RInv, ResultIff, NoLiveProcessAfterResult
  <1>8. CASE Abort \/ Complete \/ UNCHANGED vars
    BY <1>0, <1>8, ResultsFrame DEF Abort, Complete, vars
  <1>9. QED
    BY <1>1, <1>2, <1>3, <1>4, <1>5, <1>6, <1>7, <1>8 DEF Next

\* For every number of tasks, ceiling and set of failing spawns, no
\* simulator of a step whose wait_for has ended (completed or timed out)
\* is still running: the kill of line 231 stops a timed-out child before
\* the task moves on.
THEOREM NoLiveProcessAfterResultHolds == Spec => []NoLiveProcessAfterResult
  <1>1. RInv => NoLiveProcessAfterResult
    BY DEF RInv
  <1>2. QED
    BY ResultsInitial, ResultsStep, <1>1, PTL DEF Spec


-----------------------------------------------------------------------------
(***************************************************************************)
(* The end of the sweep.  When gather returns normally every task has     *)
(* returned from run() (SweepDone), at its last program (DoneAtLast), so   *)
(* by ResultIff every step has its result; no task holds a unit, so by    *)
(* TokenAccounting every unit is back; a file is open only for the        *)
(* current step of a task between its admission test and the end of its   *)
(* wait_for (FilesLive), so none is; and `count` counts the steps with a   *)
(* result (CountFinished), which are now all of them.                      *)
(***************************************************************************)
InitAtFirst == \A t \in Tasks : pc[t] = "init" => prog[t] = 1
DoneAtLast  == \A t \in Tasks : pc[t] = "done" => prog[t] = NProg(t)
LoopInv     == InitAtFirst /\ DoneAtLast

FilesLive ==
  \A s \in files : s = Cur(s[1]) /\ pc[s[1]] \in {"wait", "spawn", "run"}

SweepDone == sweep = "done" => \A t \in Tasks : pc[t] = "done"

\* The steps whose wait_for has ended.
Finished == {s \in Steps : result[s] # "none"}

CountFinished == count = Cardinality(Finished)

CInv == /\ RInv /\ AccountingInv /\ LoopInv
        /\ FilesLive /\ SweepDone /\ CountFinished

\* The sweep has finitely many steps.
LEMMA StepsFinite == IsFiniteSet(Steps)
  <1>1. IsFiniteSet({1}) /\ IsFiniteSet({2})
    BY FS_Singleton
  <1>2. IsFiniteSet(Gen)
    BY TasksAssumption, GenAssumption, FS_Subset
  <1>3. IsFiniteSet(Tasks \X {1}) /\ IsFiniteSet(Gen \X {2})
    BY <1>1, <1>2, TasksAssumption, FS_Product
  <1>4. QED
    BY <1>3, FS_Union DEF Steps

\* Steps that leave prog alone and move no task to "init" or to "done"
\* keep LoopInv.
LEMMA LoopFrame ==
  ASSUME LoopInv, prog' = prog,
         \A u \in Tasks : /\ pc'[u] = "init" => pc[u] = "init"
                          /\ pc'[u] = "done" => pc[u] = "done"
  PROVE  LoopInv'
  BY DEF LoopInv, InitAtFirst, DoneAtLast, NProg

LEMMA LoopStep == TypeOK /\ LoopInv /\ [Next]_vars => LoopInv'
  <1> SUFFICES ASSUME TypeOK, LoopInv, [Next]_vars PROVE LoopInv'
    OBVIOUS
  <1>1. ASSUME NEW t \in Tasks, Start(t) \/ Acquire(t) \/ SpawnOk(t) \/ SpawnFail(t)
        PROVE  LoopInv'
    <2>1. prog' = prog /\ pc'[t] \in {"spawn", "wait", "run", "failed"}
          /\ \A u \in Tasks \ {t} : pc'[u] = pc[u]
      BY <1>1 DEF Start, Gate, Acquire, SpawnOk, SpawnFail, TypeOK
    <2>2. QED
      BY <2>1, LoopFrame
  <1>2. ASSUME NEW t \in Tasks, AfterJob(t) PROVE LoopInv'
    <2>1. /\ \A u \in Tasks \ {t} : pc'[u] = pc[u] /\ prog'[u] = prog[u]
          /\ pc' \in [Tasks -> PCs] /\ prog' \in [Tasks -> {1, 2}]
          /\ \/ /\ t \in Gen /\ prog[t] = 1 /\ prog'[t] = 2
                /\ pc'[t] \in {"spawn", "wait"}
             \/ /\ prog[t] = NProg(t) /\ prog'[t] = prog[t]
                /\ pc'[t] = "done"
      BY <1>2, AfterJobCases
    <2>2. QED
      BY <2>1 DEF LoopInv, InitAtFirst, DoneAtLast, NProg
  <1>3. QED
    BY <1>1, <1>2, LoopFrame
    DEF Next, Finish, TimedOut, ProcExit, Abort, Complete, vars

LEMMA FilesStep == TypeOK /\ LoopInv /\ FilesLive /\ [Next]_vars => FilesLive'
  <1> SUFFICES ASSUME TypeOK, LoopInv, FilesLive, [Next]_vars PROVE FilesLive'
    OBVIOUS
  <1>0. \A s \in files : s[1] \in Tasks
    BY StepsShape DEF TypeOK
  <1>1. ASSUME NEW t \in Tasks, Start(t) PROVE FilesLive'
    <2>1. pc[t] = "init" /\ prog[t] = 1 /\ prog' = prog
          /\ files' = files \cup {<<t, 1>>}
          /\ pc'[t] \in {"spawn", "wait"}
          /\ \A u \in Tasks \ {t} : pc'[u] = pc[u]
      BY <1>1 DEF Start, Gate, TypeOK, LoopInv, InitAtFirst
    <2>2. \A s \in files : s[1] # t
      BY <2>1 DEF FilesLive
    <2>3. QED
      BY <2>1, <2>2, <1>0 DEF FilesLive, Cur
  <1>2. ASSUME NEW t \in Tasks, Acquire(t) \/ SpawnOk(t) PROVE FilesLive'
    <2>1. files' = files /\ prog' = prog /\ pc[t] \in {"wait", "spawn"}
          /\ pc'[t] \in {"spawn", "run"}
          /\ \A u \in Tasks \ {t} : pc'[u] = pc[u]
      BY <1>2 DEF Acquire, SpawnOk, TypeOK
    <2>2. QED
      BY <2>1, <1>0 DEF FilesLive, Cur
  <1>3. ASSUME NEW t \in Tasks, SpawnFail(t) PROVE FilesLive'
    <2>1. files' = files \ {Cur(t)} /\ prog' = prog
          /\ \A u \in Tasks \ {t} : pc'[u] = pc[u]
      BY <1>3 DEF SpawnFail, TypeOK
    <2>2. \A s \in files' : s[1] # t
      BY <2>1, <1>0 DEF FilesLive, Cur
    <2>3. QED
      BY <2>1, <2>2, <1>0 DEF FilesLive, Cur
  <1>4. ASSUME NEW t \in Tasks, AfterJob(t) PROVE FilesLive'
    <2>1. /\ \A u \in Tasks \ {t} : pc'[u] = pc[u] /\ prog'[u] = prog[u]
          /\ \/ /\ t \in Gen /\ prog[t] = 1 /\ prog'[t] = 2
                /\ pc'[t] \in {"spawn", "wait"}
             \/ /\ prog[t] = NProg(t) /\ prog'[t] = prog[t]
                /\ pc'[t] = "done"
      BY <1>4, AfterJobCases
    <2>2. \A s \in files \ {Cur(t)} : s[1] # t
      BY <1>0 DEF FilesLive, Cur
    <2>3. CASE prog[t] < NProg(t)
      <3>1. files' = (files \ {Cur(t)}) \cup {<<t, prog[t] + 1>>}
        BY <1>4, <2>3 DEF AfterJob, NProg, TypeOK
      <3>2. prog'[t] = prog[t] + 1 /\ pc'[t] \in {"spawn", "wait"}
        BY <2>1, <2>3 DEF NProg, TypeOK
      <3>3. QED
        BY <2>1, <2>2, <3>1, <3>2, <1>0 DEF FilesLive, Cur
    <2>4. CASE prog[t] = NProg(t)
      <3>1. files' = files \ {Cur(t)}
        BY <1>4, <2>4 DEF AfterJob, NProg, TypeOK
      <3>2. QED
        BY <2>1, <2>2, <3>1, <1>0 DEF FilesLive, Cur
    <2>5. QED
      BY <2>1, <2>3, <2>4 DEF NProg
  <1>5. CASE Abort
    BY <1>5 DEF Abort, FilesLive
  <1>6. ASSUME files' = files, pc' = pc, prog' = prog PROVE FilesLive'
    BY <1>6, <1>0 DEF FilesLive, Cur
  <1>7. QED
    BY <1>1, <1>2, <1>3, <1>4, <1>5, <1>6
    DEF Next, Finish, TimedOut, ProcExit, Complete, vars

LEMMA SweepDoneStep == SweepDone /\ [Next]_vars => SweepDone'
  <1> SUFFICES ASSUME SweepDone, [Next]_vars PROVE SweepDone'
    OBVIOUS
  <1>1. ASSUME NEW t \in Tasks,
               \/ Start(t) \/ Acquire(t) \/ SpawnOk(t) \/ SpawnFail(t)
               \/ Finish(t) \/ TimedOut(t)
        PROVE  SweepDone'
    BY <1>1 DEF Start, Acquire, SpawnOk, SpawnFail, Finish, TimedOut,
                SweepDone
  <1>2. QED
    BY <1>1 DEF Next, ProcExit, Abort, Complete, vars, SweepDone

LEMMA CountStep ==
  ASSUME RInv, CountFinished, [Next]_vars PROVE CountFinished'
  <1>1. IsFiniteSet(Finished)
    BY StepsFinite, FS_Subset DEF Finished
  <1>2. ASSUME NEW t \in Tasks, pc[t] = "run", count' = count + 1,
               NEW r \in {"Completed", "TimedOut"},
               result' = [result EXCEPT ![Cur(t)] = r]
        PROVE  CountFinished'
    <2>1. Cur(t) \in Steps /\ result[Cur(t)] = "none"
      BY <1>2, StepsShape DEF RInv, ResultIff, TypeOK, Cur
    <2>2. Finished' = Finished \cup {Cur(t)} /\ Cur(t) \notin Finished
      BY <1>2, <2>1 DEF Finished, RInv, TypeOK
    <2>3. Cardinality(Finished') = Cardinality(Finished) + 1
      BY <1>1, <2>2, FS_AddElement
    <2>4. QED
      BY <1>2, <2>3 DEF CountFinished
  <1>3. ASSUME NEW t \in Tasks, Finish(t) \/ TimedOut(t) PROVE CountFinished'
    BY <1>3, <1>2 DEF Finish, TimedOut, AfterJob
  <1>4. ASSUME count' = count, result' = result PROVE CountFinished'
    BY <1>4 DEF CountFinished, Finished
  <1>5. QED
    BY <1>3, <1>4 DEF Next, Start, Gate, Acquire, SpawnOk, SpawnFail,
                      ProcExit, Abort, Complete, vars

LEMMA CompletionInitial == Init => CInv
  BY ResultsInitial, AccountingInitial, FS_EmptySet
  DEF Init, CInv, LoopInv, InitAtFirst, DoneAtLast, FilesLive, SweepDone,
      CountFinished, Finished

LEMMA CompletionStep == CInv /\ [Next]_vars => CInv'
  <1> SUFFICES ASSUME CInv, [Next]_vars PROVE CInv'
    OBVIOUS
  <1>1. RInv'
    BY ResultsStep DEF CInv
  <1>2. AccountingInv'
    BY AccountingStep DEF CInv
  <1>3. LoopInv'
    BY LoopStep DEF CInv, RInv
  <1>4. FilesLive'
    BY FilesStep DEF CInv, RInv
  <1>5. SweepDone'
    BY SweepDoneStep DEF CInv
  <1>6. CountFinished'
    BY CountStep DEF CInv
  <1>7. QED
    BY <1>1, <1>2, <1>3, <1>4, <1>5, <1>6 DEF CInv

LEMMA CompletionFromInvariants == CInv => SweepCompletion
  <1> SUFFICES ASSUME CInv, sweep = "done"
               PROVE  /\ \A s \in Steps : result[s] # "none"
                      /\ workers = Capacity
                      /\ count = Cardinality(Steps)
                      /\ files = {}
    BY DEF SweepCompletion
  <1>1. \A t \in Tasks : pc[t] = "done" /\ prog[t] = NProg(t)
    BY DEF CInv, SweepDone, LoopInv, DoneAtLast
  <1>2. \A s \in Steps : result[s] # "none"
    <2> SUFFICES ASSUME NEW s \in Steps PROVE result[s] # "none"
      OBVIOUS
    <2>1. \/ s[2] < prog[s[1]]
          \/ s[2] = prog[s[1]] /\ pc[s[1]] = "done"
      BY <1>1, StepsShape DEF NProg
    <2>2. QED
      BY <2>1 DEF CInv, RInv, ResultIff
  <1>3. Holders = {}
    BY <1>1 DEF Holders
  <1>4. workers = Capacity
    BY <1>3, FS_EmptySet, CapacityAssumption
    DEF CInv, AccountingInv, TokenAccounting, TypeOK
  <1>5. Finished = Steps
    BY <1>2 DEF Finished
  <1>6. files = {}
    BY <1>1, StepsShape DEF CInv, FilesLive, RInv, TypeOK
  <1>7. QED
    BY <1>2, <1>4, <1>5, <1>6 DEF CInv, CountFinished

\* For every number of tasks, ceiling and set of failing spawns, when
\* gather (line 411) returns normally every step has its result, every
\* admission unit is back in `workers`, `count` counts every program and
\* no output file is left open.
THEOREM SweepCompletionHolds == Spec => []SweepCompletion
  BY CompletionInitial, CompletionStep, CompletionFromInvariants, PTL
  DEF Spec

=============================================================================
