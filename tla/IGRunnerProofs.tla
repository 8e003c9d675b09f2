---------------------------- MODULE IGRunnerProofs ----------------------------
(***************************************************************************)
(* Proofs about the runner of                                             *)
(* src/input_generalization/run_input_generalization.py (module IGRunner),*)
(* for every set of tasks, every ceiling, every assignment of the tasks   *)
(* to rounds and every set of failing spawns.                             *)
(***************************************************************************)
EXTENDS IGRunner, Functions, FiniteSetTheorems, TLAPS

-----------------------------------------------------------------------------
(***************************************************************************)
(* Type correctness.                                                       *)
(***************************************************************************)

LEMMA TypeInitial == Init => TypeOK
  BY IGCapacityAssumption, IGRoundAssumption
  DEF Init, TypeOK, PCs, Cur, Steps

\* The state of AfterJob(t) once the task leaves `run`: what it sets is
\* typed whichever branch (next program, or return) it takes.
LEMMA AfterJobType ==
  ASSUME TypeOK, NEW t \in Tasks, AfterJob(t),
         proc' \in [Steps -> {"none", "alive", "exited", "killed"}],
         result' \in [Steps -> {"none", "Completed", "TimedOut"}],
         round' = round, sweep' = sweep
  PROVE  TypeOK'
  <1>1. CASE prog[t] < NProg(t)
    <2>1. t \in Gen /\ prog[t] = 1
      BY <1>1 DEF TypeOK, NProg
    <2>2. /\ prog' = [prog EXCEPT ![t] = 2]
          /\ Gate(t, <<t, 2>>, workers + 1, files \ {Cur(t)})
          /\ count' = count + 1
      BY <1>1, <2>1 DEF AfterJob, NProg
    <2>3. pc' \in [Tasks -> PCs] /\ workers' \in Int
      BY <2>2 DEF Gate, TypeOK, PCs
    <2>4. prog' \in [Tasks -> {1, 2}] /\ \A u \in Tasks : Cur(u)' \in Steps
      BY <2>1, <2>2 DEF TypeOK, Cur, Steps
    <2>5. files' \subseteq Steps
      BY <2>1, <2>2 DEF Gate, TypeOK, Steps
    <2>6. QED
      BY <2>2, <2>3, <2>4, <2>5 DEF TypeOK
  <1>2. CASE prog[t] = NProg(t)
    <2>1. /\ workers' = workers + 1 /\ count' = count + 1
          /\ pc' = [pc EXCEPT ![t] = "done"]
          /\ files' = files \ {Cur(t)}
          /\ prog' = prog
      BY <1>2 DEF AfterJob, NProg, TypeOK
    <2>2. QED
      BY <2>1 DEF TypeOK, PCs, Cur
  <1>3. QED
    BY <1>1, <1>2 DEF AfterJob

LEMMA TypeStep == TypeOK /\ [Next]_vars => TypeOK'
  <1> SUFFICES ASSUME TypeOK, [Next]_vars PROVE TypeOK'
    OBVIOUS
  <1>1. ASSUME NEW t \in Tasks, Start(t) PROVE TypeOK'
    BY <1>1 DEF Start, Gate, TypeOK, PCs, Cur, Steps
  <1>2. ASSUME NEW t \in Tasks, Acquire(t) PROVE TypeOK'
    BY <1>2 DEF Acquire, TypeOK, PCs, Cur, Steps
  <1>3. ASSUME NEW t \in Tasks, SpawnOk(t) PROVE TypeOK'
    BY <1>3 DEF SpawnOk, TypeOK, PCs, Cur, Steps
  <1>4. ASSUME NEW t \in Tasks, SpawnFail(t) PROVE TypeOK'
    BY <1>4 DEF SpawnFail, TypeOK, PCs, Cur, Steps
  <1>5. ASSUME NEW t \in Tasks, Finish(t) PROVE TypeOK'
    <2>1. result' \in [Steps -> {"none", "Completed", "TimedOut"}]
      BY <1>5 DEF Finish, TypeOK, Cur
    <2>2. QED
      BY <1>5, <2>1, AfterJobType DEF Finish, TypeOK
  <1>6. ASSUME NEW t \in Tasks, TimedOut(t) PROVE TypeOK'
    <2>1. result' \in [Steps -> {"none", "Completed", "TimedOut"}]
      BY <1>6 DEF TimedOut, TypeOK, Cur
    <2>2. proc' \in [Steps -> {"none", "alive", "exited", "killed"}]
      BY <1>6 DEF TimedOut, TypeOK, Cur
    <2>3. QED
      BY <1>6, <2>1, <2>2, AfterJobType DEF TimedOut
  <1>7. ASSUME NEW s \in Steps, ProcExit(s) PROVE TypeOK'
    BY <1>7 DEF ProcExit, TypeOK, Cur
  <1>8. CASE Abort
    BY <1>8 DEF Abort, TypeOK, Cur
  <1>9. CASE NextRound
    BY <1>9, IGRoundAssumption DEF NextRound, TypeOK, Cur
  <1>10. CASE Complete
    BY <1>10 DEF Complete, TypeOK, Cur
  <1>11. CASE UNCHANGED vars
    BY <1>11 DEF vars, TypeOK, Cur
  <1>12. QED
    BY <1>1, <1>2, <1>3, <1>4, <1>5, <1>6, <1>7, <1>8, <1>9, <1>10, <1>11
    DEF Next

\* Every reachable state of the input-generalization runner is well typed;
\* in particular no task moves past the last entry of its `programs` and
\* main() never awaits a round past the last one selected.
THEOREM TypeCorrect == Spec => []TypeOK
  BY TypeInitial, TypeStep, PTL DEF Spec


-----------------------------------------------------------------------------
(***************************************************************************)
(* The rounds.  RoundsInOrder is not inductive: a task of the second      *)
(* round could start while main() is still at the first.  The            *)
(* strengthening says that a started task belongs to a round main() has  *)
(* reached, and that every task of an earlier round has returned.         *)
(***************************************************************************)
StartedReached == \A t \in Tasks : pc[t] # "init" => Round[t] <= round
EarlierDone == \A u \in Tasks : Round[u] < round => pc[u] = "done"

RInv == TypeOK /\ StartedReached /\ EarlierDone

LEMMA RoundsInitial == Init => RInv
  BY TypeInitial, IGRoundAssumption DEF Init, RInv, StartedReached, EarlierDone

\* The task actions change the pc of one task only, from a value other
\* than "init" and "done" to a value other than "init".
LEMMA TaskStepKeepsRounds ==
  ASSUME RInv, TypeOK', NEW t \in Tasks, round' = round,
         pc[t] \notin {"init", "done"}, pc'[t] # "init",
         \A u \in Tasks \ {t} : pc'[u] = pc[u]
  PROVE  RInv'
  BY DEF RInv, StartedReached, EarlierDone

LEMMA RoundsStep == RInv /\ [Next]_vars => RInv'
  <1> SUFFICES ASSUME RInv, [Next]_vars PROVE RInv'
    OBVIOUS
  <1>0. TypeOK'
    BY TypeStep DEF RInv
  <1>1. ASSUME NEW t \in Tasks, Start(t) PROVE RInv'
    BY <1>0, <1>1, IGRoundAssumption
    DEF Start, Gate, RInv, TypeOK, StartedReached, EarlierDone
  <1>2. ASSUME NEW t \in Tasks, Acquire(t) PROVE RInv'
    BY <1>0, <1>2, TaskStepKeepsRounds DEF Acquire, RInv, TypeOK
  <1>3. ASSUME NEW t \in Tasks, SpawnOk(t) PROVE RInv'
    BY <1>0, <1>3, TaskStepKeepsRounds DEF SpawnOk, RInv, TypeOK
  <1>4. ASSUME NEW t \in Tasks, SpawnFail(t) PROVE RInv'
    BY <1>0, <1>4, TaskStepKeepsRounds DEF SpawnFail, RInv, TypeOK
  <1>5. ASSUME NEW t \in Tasks, AfterJob(t), pc[t] = "run", round' = round
        PROVE RInv'
    <2>1. pc'[t] # "init" /\ \A u \in Tasks \ {t} : pc'[u] = pc[u]
      BY <1>5 DEF AfterJob, Gate, RInv, TypeOK
    <2>2. QED
      BY <1>0, <1>5, <2>1, TaskStepKeepsRounds
  <1>6. ASSUME NEW t \in Tasks, Finish(t) PROVE RInv'
    BY <1>6, <1>5 DEF Finish
  <1>7. ASSUME NEW t \in Tasks, TimedOut(t) PROVE RInv'
    BY <1>7, <1>5 DEF TimedOut
  <1>8. ASSUME NEW s \in Steps, ProcExit(s) PROVE RInv'
    BY <1>0, <1>8 DEF ProcExit, RInv, StartedReached, EarlierDone
  <1>9. CASE Abort
    BY <1>0, <1>9 DEF Abort, RInv, StartedReached, EarlierDone
  <1>10. CASE NextRound
    <2>1. round' = round + 1 /\ pc' = pc /\ round \in Nat
      BY <1>10, IGRoundAssumption DEF NextRound, RInv, TypeOK
    <2>2. \A u \in Tasks : Round[u] = round => pc[u] = "done"
      BY <1>10 DEF NextRound, InRound
    <2>3. \A u \in Tasks : Round[u] \in Nat
      BY IGRoundAssumption
    <2>4. StartedReached'
      BY <2>1, <2>3 DEF RInv, StartedReached
    <2>5. EarlierDone'
      BY <2>1, <2>2, <2>3 DEF RInv, EarlierDone
    <2>6. QED
      BY <1>0, <2>4, <2>5 DEF RInv
  <1>11. CASE Complete
    BY <1>0, <1>11 DEF Complete, RInv, StartedReached, EarlierDone
  <1>12. CASE UNCHANGED vars
    BY <1>0, <1>12 DEF vars, RInv, StartedReached, EarlierDone
  <1>13. QED
    BY <1>1, <1>2, <1>3, <1>4, <1>6, <1>7, <1>8, <1>9, <1>10, <1>11, <1>12
    DEF Next

\* For every assignment of tasks to rounds, the rounds of main() never
\* overlap: no task of a round starts while a task of an earlier round has
\* not returned, so the second round's runs never read a BTB record that a
\* first-round _generate run is still writing.
THEOREM RoundsInOrderHolds == Spec => []RoundsInOrder
  <1>1. RInv => RoundsInOrder
    <2> SUFFICES ASSUME RInv, NEW t \in Tasks, NEW u \in Tasks,
                        Round[u] < Round[t], pc[t] # "init"
                 PROVE  pc[u] = "done"
      BY DEF RoundsInOrder
    <2>1. Round[t] <= round /\ round \in Int
      BY DEF RInv, StartedReached, TypeOK
    <2>2. Round[u] < round
      BY <2>1, IGRoundAssumption
    <2>3. QED
      BY <2>2 DEF RInv, EarlierDone
  <1>2. QED
    BY <1>1, RoundsInitial, RoundsStep, PTL DEF Spec


-----------------------------------------------------------------------------
(***************************************************************************)
(* The output files.  The strengthening adds that a task that has not     *)
(* started is at its first program, so the file Start opens is the one of *)
(* the program the task is at.                                             *)
(***************************************************************************)
InitAtFirst == \A t \in Tasks : pc[t] = "init" => prog[t] = 1

OInv == TypeOK /\ InitAtFirst /\ OutputOpenOnlyWhileAdmitted

LEMMA FilesInitial == Init => OInv
  BY TypeInitial DEF Init, OInv, InitAtFirst, OutputOpenOnlyWhileAdmitted

\* A file of step s belongs to the task s[1].
LEMMA FileOwner ==
  ASSUME TypeOK, NEW s \in files PROVE s = <<s[1], s[2]>> /\ s[1] \in Tasks
  BY IGGenAssumption DEF TypeOK, Steps

\* A step of task t in which only t moves and in which the files of the
\* other tasks stay as they are keeps the invariant, provided t's own
\* files afterwards satisfy it.
LEMMA OwnStep ==
  ASSUME OInv, TypeOK', NEW t \in Tasks,
         \A u \in Tasks \ {t} : pc'[u] = pc[u] /\ prog'[u] = prog[u],
         pc'[t] # "init",
         \A s \in files' : s[1] # t => s \in files,
         \A s \in files' : s[1] = t => s = Cur(t)' /\ pc'[t] \in {"spawn", "run"}
  PROVE  OInv'
  <1>1. InitAtFirst'
    BY DEF OInv, InitAtFirst
  <1>2. OutputOpenOnlyWhileAdmitted'
    <2> SUFFICES ASSUME NEW s \in files'
                 PROVE  s = Cur(s[1])' /\ pc'[s[1]] \in {"spawn", "run"}
      BY DEF OutputOpenOnlyWhileAdmitted
    <2>1. CASE s[1] = t
      BY <2>1
    <2>2. CASE s[1] # t
      <3>1. s \in files /\ s[1] \in Tasks
        BY <2>2, FileOwner DEF OInv
      <3>2. s = Cur(s[1]) /\ pc[s[1]] \in {"spawn", "run"}
        BY <3>1 DEF OInv, OutputOpenOnlyWhileAdmitted
      <3>3. QED
        BY <2>2, <3>1, <3>2 DEF Cur
    <2>3. QED
      BY <2>1, <2>2
  <1>3. QED
    BY <1>1, <1>2 DEF OInv

\* No file of a task that is not admitted is open.
LEMMA NoFileUnlessAdmitted ==
  ASSUME OInv, NEW t \in Tasks, pc[t] \notin {"spawn", "run"}, NEW s \in files
  PROVE  s[1] # t
  BY DEF OInv, OutputOpenOnlyWhileAdmitted

\* The only file an admitted task has open is the one of its program.
LEMMA OnlyCurrentFile ==
  ASSUME OInv, NEW t \in Tasks, NEW s \in files, s[1] = t
  PROVE  s = Cur(t)
  BY DEF OInv, OutputOpenOnlyWhileAdmitted

LEMMA FilesStep == OInv /\ [Next]_vars => OInv'
  <1> SUFFICES ASSUME OInv, [Next]_vars PROVE OInv'
    OBVIOUS
  <1>0. TypeOK'
    BY TypeStep DEF OInv
  <1>1. ASSUME NEW t \in Tasks, Start(t) PROVE OInv'
    <2>1. prog' = prog /\ Cur(t) = <<t, 1>> /\ \A s \in files : s[1] # t
      BY <1>1, NoFileUnlessAdmitted DEF Start, OInv, InitAtFirst, Cur
    <2>2. CASE workers > 0
      <3>0. pc' = [pc EXCEPT ![t] = "spawn"] /\ files' = files \cup {<<t, 1>>}
        BY <1>1, <2>2 DEF Start, Gate, OInv, TypeOK
      <3>1. \A u \in Tasks \ {t} : pc'[u] = pc[u] /\ prog'[u] = prog[u]
        BY <2>1, <3>0
      <3>2. pc'[t] # "init"
        BY <3>0 DEF OInv, TypeOK
      <3>3. \A s \in files' : s[1] # t => s \in files
        BY <3>0
      <3>4. \A s \in files' : s[1] = t => s = Cur(t)' /\ pc'[t] \in {"spawn", "run"}
        BY <2>1, <3>0 DEF OInv, TypeOK, Cur
      <3>5. QED
        BY <1>0, <3>1, <3>2, <3>3, <3>4, OwnStep
    <2>3. CASE workers <= 0
      <3>0. pc' = [pc EXCEPT ![t] = "wait"] /\ files' = files
        BY <1>1, <2>3 DEF Start, Gate, OInv, TypeOK
      <3>1. \A u \in Tasks \ {t} : pc'[u] = pc[u] /\ prog'[u] = prog[u]
        BY <2>1, <3>0
      <3>2. pc'[t] # "init"
        BY <3>0 DEF OInv, TypeOK
      <3>3. \A s \in files' : s[1] # t => s \in files
        BY <3>0
      <3>4. \A s \in files' : s[1] = t => s = Cur(t)' /\ pc'[t] \in {"spawn", "run"}
        BY <2>1, <3>0
      <3>5. QED
        BY <1>0, <3>1, <3>2, <3>3, <3>4, OwnStep
    <2>4. QED
      BY <2>2, <2>3 DEF OInv, TypeOK
  <1>2. ASSUME NEW t \in Tasks, Acquire(t) PROVE OInv'
    <2>0. /\ \A s \in files : s[1] # t
          /\ pc' = [pc EXCEPT ![t] = "spawn"] /\ files' = files \cup {Cur(t)}
          /\ prog' = prog
      BY <1>2, NoFileUnlessAdmitted DEF Acquire
    <2>1. \A u \in Tasks \ {t} : pc'[u] = pc[u] /\ prog'[u] = prog[u]
      BY <2>0
    <2>2. pc'[t] # "init"
      BY <2>0 DEF OInv, TypeOK
    <2>3. \A s \in files' : s[1] # t => s \in files
      BY <2>0 DEF Cur
    <2>4. \A s \in files' : s[1] = t => s = Cur(t)' /\ pc'[t] \in {"spawn", "run"}
      BY <2>0 DEF OInv, TypeOK, Cur
    <2>5. QED
      BY <1>0, <2>1, <2>2, <2>3, <2>4, OwnStep
  <1>3. ASSUME NEW t \in Tasks, SpawnOk(t) PROVE OInv'
    <2>0. /\ pc[t] = "spawn" /\ pc' = [pc EXCEPT ![t] = "run"]
          /\ files' = files /\ prog' = prog
      BY <1>3 DEF SpawnOk
    <2>1. \A u \in Tasks \ {t} : pc'[u] = pc[u] /\ prog'[u] = prog[u]
      BY <2>0
    <2>2. pc'[t] # "init"
      BY <2>0 DEF OInv, TypeOK
    <2>3. \A s \in files' : s[1] # t => s \in files
      BY <2>0
    <2>4. \A s \in files' : s[1] = t => s = Cur(t)' /\ pc'[t] \in {"spawn", "run"}
      BY <2>0, OnlyCurrentFile DEF OInv, TypeOK, Cur
    <2>5. QED
      BY <1>0, <2>1, <2>2, <2>3, <2>4, OwnStep
  <1>4. ASSUME NEW t \in Tasks, SpawnFail(t) PROVE OInv'
    <2>0. /\ pc' = [pc EXCEPT ![t] = "failed"]
          /\ files' = files \ {Cur(t)} /\ prog' = prog
      BY <1>4 DEF SpawnFail
    <2>1. \A u \in Tasks \ {t} : pc'[u] = pc[u] /\ prog'[u] = prog[u]
      BY <2>0
    <2>2. pc'[t] # "init"
      BY <2>0 DEF OInv, TypeOK
    <2>3. \A s \in files' : s[1] # t => s \in files
      BY <2>0
    <2>4. \A s \in files' : s[1] = t => s = Cur(t)' /\ pc'[t] \in {"spawn", "run"}
      BY <2>0, OnlyCurrentFile DEF OInv, TypeOK
    <2>5. QED
      BY <1>0, <2>1, <2>2, <2>3, <2>4, OwnStep
  <1>5. ASSUME NEW t \in Tasks, AfterJob(t), pc[t] = "run" PROVE OInv'
    <2>1. \A s \in files \ {Cur(t)} : s[1] # t
      BY <1>5, OnlyCurrentFile
    <2>2. CASE prog[t] < NProg(t) /\ workers + 1 > 0
      <3>0. /\ prog' = [prog EXCEPT ![t] = prog[t] + 1]
            /\ pc' = [pc EXCEPT ![t] = "spawn"]
            /\ files' = (files \ {Cur(t)}) \cup {<<t, prog[t] + 1>>}
        BY <1>5, <2>2 DEF AfterJob, Gate, OInv, TypeOK
      <3>1. \A u \in Tasks \ {t} : pc'[u] = pc[u] /\ prog'[u] = prog[u]
        BY <3>0
      <3>2. pc'[t] # "init"
        BY <3>0 DEF OInv, TypeOK
      <3>3. \A s \in files' : s[1] # t => s \in files
        BY <3>0
      <3>4. \A s \in files' : s[1] = t => s = Cur(t)' /\ pc'[t] \in {"spawn", "run"}
        BY <2>1, <3>0 DEF OInv, TypeOK, Cur
      <3>5. QED
        BY <1>0, <3>1, <3>2, <3>3, <3>4, OwnStep
    <2>3. CASE prog[t] < NProg(t) /\ workers + 1 <= 0
      <3>0. /\ prog' = [prog EXCEPT ![t] = prog[t] + 1]
            /\ pc' = [pc EXCEPT ![t] = "wait"]
            /\ files' = files \ {Cur(t)}
        BY <1>5, <2>3 DEF AfterJob, Gate, OInv, TypeOK
      <3>1. \A u \in Tasks \ {t} : pc'[u] = pc[u] /\ prog'[u] = prog[u]
        BY <3>0
      <3>2. pc'[t] # "init"
        BY <3>0 DEF OInv, TypeOK
      <3>3. \A s \in files' : s[1] # t => s \in files
        BY <3>0
      <3>4. \A s \in files' : s[1] = t => s = Cur(t)' /\ pc'[t] \in {"spawn", "run"}
        BY <2>1, <3>0
      <3>5. QED
        BY <1>0, <3>1, <3>2, <3>3, <3>4, OwnStep
    <2>4. CASE prog[t] = NProg(t)
      <3>0. /\ prog' = prog
            /\ pc' = [pc EXCEPT ![t] = "done"]
            /\ files' = files \ {Cur(t)}
        BY <1>5, <2>4 DEF AfterJob, NProg, OInv, TypeOK
      <3>1. \A u \in Tasks \ {t} : pc'[u] = pc[u] /\ prog'[u] = prog[u]
        BY <3>0
      <3>2. pc'[t] # "init"
        BY <3>0 DEF OInv, TypeOK
      <3>3. \A s \in files' : s[1] # t => s \in files
        BY <3>0
      <3>4. \A s \in files' : s[1] = t => s = Cur(t)' /\ pc'[t] \in {"spawn", "run"}
        BY <2>1, <3>0
      <3>5. QED
        BY <1>0, <3>1, <3>2, <3>3, <3>4, OwnStep
    <2>5. QED
      BY <1>5, <2>2, <2>3, <2>4 DEF AfterJob, OInv, TypeOK
  <1>6. ASSUME NEW t \in Tasks, Finish(t) PROVE OInv'
    BY <1>6, <1>5 DEF Finish
  <1>7. ASSUME NEW t \in Tasks, TimedOut(t) PROVE OInv'
    BY <1>7, <1>5 DEF TimedOut
  <1>8. ASSUME NEW s \in Steps, ProcExit(s) PROVE OInv'
    BY <1>0, <1>8 DEF ProcExit, OInv, InitAtFirst, OutputOpenOnlyWhileAdmitted, Cur
  <1>9. CASE Abort
    BY <1>0, <1>9 DEF Abort, OInv, InitAtFirst, OutputOpenOnlyWhileAdmitted
  <1>10. CASE NextRound
    BY <1>0, <1>10 DEF NextRound, OInv, InitAtFirst, OutputOpenOnlyWhileAdmitted, Cur
  <1>11. CASE Complete
    BY <1>0, <1>11 DEF Complete, OInv, InitAtFirst, OutputOpenOnlyWhileAdmitted, Cur
  <1>12. CASE UNCHANGED vars
    BY <1>0, <1>12 DEF vars, OInv, InitAtFirst, OutputOpenOnlyWhileAdmitted, Cur
  <1>13. QED
    BY <1>1, <1>2, <1>3, <1>4, <1>6, <1>7, <1>8, <1>9, <1>10, <1>11, <1>12
    DEF Next

\* For every set of tasks, ceiling and set of failing spawns, an output
\* file of run_input_generalization.py is open only for the program its
\* task is at and only while the task holds its admission unit: the open
\* follows the admission, and the `with` block closes the file on the
\* completion, timeout and spawn-failure paths alike.
THEOREM OutputOpenOnlyWhileAdmittedHolds == Spec => []OutputOpenOnlyWhileAdmitted
  BY FilesInitial, FilesStep, PTL DEF Spec, OInv


-----------------------------------------------------------------------------
(***************************************************************************)
(* Admission accounting and the ceiling, as in module RunTestProofs: the  *)
(* counter is the ceiling minus the units held (by spawning, running and *)
(* failed tasks), it never goes negative, and every live child is the    *)
(* current child of a task in "run", which holds a unit.                  *)
(***************************************************************************)
TokenAccounting == workers + Cardinality(Holders) = Capacity

AccountingInv == TypeOK /\ workers >= 0 /\ TokenAccounting

AliveOwned ==
  \A s \in Steps : proc[s] = "alive" => pc[s[1]] = "run" /\ prog[s[1]] = s[2]

\* A step is a pair of a task and a program index, the second only for a
\* task with opt_generate.
LEMMA StepsShape ==
  ASSUME NEW s \in Steps
  PROVE  /\ s = <<s[1], s[2]>> /\ s[1] \in Tasks /\ s[2] \in {1, 2}
         /\ s[2] = 2 => s[1] \in Gen
  BY IGGenAssumption DEF Steps

LEMMA HoldersFinite ==
  IsFiniteSet(Holders) /\ Cardinality(Holders) \in Nat
  <1>1. IsFiniteSet(Holders)
    BY IGTasksAssumption, FS_Subset DEF Holders
  <1>2. QED
    BY <1>1, FS_CardinalityType

\* The end of a wait_for (lines 82-92) either moves a task with
\* opt_generate on to its second program and its admission test, or
\* returns from run(); no other task moves.
LEMMA AfterJobCases ==
  ASSUME TypeOK, NEW t \in Tasks, AfterJob(t)
  PROVE  /\ \A u \in Tasks \ {t} : pc'[u] = pc[u] /\ prog'[u] = prog[u]
         /\ \/ /\ t \in Gen /\ prog[t] = 1 /\ prog'[t] = 2
               /\ \/ workers' = workers /\ pc'[t] = "spawn"
                  \/ workers' = workers + 1 /\ pc'[t] = "wait"
            \/ /\ prog[t] = NProg(t) /\ prog'[t] = prog[t]
               /\ workers' = workers + 1 /\ pc'[t] = "done"
  <1>1. CASE prog[t] < NProg(t)
    <2>1. t \in Gen /\ prog[t] = 1
      BY <1>1 DEF TypeOK, NProg
    <2>2. prog' = [prog EXCEPT ![t] = prog[t] + 1]
          /\ Gate(t, <<t, prog[t] + 1>>, workers + 1, files \ {Cur(t)})
      BY <1>1 DEF AfterJob, NProg, TypeOK
    <2>3. \/ workers' = workers /\ pc' = [pc EXCEPT ![t] = "spawn"]
          \/ workers' = workers + 1 /\ pc' = [pc EXCEPT ![t] = "wait"]
      BY <2>2 DEF Gate, TypeOK
    <2>4. QED
      BY <2>1, <2>2, <2>3 DEF TypeOK
  <1>2. CASE prog[t] = NProg(t)
    <2>1. prog' = prog /\ pc' = [pc EXCEPT ![t] = "done"] /\ workers' = workers + 1
      BY <1>2 DEF AfterJob, NProg, TypeOK
    <2>2. QED
      BY <1>2, <2>1 DEF TypeOK
  <1>3. QED
    BY <1>1, <1>2 DEF AfterJob

LEMMA AccountingInitial == Init => AccountingInv
  <1> SUFFICES ASSUME Init PROVE AccountingInv
    OBVIOUS
  <1>1. Holders = {}
    BY DEF Init, Holders
  <1>2. QED
    BY <1>1, TypeInitial, IGCapacityAssumption, FS_EmptySet
    DEF AccountingInv, TokenAccounting, Init

\* A step that moves task t only, and into or out of the holders as
\* `workers` moves the other way, keeps the accounting.
LEMMA AccountingOwnStep ==
  ASSUME AccountingInv, TypeOK', NEW t \in Tasks,
         \A u \in Tasks \ {t} : pc'[u] = pc[u],
         \/ workers' = workers /\ (t \in Holders' <=> t \in Holders)
         \/ workers' = workers - 1 /\ workers > 0
              /\ t \notin Holders /\ t \in Holders'
         \/ workers' = workers + 1 /\ t \in Holders /\ t \notin Holders'
  PROVE  AccountingInv'
  <1>1. IsFiniteSet(Holders) /\ Cardinality(Holders) \in Nat
    BY HoldersFinite
  <1>2. CASE workers' = workers /\ (t \in Holders' <=> t \in Holders)
    <2>1. Holders' = Holders
      BY <1>2 DEF Holders
    <2>2. QED
      BY <1>2, <2>1 DEF AccountingInv, TokenAccounting
  <1>3. CASE workers' = workers - 1 /\ workers > 0
               /\ t \notin Holders /\ t \in Holders'
    <2>1. Holders' = Holders \cup {t}
      BY <1>3 DEF Holders
    <2>2. Cardinality(Holders') = Cardinality(Holders) + 1
      BY <1>1, <1>3, <2>1, FS_AddElement
    <2>3. QED
      BY <1>1, <1>3, <2>2 DEF AccountingInv, TokenAccounting, TypeOK
  <1>4. CASE workers' = workers + 1 /\ t \in Holders /\ t \notin Holders'
    <2>1. Holders' = Holders \ {t}
      BY <1>4 DEF Holders
    <2>2. Cardinality(Holders') = Cardinality(Holders) - 1
      BY <1>1, <1>4, <2>1, FS_RemoveElement
    <2>3. QED
      BY <1>1, <1>4, <2>2 DEF AccountingInv, TokenAccounting, TypeOK
  <1>5. QED
    BY <1>2, <1>3, <1>4

LEMMA AccountingStep == AccountingInv /\ [Next]_vars => AccountingInv'
  <1> SUFFICES ASSUME AccountingInv, [Next]_vars PROVE AccountingInv'
    OBVIOUS
  <1>0. TypeOK'
    BY TypeStep DEF AccountingInv
  <1>1. ASSUME NEW t \in Tasks, Start(t) PROVE AccountingInv'
    <2>1. \/ workers' = workers - 1 /\ workers > 0 /\ pc' = [pc EXCEPT ![t] = "spawn"]
          \/ workers' = workers /\ pc' = [pc EXCEPT ![t] = "wait"]
      BY <1>1 DEF Start, Gate, AccountingInv, TypeOK
    <2>2. pc[t] = "init"
      BY <1>1 DEF Start
    <2>3. QED
      BY <1>0, <2>1, <2>2, AccountingOwnStep DEF Holders, AccountingInv, TypeOK
  <1>2. ASSUME NEW t \in Tasks, Acquire(t) PROVE AccountingInv'
    BY <1>0, <1>2, AccountingOwnStep DEF Acquire, Holders, AccountingInv, TypeOK
  <1>3. ASSUME NEW t \in Tasks, SpawnOk(t) \/ SpawnFail(t) PROVE AccountingInv'
    BY <1>0, <1>3, AccountingOwnStep
    DEF SpawnOk, SpawnFail, Holders, AccountingInv, TypeOK
  <1>4. ASSUME NEW t \in Tasks, AfterJob(t), pc[t] = "run" PROVE AccountingInv'
    <2>1. /\ \A u \in Tasks \ {t} : pc'[u] = pc[u]
          /\ \/ workers' = workers /\ pc'[t] = "spawn"
             \/ workers' = workers + 1 /\ pc'[t] \in {"wait", "done"}
      BY <1>4, AfterJobCases DEF AccountingInv
    <2>2. QED
      BY <1>0, <1>4, <2>1, AccountingOwnStep DEF Holders, AccountingInv, TypeOK
  <1>5. ASSUME NEW t \in Tasks, Finish(t) \/ TimedOut(t) PROVE AccountingInv'
    BY <1>5, <1>4 DEF Finish, TimedOut
  <1>6. ASSUME pc' = pc, workers' = workers PROVE AccountingInv'
    <2>1. Holders' = Holders
      BY <1>6 DEF Holders
    <2>2. QED
      BY <1>0, <1>6, <2>1 DEF AccountingInv, TokenAccounting
  <1>7. QED
    BY <1>1, <1>2, <1>3, <1>5, <1>6
    DEF Next, ProcExit, Abort, NextRound, Complete, vars

LEMMA AliveOwnedStep == TypeOK /\ AliveOwned /\ [Next]_vars => AliveOwned'
  <1> SUFFICES ASSUME TypeOK, AliveOwned, [Next]_vars PROVE AliveOwned'
    OBVIOUS
  <1>1. ASSUME proc' = proc, prog' = prog,
               \A u \in Tasks : pc[u] = "run" => pc'[u] = "run"
        PROVE  AliveOwned'
    BY <1>1, StepsShape DEF AliveOwned
  <1>2. ASSUME NEW t \in Tasks, Start(t) \/ Acquire(t) \/ SpawnFail(t)
        PROVE  AliveOwned'
    BY <1>2, <1>1 DEF Start, Gate, Acquire, SpawnFail, TypeOK
  <1>3. ASSUME NEW t \in Tasks, SpawnOk(t) PROVE AliveOwned'
    <2>1. pc[t] = "spawn" /\ proc' = [proc EXCEPT ![Cur(t)] = "alive"]
          /\ pc' = [pc EXCEPT ![t] = "run"] /\ prog' = prog
      BY <1>3 DEF SpawnOk
    <2>2. QED
      BY <2>1, StepsShape DEF AliveOwned, TypeOK, Cur
  \* A task that ends its wait_for: its child is no longer alive.
  <1>4. ASSUME NEW t \in Tasks, AfterJob(t), pc[t] = "run",
               proc'[Cur(t)] # "alive",
               \A s \in Steps : s # Cur(t) => proc'[s] = proc[s]
        PROVE  AliveOwned'
    <2>1. \A u \in Tasks \ {t} : pc'[u] = pc[u] /\ prog'[u] = prog[u]
      BY <1>4, AfterJobCases
    <2>2. \A s \in Steps : proc'[s] = "alive" => s[1] # t
      BY <1>4, StepsShape DEF AliveOwned, TypeOK, Cur
    <2>3. QED
      BY <2>1, <2>2, <1>4, StepsShape DEF AliveOwned
  <1>5. ASSUME NEW t \in Tasks, Finish(t) PROVE AliveOwned'
    BY <1>5, <1>4 DEF Finish, TypeOK
  <1>6. ASSUME NEW t \in Tasks, TimedOut(t) PROVE AliveOwned'
    <2>1. /\ proc'[Cur(t)] # "alive"
          /\ \A s \in Steps : s # Cur(t) => proc'[s] = proc[s]
      BY <1>6 DEF TimedOut, TypeOK
    <2>2. QED
      BY <1>6, <2>1, <1>4 DEF TimedOut
  <1>7. ASSUME NEW s \in Steps, ProcExit(s) PROVE AliveOwned'
    BY <1>7 DEF ProcExit, AliveOwned, TypeOK
  <1>8. QED
    BY <1>1, <1>2, <1>3, <1>5, <1>6, <1>7
    DEF Next, Abort, NextRound, Complete, vars

\* Tasks whose current child is alive.
AliveOwners == {t \in Tasks : pc[t] = "run" /\ proc[Cur(t)] = "alive"}

LEMMA CapacityFromInvariants ==
  ASSUME AccountingInv, AliveOwned
  PROVE  CapacityRespected
  <1> DEFINE Alive == {s \in Steps : proc[s] = "alive"}
             f     == [t \in AliveOwners |-> Cur(t)]
  <1>1. AliveOwners \subseteq Holders
    BY DEF AliveOwners, Holders
  <1>2. IsFiniteSet(AliveOwners)
        /\ Cardinality(AliveOwners) <= Cardinality(Holders)
    BY <1>1, HoldersFinite, FS_Subset
  <1>3. f \in Surjection(AliveOwners, Alive)
    <2>1. f \in [AliveOwners -> Alive]
      BY DEF AliveOwners, AccountingInv, TypeOK
    <2>2. ASSUME NEW s \in Alive PROVE \E t \in AliveOwners : f[t] = s
      <3>1. s = <<s[1], s[2]>> /\ s[1] \in Tasks
        BY StepsShape
      <3>2. pc[s[1]] = "run" /\ prog[s[1]] = s[2]
        BY DEF AliveOwned
      <3>3. Cur(s[1]) = s
        BY <3>1, <3>2 DEF Cur
      <3>4. QED
        BY <3>1, <3>2, <3>3 DEF AliveOwners
    <2>3. QED
      BY <2>1, <2>2 DEF Surjection
  <1>4. IsFiniteSet(Alive) /\ Cardinality(Alive) <= Cardinality(AliveOwners)
    BY <1>2, <1>3, FS_Surjection
  <1>5. Cardinality(Holders) <= Capacity
    BY HoldersFinite DEF AccountingInv, TokenAccounting, TypeOK
  <1>6. QED
    BY <1>2, <1>4, <1>5, HoldersFinite, FS_CardinalityType,
       IGCapacityAssumption
    DEF CapacityRespected

\* For every set of tasks, ceiling, assignment to rounds and set of
\* failing spawns, at no instant do more than Capacity simulators of
\* run_input_generalization.py run at once.
THEOREM CapacityRespectedHolds == Spec => []CapacityRespected
  <1>1. Init => AccountingInv /\ AliveOwned
    BY AccountingInitial DEF Init, AliveOwned
  <1>2. AccountingInv /\ AliveOwned /\ [Next]_vars
          => (AccountingInv /\ AliveOwned)'
    BY AccountingStep, AliveOwnedStep DEF AccountingInv
  <1>3. QED
    BY <1>1, <1>2, CapacityFromInvariants, PTL DEF Spec


-----------------------------------------------------------------------------
(***************************************************************************)
(* The end of the sweep.  A step has a result exactly when its task has   *)
(* moved past it or returned from run() at it (ResultIff); a task returns *)
(* at its last program (DoneAtLast); main() returns normally only after  *)
(* the gather of the last round, when by EarlierDone every task of every *)
(* round has returned (SweepDone).                                         *)
(***************************************************************************)
ResultIff ==
  \A s \in Steps :
    result[s] # "none" <=> \/ s[2] < prog[s[1]]
                           \/ s[2] = prog[s[1]] /\ pc[s[1]] = "done"

DoneAtLast == \A t \in Tasks : pc[t] = "done" => prog[t] = NProg(t)

SweepDone == sweep = "done" => \A t \in Tasks : pc[t] = "done"

CInv == RInv /\ AccountingInv /\ ResultIff /\ DoneAtLast /\ SweepDone

\* Steps that leave result and prog alone and move no task into or out of
\* "done" keep ResultIff and DoneAtLast.
LEMMA ResultsFrame ==
  ASSUME ResultIff, DoneAtLast, result' = result, prog' = prog,
         \A u \in Tasks : pc'[u] = "done" <=> pc[u] = "done"
  PROVE  ResultIff' /\ DoneAtLast'
  BY StepsShape DEF ResultIff, DoneAtLast, NProg

\* The end of the wait_for of the current step records its result.
LEMMA ResultsAfterJob ==
  ASSUME TypeOK, ResultIff, DoneAtLast, NEW t \in Tasks, pc[t] = "run",
         AfterJob(t), NEW r \in {"Completed", "TimedOut"},
         result' = [result EXCEPT ![Cur(t)] = r]
  PROVE  ResultIff' /\ DoneAtLast'
  <1>1. Cur(t) \in Steps /\ Cur(t) = <<t, prog[t]>>
    BY DEF TypeOK, Cur
  <1>2. /\ \A u \in Tasks \ {t} : pc'[u] = pc[u] /\ prog'[u] = prog[u]
        /\ \/ /\ t \in Gen /\ prog[t] = 1 /\ prog'[t] = 2
              /\ pc'[t] \in {"spawn", "wait"}
           \/ /\ prog[t] = NProg(t) /\ prog'[t] = prog[t]
              /\ pc'[t] = "done"
    BY AfterJobCases
  <1>3. ResultIff'
    <2> SUFFICES ASSUME NEW s \in Steps
                 PROVE  result'[s] # "none" <=>
                          \/ s[2] < prog'[s[1]]
                          \/ s[2] = prog'[s[1]] /\ pc'[s[1]] = "done"
      BY DEF ResultIff
    <2>1. CASE s[1] # t
      BY <2>1, <1>1, <1>2, StepsShape DEF ResultIff, TypeOK
    <2>2. CASE s = Cur(t)
      BY <2>2, <1>1, <1>2, StepsShape DEF TypeOK
    <2>3. CASE s[1] = t /\ s # Cur(t)
      <3>1. s[2] # prog[t] /\ result'[s] = result[s]
        BY <2>3, <1>1, StepsShape DEF TypeOK
      <3>2. result[s] # "none" <=> \/ s[2] < prog[t]
                                   \/ s[2] = prog[t] /\ pc[t] = "done"
        BY <2>3 DEF ResultIff
      <3>3. s[2] \in {1, 2} /\ prog[t] \in {1, 2}
        BY StepsShape DEF TypeOK
      <3>4. CASE prog[t] = 1 /\ prog'[t] = 2 /\ pc'[t] \in {"spawn", "wait"}
        BY <2>3, <3>1, <3>2, <3>3, <3>4
      <3>5. CASE prog'[t] = prog[t] /\ pc'[t] = "done"
        BY <2>3, <3>1, <3>2, <3>3, <3>5
      <3>6. QED
        BY <1>2, <3>4, <3>5
    <2>4. QED
      BY <2>1, <2>2, <2>3
  <1>4. DoneAtLast'
    BY <1>2 DEF DoneAtLast, NProg
  <1>5. QED
    BY <1>3, <1>4

LEMMA SweepDoneStep == RInv /\ SweepDone /\ [Next]_vars => SweepDone'
  <1> SUFFICES ASSUME RInv, SweepDone, [Next]_vars PROVE SweepDone'
    OBVIOUS
  <1>1. ASSUME NEW t \in Tasks,
               \/ Start(t) \/ Acquire(t) \/ SpawnOk(t) \/ SpawnFail(t)
               \/ Finish(t) \/ TimedOut(t)
        PROVE  SweepDone'
    BY <1>1 DEF Start, Acquire, SpawnOk, SpawnFail, Finish, TimedOut,
                SweepDone
  <1>2. CASE Complete
    <2>1. /\ round = NRounds /\ pc' = pc
          /\ \A t \in InRound(NRounds) : pc[t] = "done"
      BY <1>2 DEF Complete
    <2>2. ASSUME NEW u \in Tasks PROVE pc[u] = "done"
      <3>1. Round[u] < round \/ Round[u] = NRounds
        BY <2>1, IGRoundAssumption
      <3>2. QED
        BY <2>1, <3>1 DEF RInv, EarlierDone, InRound
    <2>3. \A t \in Tasks : pc'[t] = "done"
      BY <2>1, <2>2
    <2>4. QED
      BY <2>3 DEF SweepDone
  <1>3. QED
    BY <1>1, <1>2 DEF Next, ProcExit, Abort, NextRound, vars, SweepDone

LEMMA CompletionInitial == Init => CInv
  BY RoundsInitial, AccountingInitial, StepsShape
  DEF Init, CInv, ResultIff, DoneAtLast, SweepDone

LEMMA CompletionStep == CInv /\ [Next]_vars => CInv'
  <1> SUFFICES ASSUME CInv, [Next]_vars PROVE CInv'
    OBVIOUS
  <1>1. RInv' /\ AccountingInv' /\ SweepDone'
    BY RoundsStep, AccountingStep, SweepDoneStep DEF CInv
  <1> USE DEF CInv
  <1>2. ASSUME NEW t \in Tasks, Start(t) \/ Acquire(t) \/ SpawnOk(t) \/ SpawnFail(t)
        PROVE  ResultIff' /\ DoneAtLast'
    <2>1. result' = result /\ prog' = prog /\ pc[t] # "done" /\ pc'[t] # "done"
          /\ \A u \in Tasks \ {t} : pc'[u] = pc[u]
      BY <1>2 DEF Start, Gate, Acquire, SpawnOk, SpawnFail, RInv, TypeOK
    <2>2. QED
      BY <2>1, ResultsFrame
  <1>3. ASSUME NEW t \in Tasks, Finish(t) PROVE ResultIff' /\ DoneAtLast'
    <2>1. pc[t] = "run" /\ AfterJob(t)
          /\ result' = [result EXCEPT ![Cur(t)] = "Completed"]
      BY <1>3 DEF Finish
    <2>2. QED
      BY <2>1, ResultsAfterJob DEF RInv
  <1>4. ASSUME NEW t \in Tasks, TimedOut(t) PROVE ResultIff' /\ DoneAtLast'
    <2>1. pc[t] = "run" /\ AfterJob(t)
          /\ result' = [result EXCEPT ![Cur(t)] = "TimedOut"]
      BY <1>4 DEF TimedOut
    <2>2. QED
      BY <2>1, ResultsAfterJob DEF RInv
  <1>5. ASSUME \/ \E s \in Steps : ProcExit(s)
               \/ Abort \/ NextRound \/ Complete \/ UNCHANGED vars
        PROVE  ResultIff' /\ DoneAtLast'
    <2>1. result' = result /\ prog' = prog /\ pc' = pc
      BY <1>5 DEF ProcExit, Abort, NextRound, Complete, vars
    <2>2. QED
      BY <2>1, ResultsFrame
  <1>6. QED
    BY <1>1, <1>2, <1>3, <1>4, <1>5 DEF Next

LEMMA CompletionFromInvariants == CInv => SweepCompletion
  <1> SUFFICES ASSUME CInv, sweep = "done"
               PROVE  /\ \A s \in Steps : result[s] # "none"
                      /\ workers = Capacity
    BY DEF SweepCompletion
  <1>1. \A t \in Tasks : pc[t] = "done" /\ prog[t] = NProg(t)
    BY DEF CInv, SweepDone, DoneAtLast
  <1>2. ASSUME NEW s \in Steps PROVE result[s] # "none"
    <2>1. \/ s[2] < prog[s[1]]
          \/ s[2] = prog[s[1]] /\ pc[s[1]] = "done"
      BY <1>1, StepsShape DEF NProg
    <2>2. QED
      BY <2>1 DEF CInv, ResultIff
  <1>3. Holders = {}
    BY <1>1 DEF Holders
  <1>4. QED
    BY <1>2, <1>3, FS_EmptySet, IGCapacityAssumption
    DEF CInv, AccountingInv, TokenAccounting, TypeOK

\* For every set of tasks, ceiling, assignment to rounds and set of
\* failing spawns, when main() of run_input_generalization.py returns
\* normally every step of every selected round has ended and every
\* admission unit is back in `workers`.
THEOREM SweepCompletionHolds == Spec => []SweepCompletion
  BY CompletionInitial, CompletionStep, CompletionFromInvariants, PTL
  DEF Spec

=============================================================================
