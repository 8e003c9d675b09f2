----------------------------- MODULE MC_RunTest ------------------------------
(***************************************************************************)
(* Model-checking instance of RunTest: four run() tasks, two of which run  *)
(* a _generate program before their simulator (so a task reuses its      *)
(* released unit for a second admission while others poll), a ceiling of *)
(* two so that tasks really wait in the polling loop, and two spawns that *)
(* may raise: a first program and a second program after a _generate.    *)
(***************************************************************************)
EXTENDS RunTest, TLC

CONSTANTS t1, t2, t3, t4

MCTasks   == {t1, t2, t3, t4}
MCGen     == {t1, t2}
\* t2's simulator and t3's binary may be missing (FileNotFoundError).
MCCanFail == {<<t2, 2>>, <<t3, 1>>}

=============================================================================
