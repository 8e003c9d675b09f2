----------------------------- MODULE MC_IGRunner -----------------------------
(***************************************************************************)
(* Model-checking instance of IGRunner: simulation_round "both", so two    *)
(* rounds.  The first round has three tasks (an opt task with            *)
(* --opt-generate, so two programs, and two srrip tasks), the second two  *)
(* hot/warm/cold tasks; a ceiling of two makes first-round tasks poll.    *)
(* The opt task's simulator and one second-round binary may fail to      *)
(* spawn.                                                                  *)
(***************************************************************************)
EXTENDS IGRunner, TLC

CONSTANTS t1, t2, t3, t4, t5

MCTasks   == {t1, t2, t3, t4, t5}
MCRound   == [t \in MCTasks |-> IF t \in {t1, t2, t3} THEN 1 ELSE 2]
MCGen     == {t1}
MCCanFail == {<<t1, 2>>, <<t4, 1>>}

=============================================================================
