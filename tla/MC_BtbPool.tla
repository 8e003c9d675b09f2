------------------------------ MODULE MC_BtbPool ------------------------------
(***************************************************************************)
(* Model-checking instance of BtbPool: two BTB sizes as in the code,      *)
(* three applications on two pool workers (so a worker takes a second     *)
(* task while the other is busy), and one dineroIV run of the second size *)
(* whose report is unusable.                                               *)
(***************************************************************************)
EXTENDS BtbPool, TLC

CONSTANTS a1, a2, a3, w1, w2

MCApps    == {a1, a2, a3}
MCWorkers == {w1, w2}
MCBad     == {<<2, a2>>}

=============================================================================
