-------------------------------- MODULE Sweep --------------------------------
(***************************************************************************)
(* Abstract specification of the bounded-concurrency batch job runner: what *)
(* the scheduler promises of every job step (one external program          *)
(* invocation), independently of how the admission counter, the asyncio   *)
(* tasks and the child processes implement it.                             *)
(*                                                                         *)
(*   Pending --Launch--> Running --Complete--> Completed                   *)
(*                               --Expire----> TimedOut                    *)
(*   Pending --Fail----> LaunchFailed                                      *)
(*                                                                         *)
(* A step is launched only while fewer than Capacity steps are running;   *)
(* terminal states are final.  Admission without a launch is invisible at *)
(* this level: the token a step holds between its admission and its spawn *)
(* is an implementation detail of the runner.                              *)
(***************************************************************************)
EXTENDS Naturals, FiniteSets

CONSTANTS
  Steps,      \* the job steps of the sweep (one per program invocation)
  Capacity    \* the admission ceiling (workers = 67 in src/run_test.py)

VARIABLE st   \* st[s]: the lifecycle state of step s

Terminal == {"Completed", "TimedOut", "LaunchFailed"}
States   == {"Pending", "Running"} \cup Terminal

RunningSteps == {s \in Steps : st[s] = "Running"}

Init == st = [s \in Steps |-> "Pending"]

Launch(s) ==
  /\ st[s] = "Pending"
  /\ Cardinality(RunningSteps) < Capacity
  /\ st' = [st EXCEPT ![s] = "Running"]

Fail(s) ==
  /\ st[s] = "Pending"
  /\ st' = [st EXCEPT ![s] = "LaunchFailed"]

Complete(s) ==
  /\ st[s] = "Running"
  /\ st' = [st EXCEPT ![s] = "Completed"]

Expire(s) ==
  /\ st[s] = "Running"
  /\ st' = [st EXCEPT ![s] = "TimedOut"]

Next == \E s \in Steps : Launch(s) \/ Fail(s) \/ Complete(s) \/ Expire(s)

Spec == Init /\ [][Next]_st

=============================================================================
