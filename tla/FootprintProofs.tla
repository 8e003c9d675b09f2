--------------------------- MODULE FootprintProofs ---------------------------
(***************************************************************************)
(* Proofs about run_stack_simulator of                                    *)
(* src/plots/gen_footprint_size_raw_data.py (module Footprint), for every *)
(* number of traces, every initial `workers` and every set of failing     *)
(* spawns.                                                                 *)
(***************************************************************************)
EXTENDS Footprint, TLAPS

(***************************************************************************)
(* The strengthening.  ShellWaits: a shell that exited did so after its   *)
(* pipeline (the shell waits for its last child).  CompletedSawExit: a   *)
(* completed wait saw its shell exit.  ResultsBehind: results exist only *)
(* for traces the loop has passed, or for all once it is done, so the     *)
(* trace that Spawn starts has no result yet.                             *)
(***************************************************************************)
ShellWaits == \A i \in Traces : shell[i] = "exited" => pipe[i] # "alive"
CompletedSawExit == \A i \in Traces : result[i] = "Completed" => shell[i] = "exited"
ResultsBehind == \A i \in Traces : result[i] # "none" => i < at \/ pc = "done"

IInv == TypeOK /\ ShellWaits /\ CompletedSawExit /\ ResultsBehind

LEMMA InitIInv == Init => IInv
  BY FootprintAssumption DEF Init, IInv, TypeOK, ProcStates, Traces,
                             ShellWaits, CompletedSawExit, ResultsBehind

\* The bookkeeping shared by Finish and TimedOut: the trace's result is
\* set and the loop moves on or ends, which keeps TypeOK and ResultsBehind.
LEMMA AfterWaitStep ==
  ASSUME IInv, pc = "run", NEW r \in {"Completed", "TimedOut"}, AfterWait(r),
         shell' \in [Traces -> ProcStates], pipe' \in [Traces -> ProcStates]
  PROVE  TypeOK' /\ ResultsBehind'
  <1>1. TypeOK'
    BY FootprintAssumption DEF IInv, TypeOK, AfterWait, Traces
  <1>2. ResultsBehind'
    BY DEF IInv, TypeOK, ResultsBehind, AfterWait, Traces
  <1>3. QED
    BY <1>1, <1>2

LEMMA StepIInv == IInv /\ [Next]_vars => IInv'
  <1> SUFFICES ASSUME IInv, [Next]_vars PROVE IInv'
    OBVIOUS
  <1>1. CASE Spawn
    <2>1. result[at] = "none"
      BY <1>1 DEF IInv, TypeOK, ResultsBehind, Spawn, Traces
    <2>2. QED
      BY <1>1, <2>1 DEF Spawn, IInv, TypeOK, ProcStates,
                        ShellWaits, CompletedSawExit, ResultsBehind
  <1>2. CASE SpawnFail
    BY <1>2 DEF SpawnFail, IInv, TypeOK, ShellWaits, CompletedSawExit, ResultsBehind
  <1>3. CASE Finish
    <2>1. /\ pc = "run" /\ AfterWait("Completed")
          /\ shell' \in [Traces -> ProcStates] /\ pipe' \in [Traces -> ProcStates]
      BY <1>3 DEF Finish, IInv, TypeOK
    <2>2. TypeOK' /\ ResultsBehind'
      BY <2>1, AfterWaitStep
    <2>3. ShellWaits' /\ CompletedSawExit'
      BY <1>3 DEF Finish, AfterWait, IInv, TypeOK, ShellWaits, CompletedSawExit
    <2>4. QED
      BY <2>2, <2>3 DEF IInv
  <1>4. CASE TimedOut
    <2>1. /\ pc = "run" /\ AfterWait("TimedOut")
          /\ shell' \in [Traces -> ProcStates] /\ pipe' \in [Traces -> ProcStates]
      BY <1>4 DEF TimedOut, IInv, TypeOK, ProcStates
    <2>2. TypeOK' /\ ResultsBehind'
      BY <2>1, AfterWaitStep
    <2>3. ShellWaits' /\ CompletedSawExit'
      BY <1>4 DEF TimedOut, AfterWait, IInv, TypeOK, ShellWaits, CompletedSawExit
    <2>4. QED
      BY <2>2, <2>3 DEF IInv
  <1>5. ASSUME NEW i \in Traces, PipeExit(i) PROVE IInv'
    BY <1>5 DEF PipeExit, IInv, TypeOK, ProcStates,
                ShellWaits, CompletedSawExit, ResultsBehind
  <1>6. ASSUME NEW i \in Traces, ShellExit(i) PROVE IInv'
    BY <1>6 DEF ShellExit, IInv, TypeOK, ProcStates,
                ShellWaits, CompletedSawExit, ResultsBehind
  <1>7. CASE UNCHANGED vars
    BY <1>7 DEF vars, IInv, TypeOK, ShellWaits, CompletedSawExit, ResultsBehind
  <1>8. QED
    BY <1>1, <1>2, <1>3, <1>4, <1>5, <1>6, <1>7 DEF Next

\* For every number of traces, initial admission count and set of failing
\* spawns, a zcat | stack-distance pipeline is left running after its
\* trace's wait ended only when that wait timed out: the kill of line 62
\* is the only way run_stack_simulator orphans a pipeline.
THEOREM OrphansOnlyFromTimeoutsHolds == Spec => []OrphansOnlyFromTimeouts
  <1>1. IInv => OrphansOnlyFromTimeouts
    BY DEF IInv, TypeOK, ShellWaits, CompletedSawExit, OrphansOnlyFromTimeouts
  <1>2. QED
    BY <1>1, InitIInv, StepIInv, PTL DEF Spec

\* For every number of traces, initial admission count and set of failing
\* spawns, run_stack_simulator keeps its state well typed: the loop's
\* trace index never leaves the list of traces (the loop ends at the last
\* one instead of stepping past it), the count of finished traces is a
\* natural number and every trace's processes and result are in range.
THEOREM TypeCorrect == Spec => []TypeOK
  <1>1. IInv => TypeOK
    BY DEF IInv
  <1>2. QED
    BY <1>1, InitIInv, StepIInv, PTL DEF Spec

=============================================================================
