------------------------ MODULE ProcessUtil_proofs ------------------------
(***************************************************************************)
(* Proofs about kill_all_pids/wait_pids (ProcessUtil) for every set of     *)
(* pids, every timeout and every bound satisfying ProcessAssumption.       *)
(***************************************************************************)
EXTENDS ProcessUtil, TLAPS

\* gen only grows, so the generation recorded by kill_all_pids never
\* exceeds the current one.
GenAhead == \A p \in Pid : target[p] <= gen[p]

\* The inductive invariant behind NoFalseRemoval.
PInv == TypeOK /\ GenAhead /\ NoFalseRemoval

-----------------------------------------------------------------------------
(* Type correctness.                                                       *)

LEMMA InitTypeOK == Init => TypeOK
<1> SUFFICES ASSUME Init PROVE TypeOK
  OBVIOUS
<1>1. gen \in [Pid -> 0..MaxGen]
  BY ProcessAssumption DEF Init
<1>2. now \in 0..ClockBound
  BY ProcessAssumption DEF Init, ClockBound, Second
<1>3. proc \in [Pid -> ProcState] /\ child \in [Pid -> BOOLEAN]
      /\ target \in [Pid -> 0..MaxGen]
  BY <1>1 DEF Init
<1>4. slept \in Nat /\ stepped \in BOOLEAN
  BY DEF Init
<1>5. QED
  BY <1>1, <1>2, <1>3, <1>4, ProcessAssumption DEF Init, TypeOK

LEMMA NextTypeOK == TypeOK /\ [Next]_vars => TypeOK'
<1> SUFFICES ASSUME TypeOK, [Next]_vars PROVE TypeOK'
  OBVIOUS
<1> USE ProcessAssumption DEF TypeOK
<1>1. CASE KillAllPids
  BY <1>1 DEF KillAllPids
<1>2. CASE WaitPidsStart
  BY <1>2 DEF WaitPidsStart
<1>3. CASE Reap
  BY <1>3 DEF Reap, ProcState
<1>4. CASE Probe
  BY <1>4 DEF Probe
<1>5. CASE Sleep
  BY <1>5 DEF Sleep, ClockBound, Second
<1>6. CASE Check
  BY <1>6 DEF Check
<1>7. ASSUME NEW p \in Pid, Die(p) PROVE TypeOK'
  BY <1>7 DEF Die, ProcState
<1>8. ASSUME NEW p \in Pid, ParentReap(p) PROVE TypeOK'
  BY <1>8 DEF ParentReap, ProcState
<1>9. ASSUME NEW p \in Pid, Spawn(p) PROVE TypeOK'
  <2>1. PICK b \in BOOLEAN : child' = [child EXCEPT ![p] = b]
    BY <1>9 DEF Spawn
  <2>2. QED
    BY <1>9, <2>1 DEF Spawn, ProcState
<1>10. ASSUME NEW p \in Pid, Reparent(p) PROVE TypeOK'
  BY <1>10 DEF Reparent
<1>11. CASE UNCHANGED vars
  BY <1>11 DEF vars
<1>12. CASE ClockStepBack
  <2>1. PICK d \in 1..(now \div Second) : now' = now - d * Second
    BY <1>12 DEF ClockStepBack
  <2>2. now' \in 0..ClockBound
    BY <2>1 DEF Second, ClockBound
  <2>3. QED
    BY <1>12, <2>2 DEF ClockStepBack
<1>13. QED
  BY <1>1, <1>2, <1>3, <1>4, <1>5, <1>6, <1>7, <1>8, <1>9, <1>10, <1>11,
     <1>12 DEF Next

\* Every reachable state is well typed: the process table, the generation
\* counters, the waiting set, the clock and the caller's rounds stay in range.
THEOREM ProcessTypeCorrect == Spec => []TypeOK
BY InitTypeOK, NextTypeOK, PTL DEF Spec

-----------------------------------------------------------------------------
(* NoFalseRemoval.                                                         *)

LEMMA InitPInv == Init => PInv
<1> SUFFICES ASSUME Init PROVE PInv
  OBVIOUS
<1>1. TypeOK
  BY InitTypeOK
<1>2. GenAhead
  BY DEF Init, GenAhead
<1>3. NoFalseRemoval
  BY DEF Init, NoFalseRemoval
<1>4. QED
  BY <1>1, <1>2, <1>3 DEF PInv

LEMMA NextPInv == PInv /\ [Next]_vars => PInv'
<1> SUFFICES ASSUME PInv, [Next]_vars PROVE PInv'
  OBVIOUS
<1>a. TypeOK
  BY DEF PInv
<1>b. TypeOK'
  BY <1>a, NextTypeOK
<1> USE <1>a, <1>b, ProcessAssumption DEF PInv, TypeOK, GenAhead, NoFalseRemoval
<1>1. CASE KillAllPids
  BY <1>1 DEF KillAllPids
<1>2. CASE WaitPidsStart
  BY <1>2 DEF WaitPidsStart
<1>3. CASE Reap
  BY <1>3 DEF Reap
<1>4. CASE Probe
  BY <1>4 DEF Probe
<1>5. CASE Sleep
  BY <1>5 DEF Sleep
<1>6. CASE Check
  BY <1>6 DEF Check
<1>7. ASSUME NEW p \in Pid, Die(p) PROVE PInv'
  BY <1>7 DEF Die
<1>8. ASSUME NEW p \in Pid, ParentReap(p) PROVE PInv'
  BY <1>8 DEF ParentReap
<1>9. ASSUME NEW p \in Pid, Spawn(p) PROVE PInv'
  BY <1>9 DEF Spawn
<1>10. ASSUME NEW p \in Pid, Reparent(p) PROVE PInv'
  BY <1>10 DEF Reparent
<1>11. CASE UNCHANGED vars
  BY <1>11 DEF vars
<1>12. CASE ClockStepBack
  BY <1>12 DEF ClockStepBack
<1>13. QED
  BY <1>1, <1>2, <1>3, <1>4, <1>5, <1>6, <1>7, <1>8, <1>9, <1>10, <1>11,
     <1>12 DEF Next

\* Whatever the processes do meanwhile, wait_pids never drops a pid whose
\* signalled process is still there: a dropped pid is free or held by a
\* process spawned after kill_all_pids.
THEOREM NoFalseRemovalCorrect == Spec => []NoFalseRemoval
<1>1. Init => PInv
  BY InitPInv
<1>2. PInv /\ [Next]_vars => PInv'
  BY NextPInv
<1>3. PInv => NoFalseRemoval
  BY DEF PInv
<1>4. QED
  BY <1>1, <1>2, <1>3, PTL DEF Spec

=============================================================================
