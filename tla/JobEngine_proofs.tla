--------------------------- MODULE JobEngine_proofs ---------------------------
(***************************************************************************)
(* Proofs about the job engine of job_manager.rs (module JobEngine).       *)
(*                                                                         *)
(* Every operator the engine applies to its job table (commit of a         *)
(* transaction, deletion of a trigger or of suspended jobs with their      *)
(* fallback, the OnFailure/OnSuccess and retroactive transactions run from *)
(* inside a finish) is shown to return a well-formed table; the type       *)
(* invariant of the whole engine follows by induction over its steps.      *)
(***************************************************************************)
EXTENDS JobEngine, FiniteSetTheorems, TLAPS

-----------------------------------------------------------------------------
(* Finiteness of the job universe.                                         *)

LEMMA JobKindFinite == IsFiniteSet(JobKind)
<1>1. IsFiniteSet({}) BY FS_EmptySet
<1>2. IsFiniteSet({} \cup {"start"}) BY <1>1, FS_AddElement
<1>3. IsFiniteSet(({} \cup {"start"}) \cup {"stop"}) BY <1>2, FS_AddElement
<1>4. IsFiniteSet((({} \cup {"start"}) \cup {"stop"}) \cup {"nop"}) BY <1>3, FS_AddElement
<1>5. JobKind = (({} \cup {"start"}) \cup {"stop"}) \cup {"nop"} BY DEF JobKind
<1>. QED BY <1>4, <1>5

\* Every set of jobs the engine counts is finite and has a natural size.
LEMMA CardJobs ==
  ASSUME NEW P \in SUBSET Job
  PROVE  /\ IsFiniteSet(P)
         /\ Cardinality(P) \in Nat
<1>1. IsFiniteSet(Job) BY JobKindFinite, UnitAssumption, FS_Product DEF Job
<1>2. IsFiniteSet(P) BY <1>1, FS_Subset
<1>. QED BY <1>2, FS_CardinalityType

-----------------------------------------------------------------------------
(* Well-formedness of the table operators.                                 *)

LEMMA KindsOfType ==
  ASSUME NEW P \in SUBSET Job, NEW x
  PROVE  KindsOf(P, x) \in SUBSET JobKind
BY DEF KindsOf, Job

\* Replacing the queues and the wait counter keeps a table well formed.
LEMMA TableSetSuspends ==
  ASSUME NEW s \in TableType, NEW A \in [Unit -> SUBSET JobKind], NEW w \in Int
  PROVE  [s EXCEPT !.suspends = A, !.wait = w] \in TableType
BY DEF TableType

LEMMA RemoveSuspendsType ==
  ASSUME NEW s \in TableType, NEW P \in SUBSET Job
  PROVE  RemoveSuspends(s, P) \in TableType
<1>1. Cardinality(P) \in Nat BY CardJobs
<1>2. [x \in Unit |-> s.suspends[x] \ KindsOf(P, x)] \in [Unit -> SUBSET JobKind]
  BY DEF TableType
<1>3. s.wait - Cardinality(P) \in Int BY <1>1 DEF TableType
<1>. QED BY <1>2, <1>3, TableSetSuspends DEF RemoveSuspends

LEMMA CommitType ==
  ASSUME NEW s \in TableType, NEW st \in SUBSET Job
  PROVE  Commit(s, st) \in TableType
<1>. DEFINE dels == {p \in Conflicts(s, st) : p[2] \in s.suspends[p[1]]}
            adds == {q \in st : ~HasJob(s, q[1], q[2])}
<1>1. dels \in SUBSET Job BY DEF Conflicts
<1>2. adds \in SUBSET Job OBVIOUS
<1>3. Cardinality(dels) \in Nat /\ Cardinality(adds) \in Nat BY <1>1, <1>2, CardJobs
<1>4. [x \in Unit |-> (s.suspends[x] \ KindsOf(dels, x)) \cup KindsOf(adds, x)]
        \in [Unit -> SUBSET JobKind]
  BY <1>1, <1>2, KindsOfType DEF TableType
<1>5. s.wait - Cardinality(dels) + Cardinality(adds) \in Int BY <1>3 DEF TableType
<1>. QED BY <1>4, <1>5, TableSetSuspends DEF Commit

LEMMA StagedType ==
  ASSUME NEW u \in Unit, NEW k \in JobKind, NEW m, NEW lv \in SUBSET Unit
  PROVE  Staged(u, k, m, lv) \in SUBSET Job
BY DEF Staged, Job, JobKind, StartClosure, StopClosure

LEMMA ExecSetType ==
  ASSUME NEW s \in TableType, NEW lv \in SUBSET Unit, NEW T \in SUBSET Unit,
         NEW k \in JobKind, NEW m
  PROVE  ExecSet(s, lv, T, k, m) \in TableType
<1>. DEFINE ok == {t \in T \cap lv : Verified(s, Staged(t, k, m, lv), m)}
<1>1. UNION {Staged(t, k, m, lv) : t \in ok} \in SUBSET Job BY StagedType
<1>. QED BY <1>1, CommitType DEF ExecSet

\* Setting one unit's trigger, pause flag and the run counter keeps a
\* table well formed.
LEMMA TableSetTrigger ==
  ASSUME NEW s \in TableType, NEW u \in Unit, NEW k \in JobKind \cup {NoJob},
         NEW b \in BOOLEAN, NEW r \in Int
  PROVE  [s EXCEPT !.trigger[u] = k, !.pause[u] = b, !.run = r] \in TableType
BY DEF TableType

\* Setting one unit's pause flag and both counters keeps a table well formed.
LEMMA TableSetPause ==
  ASSUME NEW s \in TableType, NEW u \in Unit, NEW b \in BOOLEAN,
         NEW w \in Int, NEW r \in Int
  PROVE  [s EXCEPT !.pause[u] = b, !.wait = w, !.run = r] \in TableType
BY DEF TableType

LEMMA FallbackType ==
  ASSUME NEW s \in TableType, NEW u \in Unit, NEW k
  PROVE  Fallback(s, u, k) \in SUBSET Job
BY RelationAssumption DEF Fallback, RequiredBy, Job, JobKind

LEMMA DelTriggerType ==
  ASSUME NEW s \in TableType, NEW u \in Unit, NEW res
  PROVE  DelTrigger(s, u, res) \in TableType
<1>. DEFINE s1 == [s EXCEPT !.trigger[u] = NoJob, !.pause[u] = FALSE, !.run = s.run - 1]
<1>1. s1 \in TableType
  <2>1. s.run - 1 \in Int BY DEF TableType
  <2>2. NoJob \in JobKind \cup {NoJob} OBVIOUS
  <2>. QED BY <2>1, <2>2, TableSetTrigger
<1>2. RemoveSuspends(s1, Fallback(s1, u, s.trigger[u])) \in TableType
  BY <1>1, FallbackType, RemoveSuspendsType
<1>. QED BY <1>1, <1>2 DEF DelTrigger

LEMMA DelSuspendsType ==
  ASSUME NEW s \in TableType, NEW u \in Unit, NEW k \in JobKind, NEW res
  PROVE  DelSuspends(s, u, k, res) \in TableType
<1>. DEFINE s1 == RemoveSuspends(s, IF k \in s.suspends[u] THEN {<<u, k>>} ELSE {})
<1>1. s1 \in TableType BY RemoveSuspendsType DEF Job
<1>2. RemoveSuspends(s1, Fallback(s1, u, k)) \in TableType
  BY <1>1, FallbackType, RemoveSuspendsType
<1>. QED BY <1>1, <1>2 DEF DelSuspends

LEMMA ExecOnType ==
  ASSUME NEW s \in TableType, NEW lv \in SUBSET Unit, NEW T \in SUBSET Unit
  PROVE  ExecOn(s, lv, T) \in TableType
BY ExecSetType DEF ExecOn, JobKind

LEMMA DoRemoveType ==
  ASSUME NEW s \in TableType, NEW lv \in SUBSET Unit, NEW u \in Unit,
         NEW k \in JobKind, NEW isTrig \in BOOLEAN, NEW res, NEW force
  PROVE  DoRemove(s, lv, u, k, isTrig, res, force) \in TableType
<1>1. (IF isTrig THEN DelTrigger(s, u, res) ELSE DelSuspends(s, u, k, res)) \in TableType
  BY DelTriggerType, DelSuspendsType
<1>. QED BY <1>1, ExecOnType, RelationAssumption DEF DoRemove, SimulateUnitNotify

LEMMA SimulateJobNotifyType ==
  ASSUME NEW s \in TableType, NEW lv \in SUBSET Unit, NEW u \in Unit, NEW os, NEW ns
  PROVE  SimulateJobNotify(s, lv, u, os, ns) \in TableType
<1>1. RequiredBy(u) \in SUBSET Unit BY DEF RequiredBy
<1>2. DoNotify(s, lv, u, "start") \in TableType
  BY ExecSetType, RelationAssumption DEF DoNotify, JobKind
<1>3. DoNotify(s, lv, u, "stop") \in TableType
  BY <1>1, ExecSetType DEF DoNotify, JobKind
<1>. QED BY <1>2, <1>3 DEF SimulateJobNotify

LEMMA UnitStartOnType ==
  ASSUME NEW s \in TableType, NEW lv \in SUBSET Unit, NEW u \in Unit,
         NEW os, NEW ns, NEW restart
  PROVE  UnitStartOn(s, lv, u, os, ns, restart) \in TableType
<1>. DEFINE s1 == IF ns # os /\ ~restart /\ ns = "failed" /\ OnFailureJobMode[u] = "fail"
                    THEN ExecOn(s, lv, OnFailureUnits[u]) ELSE s
<1>1. s1 \in TableType BY ExecOnType, RelationAssumption
<1>2. ExecOn(s1, lv, OnSuccessUnits[u]) \in TableType BY <1>1, ExecOnType, RelationAssumption
<1>. QED BY <1>1, <1>2 DEF UnitStartOn

LEMMA DoTryFinishType ==
  ASSUME NEW s \in TableType, NEW lv \in SUBSET Unit, NEW u \in Unit,
         NEW os, NEW ns, NEW restart
  PROVE  DoTryFinish(s, lv, u, os, ns, restart) \in TableType
<1>. DEFINE r  == JobProcessUnit(s.trigger[u], ns, restart)
            s1 == CASE s.trigger[u] # NoJob /\ s.pause[u] -> [s EXCEPT !.pause[u] = FALSE]
                    [] s.trigger[u] # NoJob /\ r.res # NoJob -> DelTrigger(s, u, r.res)
                    [] OTHER -> s
            gen == s.trigger[u] # NoJob /\ (s.pause[u] \/ r.gen)
            s2 == IF gen THEN s1 ELSE SimulateJobNotify(s1, lv, u, os, ns)
<1>1. [s EXCEPT !.pause[u] = FALSE] \in TableType BY DEF TableType
<1>2. s1 \in TableType BY <1>1, DelTriggerType
<1>3. s2 \in TableType BY <1>2, SimulateJobNotifyType
<1>. QED BY <1>3, UnitStartOnType DEF DoTryFinish

-----------------------------------------------------------------------------
(* Type correctness of the engine.                                         *)

LEMMA InitTypeOK == Init => TypeOK
<1>. SUFFICES ASSUME Init PROVE TypeOK OBVIOUS
<1>1. jm \in TableType BY DEF Init, TableType, NoJob, JobKind
<1>2. cur \in [unit: Unit, kind: JobKind] BY UnitAssumption DEF Init, JobKind
<1>. QED BY <1>1, <1>2 DEF Init, TypeOK, ActiveState

\* TryEnable leaves armed a Boolean.
LEMMA TryEnableType ==
  ASSUME NEW s, armed \in BOOLEAN, TryEnable(s)
  PROVE  armed' \in BOOLEAN
BY DEF TryEnable

LEMMA NextTypeOK == TypeOK /\ [Next]_vars => TypeOK'
<1>. SUFFICES ASSUME TypeOK, [Next]_vars PROVE TypeOK' OBVIOUS
<1>. USE DEF TypeOK
<1>1. ASSUME NEW u \in Unit, NEW k \in JobKind, NEW m \in JobMode, Exec(u, k, m)
      PROVE  TypeOK'
  <2>1. jm' \in TableType BY <1>1, ExecSetType DEF Exec
  <2>. QED BY <1>1, <2>1, TryEnableType DEF Exec
<1>2. ASSUME NEW u \in Unit, NEW ns \in ActiveState, NEW r \in BOOLEAN, TryFinish(u, ns, r)
      PROVE  TypeOK'
  <2>1. jm' \in TableType BY <1>2, DoTryFinishType DEF TryFinish
  <2>. QED BY <1>2, <2>1, TryEnableType DEF TryFinish
<1>3. ASSUME NEW u \in Unit, NEW k \in JobKind, Remove(u, k)
      PROVE  TypeOK'
  <2>1. jm' \in TableType BY <1>3, DoRemoveType DEF Remove
  <2>2. armed' \in BOOLEAN BY <1>3 DEF Remove, TryEnable
  <2>3. UNCHANGED <<live, ustate, running, text, pc, cur>> BY <1>3 DEF Remove
  <2>. QED BY <2>1, <2>2, <2>3
<1>4. ASSUME NEW u \in Unit, RemoveUnit(u)
      PROVE  TypeOK'
  <2>. DEFINE s1 == RemoveSuspends(jm, {<<u, k>> : k \in jm.suspends[u]})
  <2>1. s1 \in TableType BY RemoveSuspendsType DEF TableType, Job
  <2>2. s1.run - (IF jm.trigger[u] = NoJob THEN 1 ELSE 0) \in Int BY <2>1 DEF TableType
  <2>3. [s1 EXCEPT !.trigger[u] = NoJob, !.pause[u] = FALSE,
                   !.run = s1.run - (IF jm.trigger[u] = NoJob THEN 1 ELSE 0)] \in TableType
    BY <2>1, <2>2, TableSetTrigger
  <2>. QED BY <1>4, <2>3 DEF RemoveUnit
<1>5. CASE Dispatch BY <1>5 DEF Dispatch
<1>6. ASSUME NEW x \in Unit, NEW k \in JobKind, RunTrigger(x, k)
      PROVE  TypeOK'
  <2>1. jm' \in TableType BY <1>6 DEF RunTrigger, TableType
  <2>. QED BY <1>6, <2>1 DEF RunTrigger
<1>7. CASE RunIdle BY <1>7 DEF RunIdle
<1>8. ASSUME NEW ns \in ActiveState, NEW r \in BOOLEAN, SyncFinish(ns, r)
      PROVE  TypeOK'
  <2>1. text' \in {<<t>> : t \in TextType} BY <1>8 DEF SyncFinish, TextType
  <2>. QED BY <1>8, <2>1, TryEnableType DEF SyncFinish
<1>9. ASSUME NEW ns \in ActiveState, SyncFinishRejected(ns)
      PROVE  TypeOK'
  BY <1>9 DEF SyncFinishRejected
<1>10. ASSUME NEW res \in {NoJob, "done", "failed", "pause"}, TriggerReturn(res)
       PROVE  TypeOK'
  <2>. DEFINE s0 == [jm EXCEPT !.pause[cur.unit] = (res = "pause"),
                               !.wait = @ - 1, !.run = @ + 1]
              s1 == IF text = <<>> THEN s0
                    ELSE DoTryFinish(s0, live, text[1].unit, text[1].os, text[1].ns, text[1].restart)
  <2>1. s0 \in TableType
    <3>1. (res = "pause") \in BOOLEAN /\ jm.wait - 1 \in Int /\ jm.run + 1 \in Int
      BY DEF TableType
    <3>. QED BY <3>1, TableSetPause
  <2>2. text # <<>> => text[1] \in TextType OBVIOUS
  <2>3. s1 \in TableType BY <2>1, <2>2, DoTryFinishType DEF TextType
  <2>4. jm' \in TableType BY <1>10, <2>3, DoRemoveType DEF TriggerReturn
  <2>. QED BY <1>10, <2>4 DEF TriggerReturn
<1>11. CASE UNCHANGED vars BY <1>11 DEF vars
<1>. QED BY <1>1, <1>2, <1>3, <1>4, <1>5, <1>6, <1>7, <1>8, <1>9, <1>10, <1>11 DEF Next

\* The engine's state is well typed in every reachable state: the table
\* operators of exec, try_finish, remove, remove_unit and run() only ever
\* build well-formed job tables.
THEOREM TypeCorrect == Spec => []TypeOK
BY InitTypeOK, NextTypeOK, PTL DEF Spec

-----------------------------------------------------------------------------
(* JobStat's wait counter: every table operator keeps it equal to the      *)
(* number of queued jobs.                                                  *)

WaitEq(s) == s.wait = Cardinality(Suspended(s))

LEMMA SuspendedType ==
  ASSUME NEW s \in TableType
  PROVE  /\ Suspended(s) \in SUBSET Job
         /\ IsFiniteSet(Suspended(s))
         /\ Cardinality(Suspended(s)) \in Nat
<1>1. Suspended(s) \in SUBSET Job BY DEF Suspended
<1>. QED BY <1>1, CardJobs

\* Removing D from a finite set and adding A disjoint from it.
LEMMA CardDiffUnion ==
  ASSUME NEW S, IsFiniteSet(S), NEW D \in SUBSET S, NEW A, IsFiniteSet(A), A \cap S = {}
  PROVE  /\ IsFiniteSet((S \ D) \cup A)
         /\ Cardinality((S \ D) \cup A) = Cardinality(S) - Cardinality(D) + Cardinality(A)
<1>1. IsFiniteSet(S \ D) /\ Cardinality(S \ D) = Cardinality(S) - Cardinality(S \cap D)
  BY FS_Difference
<1>2. S \cap D = D OBVIOUS
<1>3. (S \ D) \cap A = {} OBVIOUS
<1>4. Cardinality({}) = 0 BY FS_EmptySet
<1>5. IsFiniteSet((S \ D) \cup A)
      /\ Cardinality((S \ D) \cup A) = Cardinality(S \ D) + Cardinality(A) - Cardinality((S \ D) \cap A)
  BY <1>1, FS_Union
<1>6. IsFiniteSet(D) BY FS_Subset
<1>7. /\ Cardinality(D) \in Nat /\ Cardinality(S) \in Nat /\ Cardinality(A) \in Nat
      /\ Cardinality(S \ D) \in Nat
  BY <1>1, <1>6, FS_CardinalityType
<1>8. Cardinality((S \ D) \cup A) = Cardinality(S \ D) + Cardinality(A)
  <2>1. Cardinality((S \ D) \cap A) = 0 BY <1>3, <1>4
  <2>. QED BY <2>1, <1>5, <1>7
<1>9. Cardinality(S \ D) = Cardinality(S) - Cardinality(D)
  BY <1>1, <1>2
<1>. QED BY <1>5, <1>7, <1>8, <1>9

\* Tables that agree on the queues and on wait agree on WaitEq.
LEMMA WaitEqSame ==
  ASSUME NEW s, NEW t, WaitEq(s), t.suspends = s.suspends, t.wait = s.wait
  PROVE  WaitEq(t)
BY DEF WaitEq, Suspended

LEMMA WaitRemove ==
  ASSUME NEW s \in TableType, WaitEq(s), NEW P \in SUBSET Suspended(s)
  PROVE  WaitEq(RemoveSuspends(s, P))
<1>. DEFINE t == RemoveSuspends(s, P)
<1>1. t.suspends = [x \in Unit |-> s.suspends[x] \ KindsOf(P, x)]
      /\ t.wait = s.wait - Cardinality(P)
  BY DEF RemoveSuspends, TableType
<1>2. Suspended(t) = (Suspended(s) \ P) \cup {}
  BY <1>1 DEF Suspended, KindsOf, Job
<1>3. Cardinality(Suspended(t)) = Cardinality(Suspended(s)) - Cardinality(P) + Cardinality({})
  BY <1>2, SuspendedType, CardDiffUnion, FS_EmptySet
<1>4. Cardinality(P) \in Nat /\ Cardinality(Suspended(s)) \in Nat
  BY SuspendedType, CardJobs
<1>. QED BY <1>1, <1>3, <1>4, FS_EmptySet DEF WaitEq

\* A pair of Job is determined by its unit and its kind.
LEMMA KindsOfMember ==
  ASSUME NEW P \in SUBSET Job, NEW p \in Job
  PROVE  p[2] \in KindsOf(P, p[1]) <=> p \in P
BY DEF KindsOf, Job

LEMMA WaitCommit ==
  ASSUME NEW s \in TableType, WaitEq(s), NEW st \in SUBSET Job
  PROVE  WaitEq(Commit(s, st))
<1>. DEFINE dels == {p \in Conflicts(s, st) : p[2] \in s.suspends[p[1]]}
            adds == {q \in st : ~HasJob(s, q[1], q[2])}
            t    == Commit(s, st)
<1>1. dels \in SUBSET Suspended(s) BY DEF Conflicts, Suspended
<1>2. adds \in SUBSET Job /\ adds \cap Suspended(s) = {} BY DEF HasJob, Suspended
<1>3. t.suspends = [x \in Unit |-> (s.suspends[x] \ KindsOf(dels, x)) \cup KindsOf(adds, x)]
      /\ t.wait = s.wait - Cardinality(dels) + Cardinality(adds)
  BY DEF Commit, TableType
<1>4. Suspended(t) = (Suspended(s) \ dels) \cup adds
  <2>1. dels \in SUBSET Job BY <1>1, SuspendedType
  <2>2. ASSUME NEW p \in Job
        PROVE  p[2] \in t.suspends[p[1]] <=> p \in (Suspended(s) \ dels) \cup adds
    <3>1. p[1] \in Unit BY DEF Job
    <3>2. p[2] \in t.suspends[p[1]] <=>
            (p[2] \in s.suspends[p[1]] /\ ~(p[2] \in KindsOf(dels, p[1])))
            \/ p[2] \in KindsOf(adds, p[1])
      BY <1>3, <3>1
    <3>3. p[2] \in KindsOf(dels, p[1]) <=> p \in dels BY <2>1, KindsOfMember
    <3>4. p[2] \in KindsOf(adds, p[1]) <=> p \in adds BY <1>2, KindsOfMember
    <3>. QED BY <3>2, <3>3, <3>4 DEF Suspended
  <2>. QED BY <2>2, <1>2, <2>1 DEF Suspended
<1>5. IsFiniteSet(adds) BY <1>2, CardJobs
<1>6. Cardinality(Suspended(t)) = Cardinality(Suspended(s)) - Cardinality(dels) + Cardinality(adds)
  BY <1>1, <1>2, <1>4, <1>5, SuspendedType, CardDiffUnion
<1>. QED BY <1>3, <1>6 DEF WaitEq

LEMMA WaitExecSet ==
  ASSUME NEW s \in TableType, WaitEq(s), NEW lv \in SUBSET Unit, NEW T \in SUBSET Unit,
         NEW k \in JobKind, NEW m
  PROVE  WaitEq(ExecSet(s, lv, T, k, m))
<1>. DEFINE ok == {t \in T \cap lv : Verified(s, Staged(t, k, m, lv), m)}
<1>1. UNION {Staged(t, k, m, lv) : t \in ok} \in SUBSET Job BY StagedType
<1>. QED BY <1>1, WaitCommit DEF ExecSet

LEMMA WaitExecOn ==
  ASSUME NEW s \in TableType, WaitEq(s), NEW lv \in SUBSET Unit, NEW T \in SUBSET Unit
  PROVE  WaitEq(ExecOn(s, lv, T))
BY WaitExecSet DEF ExecOn, JobKind

LEMMA FallbackSuspended ==
  ASSUME NEW s \in TableType, NEW u \in Unit, NEW k
  PROVE  Fallback(s, u, k) \in SUBSET Suspended(s)
BY DEF Fallback, RequiredBy, Suspended, Job, JobKind

LEMMA WaitDelTrigger ==
  ASSUME NEW s \in TableType, WaitEq(s), NEW u \in Unit, NEW res
  PROVE  WaitEq(DelTrigger(s, u, res))
<1>. DEFINE s1 == [s EXCEPT !.trigger[u] = NoJob, !.pause[u] = FALSE, !.run = s.run - 1]
<1>1. s1 \in TableType
  <2>1. s.run - 1 \in Int BY DEF TableType
  <2>. QED BY <2>1, TableSetTrigger
<1>2. WaitEq(s1)
  <2>1. s1.suspends = s.suspends /\ s1.wait = s.wait BY DEF TableType
  <2>. QED BY <2>1, WaitEqSame
<1>3. WaitEq(RemoveSuspends(s1, Fallback(s1, u, s.trigger[u])))
  BY <1>1, <1>2, FallbackSuspended, WaitRemove
<1>. QED BY <1>2, <1>3 DEF DelTrigger

LEMMA WaitDelSuspends ==
  ASSUME NEW s \in TableType, WaitEq(s), NEW u \in Unit, NEW k \in JobKind, NEW res
  PROVE  WaitEq(DelSuspends(s, u, k, res))
<1>. DEFINE P  == IF k \in s.suspends[u] THEN {<<u, k>>} ELSE {}
            s1 == RemoveSuspends(s, P)
<1>1. P \in SUBSET Suspended(s) BY DEF Suspended, Job
<1>2. s1 \in TableType /\ WaitEq(s1) BY <1>1, SuspendedType, RemoveSuspendsType, WaitRemove
<1>3. WaitEq(RemoveSuspends(s1, Fallback(s1, u, k)))
  BY <1>2, FallbackSuspended, WaitRemove
<1>. QED BY <1>2, <1>3 DEF DelSuspends

LEMMA WaitDoRemove ==
  ASSUME NEW s \in TableType, WaitEq(s), NEW lv \in SUBSET Unit, NEW u \in Unit,
         NEW k \in JobKind, NEW isTrig \in BOOLEAN, NEW res, NEW force
  PROVE  WaitEq(DoRemove(s, lv, u, k, isTrig, res, force))
<1>. DEFINE s1 == IF isTrig THEN DelTrigger(s, u, res) ELSE DelSuspends(s, u, k, res)
<1>1. s1 \in TableType /\ WaitEq(s1)
  BY DelTriggerType, DelSuspendsType, WaitDelTrigger, WaitDelSuspends
<1>. QED BY <1>1, WaitExecOn, RelationAssumption DEF DoRemove, SimulateUnitNotify

LEMMA WaitSimulateJobNotify ==
  ASSUME NEW s \in TableType, WaitEq(s), NEW lv \in SUBSET Unit, NEW u \in Unit,
         NEW os, NEW ns
  PROVE  WaitEq(SimulateJobNotify(s, lv, u, os, ns))
<1>1. RequiredBy(u) \in SUBSET Unit BY DEF RequiredBy
<1>2. WaitEq(DoNotify(s, lv, u, "start"))
  BY WaitExecSet, RelationAssumption DEF DoNotify, JobKind
<1>3. WaitEq(DoNotify(s, lv, u, "stop"))
  BY <1>1, WaitExecSet DEF DoNotify, JobKind
<1>. QED BY <1>2, <1>3 DEF SimulateJobNotify

LEMMA WaitUnitStartOn ==
  ASSUME NEW s \in TableType, WaitEq(s), NEW lv \in SUBSET Unit, NEW u \in Unit,
         NEW os, NEW ns, NEW restart
  PROVE  WaitEq(UnitStartOn(s, lv, u, os, ns, restart))
<1>. DEFINE s1 == IF ns # os /\ ~restart /\ ns = "failed" /\ OnFailureJobMode[u] = "fail"
                    THEN ExecOn(s, lv, OnFailureUnits[u]) ELSE s
<1>1. s1 \in TableType /\ WaitEq(s1) BY ExecOnType, WaitExecOn, RelationAssumption
<1>2. WaitEq(ExecOn(s1, lv, OnSuccessUnits[u])) BY <1>1, WaitExecOn, RelationAssumption
<1>. QED BY <1>1, <1>2 DEF UnitStartOn

LEMMA WaitDoTryFinish ==
  ASSUME NEW s \in TableType, WaitEq(s), NEW lv \in SUBSET Unit, NEW u \in Unit,
         NEW os, NEW ns, NEW restart
  PROVE  WaitEq(DoTryFinish(s, lv, u, os, ns, restart))
<1>. DEFINE r  == JobProcessUnit(s.trigger[u], ns, restart)
            s1 == CASE s.trigger[u] # NoJob /\ s.pause[u] -> [s EXCEPT !.pause[u] = FALSE]
                    [] s.trigger[u] # NoJob /\ r.res # NoJob -> DelTrigger(s, u, r.res)
                    [] OTHER -> s
            gen == s.trigger[u] # NoJob /\ (s.pause[u] \/ r.gen)
            s2 == IF gen THEN s1 ELSE SimulateJobNotify(s1, lv, u, os, ns)
<1>1. [s EXCEPT !.pause[u] = FALSE] \in TableType /\ WaitEq([s EXCEPT !.pause[u] = FALSE])
  <2>1. [s EXCEPT !.pause[u] = FALSE] \in TableType BY DEF TableType
  <2>2. [s EXCEPT !.pause[u] = FALSE].suspends = s.suspends
        /\ [s EXCEPT !.pause[u] = FALSE].wait = s.wait
    BY DEF TableType
  <2>. QED BY <2>1, <2>2, WaitEqSame
<1>2. s1 \in TableType /\ WaitEq(s1) BY <1>1, DelTriggerType, WaitDelTrigger
<1>3. s2 \in TableType /\ WaitEq(s2) BY <1>2, SimulateJobNotifyType, WaitSimulateJobNotify
<1>. QED BY <1>3, WaitUnitStartOn DEF DoTryFinish

\* The inductive invariant: between try_trigger taking a job off its queue
\* and run() charging it to JobStat, wait is ahead of the queues by one.
WaitInv ==
  /\ TypeOK
  /\ pc = "trig" => jm.wait = Cardinality(Suspended(jm)) + 1
  /\ pc # "trig" => WaitEq(jm)

LEMMA WaitInvInit == Init => WaitInv
<1>. SUFFICES ASSUME Init PROVE WaitInv BY InitTypeOK
<1>1. jm.suspends = [u \in Unit |-> {}] BY DEF Init
<1>2. Suspended(jm) = {} BY <1>1 DEF Suspended, Job
<1>3. jm.wait = 0 /\ pc = "idle" BY DEF Init
<1>. QED BY <1>2, <1>3, InitTypeOK, FS_EmptySet DEF WaitInv, WaitEq

LEMMA WaitInvNext == WaitInv /\ [Next]_vars => WaitInv'
<1>. SUFFICES ASSUME WaitInv, [Next]_vars PROVE WaitInv' OBVIOUS
<1>0. TypeOK' BY NextTypeOK DEF WaitInv
<1>a. TypeOK BY DEF WaitInv
<1>. USE <1>a DEF TypeOK
<1>1. ASSUME NEW u \in Unit, NEW k \in JobKind, NEW m \in JobMode, Exec(u, k, m)
      PROVE  WaitInv'
  BY <1>0, <1>1, WaitExecSet DEF Exec, WaitInv
<1>2. ASSUME NEW u \in Unit, NEW ns \in ActiveState, NEW r \in BOOLEAN, TryFinish(u, ns, r)
      PROVE  WaitInv'
  BY <1>0, <1>2, WaitDoTryFinish DEF TryFinish, WaitInv
<1>3. ASSUME NEW u \in Unit, NEW k \in JobKind, Remove(u, k)
      PROVE  WaitInv'
  BY <1>0, <1>3, WaitDoRemove DEF Remove, WaitInv
<1>4. ASSUME NEW u \in Unit, RemoveUnit(u)
      PROVE  WaitInv'
  <2>. DEFINE s1 == RemoveSuspends(jm, {<<u, k>> : k \in jm.suspends[u]})
              s2 == [s1 EXCEPT !.trigger[u] = NoJob, !.pause[u] = FALSE,
                               !.run = s1.run - (IF jm.trigger[u] = NoJob THEN 1 ELSE 0)]
  <2>1. s1 \in TableType /\ WaitEq(s1)
    <3>1. {<<u, k>> : k \in jm.suspends[u]} \in SUBSET Suspended(jm)
      BY DEF Suspended, Job, TableType
    <3>2. WaitEq(jm) BY <1>4 DEF RemoveUnit, WaitInv
    <3>. QED BY <3>1, <3>2, SuspendedType, RemoveSuspendsType, WaitRemove
  <2>2. s2.suspends = s1.suspends /\ s2.wait = s1.wait BY <2>1 DEF TableType
  <2>3. WaitEq(s2) BY <2>1, <2>2, WaitEqSame
  <2>. QED BY <1>0, <1>4, <2>3 DEF RemoveUnit, WaitInv
<1>5. CASE Dispatch BY <1>0, <1>5 DEF Dispatch, WaitInv
<1>6. ASSUME NEW x \in Unit, NEW k \in JobKind, RunTrigger(x, k)
      PROVE  WaitInv'
  <2>1. k \in jm.suspends[x] /\ pc = "loop" BY <1>6 DEF RunTrigger, Runnable
  <2>2. Suspended(jm') = Suspended(jm) \ {<<x, k>>}
    BY <1>6 DEF RunTrigger, Suspended, Job, TableType
  <2>3. <<x, k>> \in Suspended(jm) BY <2>1 DEF Suspended, Job
  <2>4. Cardinality(Suspended(jm')) = Cardinality(Suspended(jm)) - 1
    <3>1. IsFiniteSet(Suspended(jm)) BY SuspendedType
    <3>2. Cardinality(Suspended(jm) \ {<<x, k>>}) = Cardinality(Suspended(jm)) - 1
      BY <2>3, <3>1, FS_RemoveElement
    <3>. QED BY <2>2, <3>2
  <2>5. jm'.wait = jm.wait BY <1>6 DEF RunTrigger, TableType
  <2>6. Cardinality(Suspended(jm)) \in Nat BY SuspendedType
  <2>. QED BY <1>0, <1>6, <2>1, <2>4, <2>5, <2>6 DEF RunTrigger, WaitInv, WaitEq
<1>7. CASE RunIdle BY <1>0, <1>7 DEF RunIdle, WaitInv
<1>8. ASSUME NEW ns \in ActiveState, NEW r \in BOOLEAN, SyncFinish(ns, r)
      PROVE  WaitInv'
  BY <1>0, <1>8 DEF SyncFinish, WaitInv
<1>9. ASSUME NEW ns \in ActiveState, SyncFinishRejected(ns)
      PROVE  WaitInv'
  BY <1>0, <1>9 DEF SyncFinishRejected, WaitInv
<1>10. ASSUME NEW res \in {NoJob, "done", "failed", "pause"}, TriggerReturn(res)
       PROVE  WaitInv'
  <2>. DEFINE s0 == [jm EXCEPT !.pause[cur.unit] = (res = "pause"),
                               !.wait = @ - 1, !.run = @ + 1]
              s1 == IF text = <<>> THEN s0
                    ELSE DoTryFinish(s0, live, text[1].unit, text[1].os, text[1].ns, text[1].restart)
  <2>0. pc = "trig" BY <1>10 DEF TriggerReturn
  <2>1. s0 \in TableType /\ WaitEq(s0)
    <3>1. (res = "pause") \in BOOLEAN /\ jm.wait - 1 \in Int /\ jm.run + 1 \in Int
      BY DEF WaitInv, TableType
    <3>2. s0 \in TableType BY <3>1, TableSetPause DEF WaitInv
    <3>3. s0.suspends = jm.suspends /\ s0.wait = jm.wait - 1 BY DEF WaitInv, TableType
    <3>4. Cardinality(Suspended(jm)) \in Nat BY SuspendedType DEF WaitInv
    <3>5. WaitEq(s0) BY <2>0, <3>3, <3>4 DEF WaitInv, WaitEq, Suspended
    <3>. QED BY <3>2, <3>5
  <2>2. text # <<>> => text[1] \in TextType BY DEF WaitInv
  <2>3. s1 \in TableType /\ WaitEq(s1)
    BY <2>1, <2>2, DoTryFinishType, WaitDoTryFinish DEF TextType, WaitInv
  <2>4. WaitEq(jm') BY <1>10, <2>3, WaitDoRemove DEF TriggerReturn, WaitInv
  <2>. QED BY <1>0, <1>10, <2>4 DEF TriggerReturn, WaitInv
<1>11. CASE UNCHANGED vars BY <1>0, <1>11 DEF vars, WaitInv, WaitEq, Suspended
<1>. QED BY <1>1, <1>2, <1>3, <1>4, <1>5, <1>6, <1>7, <1>8, <1>9, <1>10, <1>11 DEF Next

\* JobStat's wait counter equals the number of queued jobs whenever run()
\* is not inside try_trigger, for every unit database: exec's commit,
\* del_trigger and del_suspends with their fallback, remove_unit and the
\* transactions started from try_finish all keep the two in step.
THEOREM StatWaitCorrect == Spec => []StatWaitConsistent
<1>1. WaitInv => StatWaitConsistent BY DEF WaitInv, WaitEq, StatWaitConsistent
<1>. QED BY <1>1, WaitInvInit, WaitInvNext, PTL DEF Spec

=============================================================================
