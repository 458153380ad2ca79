------------------------------ MODULE JobEngine ------------------------------
(***************************************************************************)
(* The job engine of the service manager: JobManager and JobManagerData   *)
(* of src/process1/src/manager/unit/job/job_manager.rs.                    *)
(*                                                                         *)
(* The engine owns the job table (one triggered job and a set of queued,   *)
(* "suspended", jobs per unit), the wait/run statistics, the `running`     *)
(* guard and the one-slot buffer `text` for a finish reported             *)
(* synchronously while a job is being triggered.  It is driven by the      *)
(* event loop as a deferred one-shot source (`armed`) and by the unit      *)
(* runtime, which reports every state change of a unit through            *)
(* try_finish.  The run loop is split at the one place where other code    *)
(* runs inside it: the unit's start/stop hook called by try_trigger, which *)
(* may call back into try_finish.                                          *)
(*                                                                         *)
(* The job table, the transaction builder and the notification mapper     *)
(* (job_table.rs, job_transaction.rs, job_notify.rs, job_entry.rs) are     *)
(* not part of the sources at hand; their operators below are modelled    *)
(* from the specification of the repository.                               *)
(***************************************************************************)
EXTENDS Naturals, Integers, FiniteSets, Sequences

CONSTANTS
  Unit,              \* the units of the unit database
  Requires,          \* Requires[u]: the units u requires
  OnFailureUnits,    \* OnFailureUnits[u]: targets of u's OnFailure= relation
  OnSuccessUnits,    \* OnSuccessUnits[u]: targets of u's OnSuccess= relation
  OnFailureJobMode,  \* OnFailureJobMode[u] of u's [Unit] section
  AllowIsolate       \* AllowIsolate[u] of u's [Unit] section

JobKind    == {"start", "stop", "nop"}
JobMode    == {"replace", "fail", "isolate", "trigger"}
JobResult  == {"done", "cancelled", "failed"}
ActiveState == {"inactive", "activating", "active", "deactivating", "failed"}
NoJob      == "none"

\* The state changes the unit runtime reports (unit lifecycle), and the
\* ones a unit reports from inside its start or stop hook.
UnitStep ==
  {<<"inactive", "activating">>, <<"inactive", "active">>,
   <<"activating", "active">>, <<"activating", "failed">>,
   <<"active", "deactivating">>, <<"active", "failed">>, <<"active", "inactive">>,
   <<"deactivating", "inactive">>, <<"deactivating", "failed">>,
   <<"failed", "inactive">>, <<"failed", "activating">>}
HookStates(k) == CASE k = "start" -> {"activating", "active", "failed"}
                   [] k = "stop"  -> {"deactivating", "inactive", "failed"}
                   [] OTHER       -> {}
\* UNIT_NOTIFY_WILL_AUTO_RESTART accompanies a change to failed or inactive.
RestartFlags(ns) == IF ns \in {"failed", "inactive"} THEN BOOLEAN ELSE {FALSE}

ASSUME UnitAssumption == IsFiniteSet(Unit) /\ Unit # {}
ASSUME RelationAssumption ==
  /\ Requires \in [Unit -> SUBSET Unit]
  /\ OnFailureUnits \in [Unit -> SUBSET Unit]
  /\ OnSuccessUnits \in [Unit -> SUBSET Unit]
  /\ OnFailureJobMode \in [Unit -> {"replace", "fail"}]
  /\ AllowIsolate \in [Unit -> BOOLEAN]

VARIABLES
  live,     \* units present in the unit database
  ustate,   \* the active state of each unit (unit runtime)
  jm,       \* job table and statistics of JobManagerData
  running,  \* JobManagerData.running
  text,     \* JobManagerData.text: <<>> or <<[unit, os, ns, restart]>>
  pc,       \* "idle", "loop" (head of run()'s loop), "trig" (in try_trigger)
  cur,      \* the job try_trigger has triggered in this iteration
  armed     \* the deferred source is enabled (EventState::OneShot)

vars == <<live, ustate, jm, running, text, pc, cur, armed>>

(***************************************************************************)
(* A job is a pair <<unit, kind>>.  The table keeps per unit the kind of  *)
(* its trigger (or NoJob), whether the trigger is paused, and the kinds   *)
(* of its suspended jobs; wait and run are the JobStat counters.           *)
(***************************************************************************)
Job == Unit \X JobKind
TableType == [trigger: [Unit -> JobKind \cup {NoJob}],
              pause: [Unit -> BOOLEAN],
              suspends: [Unit -> SUBSET JobKind],
              wait: Int, run: Int]
TextType == [unit: Unit, os: ActiveState, ns: ActiveState, restart: BOOLEAN]

HasJob(s, x, k) == s.trigger[x] = k \/ k \in s.suspends[x]
KindsOf(P, x) == {p[2] : p \in {q \in P : q[1] = x}}
Opposed(k1, k2) == {k1, k2} = {"start", "stop"}

RequiredBy(u) == {x \in Unit : u \in Requires[x]}
\* The least set containing u and closed under Requires (resp. RequiredBy).
StartClosure(u) ==
  {x \in Unit : \A S \in SUBSET Unit :
                  (u \in S /\ \A y \in S : Requires[y] \subseteq S) => x \in S}
StopClosure(u) ==
  {x \in Unit : \A S \in SUBSET Unit :
                  (u \in S /\ \A y \in S : RequiredBy(y) \subseteq S) => x \in S}

-----------------------------------------------------------------------------
(* Job table and transaction builder (modelled from the specification).    *)

\* job_trans_expand + job_trans_affect: the jobs one request stages.
Staged(u, k, m, lv) ==
  LET main == CASE k = "start" -> {<<x, "start">> : x \in StartClosure(u) \cap lv}
                [] k = "stop"  -> {<<x, "stop">> : x \in StopClosure(u) \cap lv}
                [] OTHER       -> {<<u, k>>}
      iso  == IF m = "isolate"
                THEN {<<x, "stop">> : x \in lv \ StartClosure(u)} ELSE {}
  IN  main \cup iso

\* Jobs of the table that a staged set is incompatible with.
Conflicts(s, st) ==
  {p \in Job : HasJob(s, p[1], p[2]) /\
               \E q \in st : q[1] = p[1] /\ Opposed(q[2], p[2])}

\* job_trans_verify: under Fail a conflict rejects the request.
Verified(s, st, m) == m # "fail" \/ Conflicts(s, st) = {}

RemoveSuspends(s, P) ==
  [s EXCEPT !.suspends = [x \in Unit |-> s.suspends[x] \ KindsOf(P, x)],
            !.wait = s.wait - Cardinality(P)]

\* JobTable::commit followed by the statistics of exec: conflicting
\* suspended jobs are replaced, jobs already present are merged.
Commit(s, st) ==
  LET dels == {p \in Conflicts(s, st) : p[2] \in s.suspends[p[1]]}
      adds == {q \in st : ~HasJob(s, q[1], q[2])}
  IN  [s EXCEPT
         !.suspends = [x \in Unit |-> (s.suspends[x] \ KindsOf(dels, x))
                                        \cup KindsOf(adds, x)],
         !.wait = s.wait - Cardinality(dels) + Cardinality(adds)]

\* exec of one request per target still in the database, all of kind k in
\* mode m, one after the
\* other.  For k in {start, stop} and m # isolate no commit adds a job that
\* a later one conflicts with, so the sequence equals this union.
ExecSet(s, lv, T, k, m) ==
  LET ok == {t \in T \cap lv : Verified(s, Staged(t, k, m, lv), m)}
  IN  Commit(s, UNION {Staged(t, k, m, lv) : t \in ok})

\* job_trans_fallback: queued starts of the units requiring a failed start.
Fallback(s, u, k) ==
  IF k = "start"
    THEN {<<x, "start">> : x \in {y \in RequiredBy(u) \ {u} : "start" \in s.suspends[y]}}
    ELSE {}

\* JobTable::try_trigger: a job may run once the unit has no trigger and
\* no job it is ordered after is pending.
Runnable(s, x, k) ==
  /\ k \in s.suspends[x]
  /\ s.trigger[x] = NoJob
  /\ k = "start" => \A y \in Requires[x] \ {x} : ~HasJob(s, y, "start")
  /\ k = "stop"  => \A y \in RequiredBy(x) \ {x} : ~HasJob(s, y, "stop")

\* job_entry::job_process_unit: the result a state change implies for a
\* trigger of kind k, and whether the change is the trigger's own doing.
JobProcessUnit(k, ns, restart) ==
  [res |-> CASE k = "start" /\ ns = "active" -> "done"
             [] k = "start" /\ ns \in {"inactive", "failed", "deactivating"}
                            /\ ~restart -> "failed"
             [] k = "stop" /\ ns \in {"inactive", "failed"} -> "done"
             [] k = "stop" /\ ns \in {"active", "activating"} -> "failed"
             [] OTHER -> NoJob,
   gen |-> \/ k = "start" /\ ns \in {"activating", "active"}
           \/ k = "stop" /\ ns \in {"deactivating", "inactive"}]

\* JobTable::is_ready: some job is queued.
IsJobsReady(s) == \E x \in Unit : s.suspends[x] # {}

-----------------------------------------------------------------------------
(* JobManagerData (job_manager.rs).                                        *)

\* job_trans_check_input
JobTransCheckInput(u, k, m) ==
  /\ m = "isolate" => k = "start" /\ AllowIsolate[u]
  /\ m = "trigger" => k = "stop"

\* exec_on: job_notify_result turns the relation's targets into start jobs.
ExecOn(s, lv, T) == ExecSet(s, lv, T, "start", "fail")

\* do_notify: job_notify_event retro-starts the requirements of a unit
\* that started, and stops (mode Trigger) the units requiring one that stopped.
DoNotify(s, lv, u, k) ==
  IF k = "start" THEN ExecSet(s, lv, Requires[u], "start", "replace")
                 ELSE ExecSet(s, lv, RequiredBy(u), "stop", "trigger")

\* Variant of DelTrigger whose fallback removals are left out of JobStat.
DelTriggerUncounted(s, u, res) ==
  LET s1 == [s EXCEPT !.trigger[u] = NoJob, !.pause[u] = FALSE, !.run = s.run - 1]
      fb == Fallback(s1, u, s.trigger[u])
  IN  IF res = "done" THEN s1
      ELSE [s1 EXCEPT !.suspends = [x \in Unit |-> s1.suspends[x] \ KindsOf(fb, x)]]

\* del_trigger
DelTrigger(s, u, res) ==
  LET s1 == [s EXCEPT !.trigger[u] = NoJob, !.pause[u] = FALSE, !.run = s.run - 1]
  IN  IF res = "done" THEN s1 ELSE RemoveSuspends(s1, Fallback(s1, u, s.trigger[u]))

\* del_suspends
DelSuspends(s, u, k, res) ==
  LET s1 == RemoveSuspends(s, IF k \in s.suspends[u] THEN {<<u, k>>} ELSE {})
  IN  IF res = "done" THEN s1 ELSE RemoveSuspends(s1, Fallback(s1, u, k))

\* simulate_unit_notify (the TriggeredBy hook belongs to the unit runtime)
SimulateUnitNotify(s, lv, u, res, force) ==
  IF ~force /\ res # "done" /\ OnFailureJobMode[u] = "fail"
    THEN ExecOn(s, lv, OnFailureUnits[u]) ELSE s

\* do_remove: isTrig is jobs.is_trigger(job_info.id)
DoRemove(s, lv, u, k, isTrig, res, force) ==
  SimulateUnitNotify(IF isTrig THEN DelTrigger(s, u, res) ELSE DelSuspends(s, u, k, res),
                     lv, u, res, force)

\* simulate_job_notify
SimulateJobNotify(s, lv, u, os, ns) ==
  CASE os \in {"inactive", "failed"} /\ ns \in {"active", "activating"} ->
         DoNotify(s, lv, u, "start")
    [] os \in {"active", "activating"} /\ ns \in {"inactive", "deactivating"} ->
         DoNotify(s, lv, u, "stop")
    [] OTHER -> s

\* unit_start_on (OnSuccess= is gated by OnFailureJobMode, as in the code)
UnitStartOn(s, lv, u, os, ns, restart) ==
  LET s1 == IF ns # os /\ ~restart /\ ns = "failed" /\ OnFailureJobMode[u] = "fail"
              THEN ExecOn(s, lv, OnFailureUnits[u]) ELSE s
  IN  IF /\ ns = "inactive" /\ ~restart
         /\ os \notin {"failed", "inactive"} /\ OnFailureJobMode[u] = "fail"
        THEN ExecOn(s1, lv, OnSuccessUnits[u]) ELSE s1

\* do_try_finish
DoTryFinish(s, lv, u, os, ns, restart) ==
  LET r   == JobProcessUnit(s.trigger[u], ns, restart)
      s1  == CASE s.trigger[u] # NoJob /\ s.pause[u] -> [s EXCEPT !.pause[u] = FALSE]
               [] s.trigger[u] # NoJob /\ r.res # NoJob -> DelTrigger(s, u, r.res)
               [] OTHER -> s
      gen == s.trigger[u] # NoJob /\ (s.pause[u] \/ r.gen)
      s2  == IF gen THEN s1 ELSE SimulateJobNotify(s1, lv, u, os, ns)
  IN  UnitStartOn(s2, lv, u, os, ns, restart)

\* JobManager::try_enable after a successful facade call
TryEnable(s) == armed' = (armed \/ IsJobsReady(s))

-----------------------------------------------------------------------------
(* Actions.                                                                *)

Init ==
  /\ live = Unit
  /\ ustate = [u \in Unit |-> "inactive"]
  /\ jm = [trigger |-> [u \in Unit |-> NoJob], pause |-> [u \in Unit |-> FALSE],
           suspends |-> [u \in Unit |-> {}], wait |-> 0, run |-> 0]
  /\ running = FALSE
  /\ text = <<>>
  /\ pc = "idle"
  /\ cur = [unit |-> CHOOSE u \in Unit : TRUE, kind |-> "nop"]
  /\ armed = FALSE

\* JobManager::exec that succeeds (a rejected request changes nothing).
Exec(u, k, m) ==
  /\ pc = "idle" /\ u \in live
  /\ JobTransCheckInput(u, k, m)
  /\ Verified(jm, Staged(u, k, m, live), m)
  /\ jm' = ExecSet(jm, live, {u}, k, m)
  /\ TryEnable(jm')
  /\ UNCHANGED <<live, ustate, running, text, pc, cur>>

\* JobManager::try_finish while idle: a unit reports a state change.
TryFinish(u, ns, restart) ==
  /\ pc = "idle" /\ u \in live
  /\ <<ustate[u], ns>> \in UnitStep /\ restart \in RestartFlags(ns)
  /\ ustate' = [ustate EXCEPT ![u] = ns]
  /\ jm' = DoTryFinish(jm, live, u, ustate[u], ns, restart)
  /\ TryEnable(jm')
  /\ UNCHANGED <<live, running, text, pc, cur>>

\* JobManager::remove of a suspended job (the other cases are errors).
Remove(u, k) ==
  /\ pc = "idle" /\ k \in jm.suspends[u]
  /\ jm' = DoRemove(jm, live, u, k, FALSE, "cancelled", TRUE)
  /\ TryEnable(jm')
  /\ UNCHANGED <<live, ustate, running, text, pc, cur>>

\* TableSubscribe::notify(TableRemove) -> remove_unit.  The run counter is
\* decremented when the unit had NO trigger, as the code does.
RemoveUnit(u) ==
  /\ pc = "idle" /\ u \in live
  /\ live' = live \ {u}
  /\ jm' = LET s1 == RemoveSuspends(jm, {<<u, k>> : k \in jm.suspends[u]})
           IN  [s1 EXCEPT !.trigger[u] = NoJob, !.pause[u] = FALSE,
                          !.run = s1.run - (IF jm.trigger[u] = NoJob THEN 1 ELSE 0)]
  /\ UNCHANGED <<ustate, running, text, pc, cur, armed>>

\* Source::dispatch of the one-shot deferred source: run() starts.
Dispatch ==
  /\ pc = "idle" /\ armed
  /\ armed' = FALSE
  /\ pc' = "loop"
  /\ UNCHANGED <<live, ustate, jm, running, text, cur>>

\* run(), loop head: try_trigger triggers job <<x, k>> and calls the unit.
RunTrigger(x, k) ==
  /\ pc = "loop"
  /\ Runnable(jm, x, k)
  /\ jm' = [jm EXCEPT !.trigger[x] = k, !.suspends[x] = @ \ {k}]
  /\ text' = <<>>
  /\ running' = TRUE
  /\ cur' = [unit |-> x, kind |-> k]
  /\ pc' = "trig"
  /\ UNCHANGED <<live, ustate, armed>>

\* run(), loop head: nothing is runnable, the loop ends.
RunIdle ==
  /\ pc = "loop"
  /\ ~\E x \in Unit, k \in JobKind : Runnable(jm, x, k)
  /\ text' = <<>>
  /\ pc' = "idle"
  /\ UNCHANGED <<live, ustate, jm, running, cur, armed>>

\* try_finish called by the unit from inside try_trigger (running = TRUE):
\* the finish is buffered in text, then JobManager::try_enable runs.
SyncFinish(ns, restart) ==
  /\ pc = "trig" /\ text = <<>>
  /\ <<ustate[cur.unit], ns>> \in UnitStep /\ ns \in HookStates(cur.kind)
  /\ restart \in RestartFlags(ns)
  /\ ustate' = [ustate EXCEPT ![cur.unit] = ns]
  /\ text' = <<[unit |-> cur.unit, os |-> ustate[cur.unit], ns |-> ns, restart |-> restart]>>
  /\ TryEnable(jm)
  /\ UNCHANGED <<live, jm, running, pc, cur>>

\* Variant of SyncFinishRejected that queues the second finish behind the first.
SyncFinishQueued(ns) ==
  /\ pc = "trig" /\ text # <<>>
  /\ <<ustate[cur.unit], ns>> \in UnitStep /\ ns \in HookStates(cur.kind)
  /\ ustate' = [ustate EXCEPT ![cur.unit] = ns]
  /\ text' = text \o <<[unit |-> cur.unit, os |-> ustate[cur.unit], ns |-> ns, restart |-> FALSE]>>
  /\ UNCHANGED <<live, jm, running, pc, cur, armed>>

\* A second synchronous finish: try_finish returns JobErrInput.
SyncFinishRejected(ns) ==
  /\ pc = "trig" /\ text # <<>>
  /\ <<ustate[cur.unit], ns>> \in UnitStep /\ ns \in HookStates(cur.kind)
  /\ ustate' = [ustate EXCEPT ![cur.unit] = ns]
  /\ UNCHANGED <<live, jm, running, text, pc, cur, armed>>

\* What try_trigger reports about the job it triggered.
TriggerOutcome(k) == IF k = "nop" THEN {"done"} ELSE {NoJob, "done", "failed", "pause"}

\* run(), rest of the loop body once try_trigger returns: statistics,
\* case 1 (the buffered synchronous finish), case 2 (the trigger's result).
TriggerReturn(res) ==
  /\ pc = "trig"
  /\ res \in TriggerOutcome(cur.kind)
  /\ running' = FALSE
  /\ LET s0 == [jm EXCEPT !.pause[cur.unit] = (res = "pause"),
                          !.wait = @ - 1, !.run = @ + 1]
         s1 == IF text = <<>> THEN s0
               ELSE DoTryFinish(s0, live, text[1].unit, text[1].os, text[1].ns, text[1].restart)
     IN  jm' = IF res \in {"done", "failed"}
                 THEN DoRemove(s1, live, cur.unit, cur.kind,
                               s1.trigger[cur.unit] # NoJob, res, FALSE)
                 ELSE s1
  /\ text' = <<>>
  /\ pc' = "loop"
  /\ UNCHANGED <<live, ustate, cur, armed>>

Next ==
  \/ \E u \in Unit, k \in JobKind, m \in JobMode : Exec(u, k, m)
  \/ \E u \in Unit, ns \in ActiveState, r \in BOOLEAN : TryFinish(u, ns, r)
  \/ \E u \in Unit, k \in JobKind : Remove(u, k)
  \/ \E u \in Unit : RemoveUnit(u)
  \/ Dispatch
  \/ \E x \in Unit, k \in JobKind : RunTrigger(x, k)
  \/ RunIdle
  \/ \E ns \in ActiveState, r \in BOOLEAN : SyncFinish(ns, r)
  \/ \E ns \in ActiveState : SyncFinishRejected(ns)
  \/ \E res \in {NoJob, "done", "failed", "pause"} : TriggerReturn(res)

\* The event loop dispatches an enabled source, and run() is synchronous
\* code: these steps are weakly fair.  The unit runtime and the callers of
\* the facade are not.
Fairness ==
  /\ WF_vars(Dispatch)
  /\ WF_vars(\E x \in Unit, k \in JobKind : RunTrigger(x, k))
  /\ WF_vars(RunIdle)
  /\ WF_vars(\E res \in {NoJob, "done", "failed", "pause"} : TriggerReturn(res))

Spec == Init /\ [][Next]_vars /\ Fairness

-----------------------------------------------------------------------------
(* Properties.                                                             *)

TypeOK ==
  /\ live \subseteq Unit
  /\ ustate \in [Unit -> ActiveState]
  /\ jm \in TableType
  /\ running \in BOOLEAN
  /\ text \in {<<>>} \cup {<<t>> : t \in TextType}
  /\ pc \in {"idle", "loop", "trig"}
  /\ cur \in [unit: Unit, kind: JobKind]
  /\ armed \in BOOLEAN

Suspended(s) == {p \in Job : p[2] \in s.suspends[p[1]]}
Triggered(s) == {x \in Unit : s.trigger[x] # NoJob}

\* JobStat: outside try_trigger the wait counter equals the number of
\* queued jobs, across exec/commit, triggering, finishing with fallback,
\* cancellation and unit removal.
StatWaitConsistent == pc # "trig" => jm.wait = Cardinality(Suspended(jm))

\* JobStat: outside try_trigger the run counter equals the number of
\* triggered jobs (spec 8: wait + run is the size of the job table).
StatRunConsistent == pc # "trig" => jm.run = Cardinality(Triggered(jm))

\* The engine never sits idle and disarmed while a queued job could run:
\* whatever unblocks a job also enables the deferred source.
NoStrandedJobs ==
  pc = "idle" /\ ~armed => ~\E x \in Unit, k \in JobKind : Runnable(jm, x, k)

\* Every dispatch of run() returns to the event loop.
RunLoopTerminates == pc # "idle" ~> pc = "idle"

=============================================================================
