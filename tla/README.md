# TLA+ models of process1

This directory holds TLA+ models of the init-style service manager in
`src/`. TLC model-checks them on small instances. For every instance,
TLAPS proves:
- the job engine's type correctness and its wait counter;
- the process utilities' type correctness and `NoFalseRemoval`;
- the socket ports' type correctness and `ListenSocketsCollected`.

## The system and its parts

| part | source | model |
|---|---|---|
| Job engine: `JobManager` facade and `JobManagerData` (job table, `JobStat` counters, run loop, finish handling) | `src/process1/src/manager/unit/job/job_manager.rs` | `JobEngine` (partly) |
| Job table, transaction builder, notification mapper (`job_table.rs`, `job_transaction.rs`, `job_notify.rs`, `job_entry.rs`) | not in the tree | `JobEngine`, from `spec.md` |
| Unit runtime (the caller of `try_finish`, the start/stop hooks) | not in the tree | environment of `JobEngine` |
| Socket ports: `SocketPorts`, `SocketPort`, `SocketAddress` | `src/components/socket/src/socket_port.rs` | `SocketPort` |
| Socket configuration and spawning | `socket_config.rs`, `socket_spawn.rs` | not modelled |
| Process utilities (`kill_all_pids`, `wait_pids`, `alive`) | `src/libutils/src/process_util.rs` | `ProcessUtil` |
| fstab parsing, `main`, macros, an inotify test | `src/src/fstab/fstab_item.rs`, `process1.rs`, `macros.rs`, `libevent/tests/inotify.rs` | not modelled |

The parts interact as follows:
- Callers submit jobs through `JobManager::exec`. A transaction expands
  the request along the dependency relations and commits the new jobs to
  the job table as "suspended" (queued).
- `try_enable` arms a one-shot deferred event source. When the event
  loop dispatches it, `run()` loops:
  - `try_trigger` picks a runnable job, makes it the unit's "trigger" and
    calls the unit's start/stop hook;
  - the unit reports state changes through `try_finish`, either from
    inside the hook (buffered in `text`) or later from the event loop;
  - a finish deletes the trigger, removes queued jobs that depended on a
    failed one (the fallback), and may start OnFailure=/OnSuccess=
    targets or retroactive jobs.
- Removing a unit from the unit database cancels its jobs through the
  table's subscription (`remove_unit`).
- A socket unit owns a list of ports:
  - `open_port` creates and binds a listening socket;
  - the port is an event source whose `dispatch` accepts a connection
    (Accept mode) and starts the service through `SocketMng::enter_runing`;
  - `flush_accept`, `flush_fd` and `close` tear the port down.

## Modules

### `JobEngine.tla`: job_manager.rs

**State**

| variable | what it models |
|---|---|
| `jm` | The job table and `JobStat`: per unit, the kind of its trigger (or none), its `pause` flag and the set of kinds it has queued, plus the `wait` and `run` counters. |
| `running` | `JobManagerData.running`. |
| `text` | The one-slot synchronous-finish buffer. |
| `pc` | Where `run()` is: `idle`, `loop` (its loop head), or `trig` (inside `try_trigger`, where the unit's hook runs). |
| `cur` | The job triggered in this iteration of the loop. |
| `armed` | The deferred source is enabled. |
| `live`, `ustate` | The unit database and the units' active states (environment). |

**Actions**

| action | code |
|---|---|
| `Exec` | `exec` (lines 218–250) and the facade's `try_enable`. |
| `TryFinish` | Asynchronous `try_finish` followed by `do_try_finish`. |
| `SyncFinish`, `SyncFinishRejected` | `try_finish` while `running` is set: the first call is buffered, a second is rejected with JobErrInput. |
| `Remove` | `remove` of a queued job. |
| `RemoveUnit` | The `TableRemove` subscription calling `remove_unit`. |
| `Dispatch` | The event loop dispatching the armed source. |
| `RunTrigger`, `RunIdle`, `TriggerReturn` | `run()`: `RunTrigger` is `try_trigger` picking a job; `RunIdle` is the loop's exit; `TriggerReturn` is the rest of the loop body (statistics, case 1, case 2). |

Every finish path is an operator applied inside these actions:
`do_try_finish`, `do_remove`, `del_trigger`, `del_suspends`,
`simulate_job_notify`, `simulate_unit_notify`, `unit_start_on`, `exec_on`
and `do_notify`. None of them is a separate step the model may skip.

**Abstractions**
- A job is a pair (unit, kind) with kinds start, stop and nop. Job ids,
  restart/reload/verify jobs, the `stage` table (cleared before and after
  each exec), JobAffect and the `update_change` counters are left out.
- The secondary transactions (OnFailure=, OnSuccess=, retroactive
  start/stop) are applied as one commit of the union of their jobs
  (`ExecSet`). For start and stop requests in the modes these callers
  use, no job one of them adds conflicts with another's, so the union
  equals the code's sequence of `exec` calls.
- `try_trigger` may pick any runnable job. This over-approximates the
  table's insertion order.
- What `try_trigger` reports for the job it triggered (nothing, done,
  failed, paused) comes from `job_entry.rs`, which is not in the tree.
  The model lets it be any of these, whatever the hook reported through
  `try_finish`. So no property speaks about case 1 and case 2 of
  `run()` both finishing the job (line 281); the counters count only
  what is actually removed and cannot show it.

### `SocketPort.tla`: socket_port.rs

**State**
- `pfd`: each port's descriptor.
- `obj`: the process's descriptor table, mapping each number to the
  object it names: free, a socket of a port, a listening socket, a
  connection accepted by `dispatch` or by `flush_accept`, or a descriptor
  of other code.
- `pending`: connections or datagrams queued on a socket.
- `path`: whether the unix socket file exists.
- `mng`: `SocketMng`'s state.
- `runfd`: what `dispatch` passed to `enter_runing`.

The kernel hands out the lowest free number, which is what makes a
stale number dangerous.

**Actions**
- `OpenPort`, with `SocketListen`: every error exit of `socket_listen`,
  including bind failing on a leftover socket file.
- `Close`, with `Unlink`.
- `FlushAccept`, `FlushFd` and `Dispatch` (with `AcceptOn`).
- Environment steps: clients connect or send, the service consumes and
  exits, and other code opens and closes descriptors.

### `ProcessUtil.tla`: process_util.rs

Nothing in the tree calls these functions yet. They are the shutdown
sequence of an init: signal everything in `/proc`, then wait for it to go.

**State**
- `proc`: the kernel's process table; each pid is free, running or a
  zombie.
- `child`: whether the process at a pid is the manager's child.
- `gen`: how many processes have held each pid.
- `target`: `gen` as it was when `kill_all_pids` signalled the pid. A pid
  whose `gen` has moved on has been reused.
- `pids`, `waited`: the waiting set, and the set `wait_pids` was called
  with (a history variable).
- `pc`: the caller's round (`idle`, `killed`, `done`) and the step of
  `wait_pids` (`reap`, `probe`, `sleep`, `check`).
- `now`, `until`, `rounds`: the clock and the deadline, both in
  microseconds as in the code, and the rounds the caller has started.
- `slept`: the sleeps of the current `wait_pids` call (a history
  variable).
- `stepped`: whether the wall clock has been set back.

**Actions**

| action | code |
|---|---|
| `KillAllPids` | `kill_all_pids` (lines 77–103) |
| `WaitPidsStart` | the deadline and `pids.remove(&1)` (105–110) |
| `Reap` | the `waitpid(-1, WNOHANG)` loop (112–125), as one step |
| `Probe` | the `kill(pid, 0)` pass (126–140), as one step |
| `Sleep` | the one-second sleep, the only step that advances the clock |
| `Check` | the empty-set and deadline tests (143–152) |

- The processes are an environment: a process exits (`Die`), is reaped
  by another parent (`ParentReap`), is re-parented to pid 1 (`Reparent`),
  or a new process takes a free pid (`Spawn`).
- `ClockStepBack`: the wall clock, which `SystemTime::now()` reads, is
  set back by whole seconds, once per behaviour. Steps smaller than the
  one-second sleep add nothing new. One step is enough to break the
  timeout, and it keeps the state space finite.
- `Alive` models `alive` together with `process_state`. The code takes
  field 3 of the stat line, which is the parent pid, so a zombie counts
  as alive (line 34). No run checks this: the error shows in any single
  state with a zombie, so a unit test reaches it as easily. The runs are
  kept for what needs interleavings.

## Runs

| run | cfg | expect | shows |
|---|---|---|---|
| `jobengine` | `MC_JobEngine.cfg` | pass | `TypeOK`, `StatWaitConsistent` (JobStat's wait equals the queued jobs outside `try_trigger`). |
| `jobengine_stat` | `MC_JobEngine_stat.cfg` | violation | `remove_unit` (line 364) decrements `run` when the unit had *no* trigger. |
| `jobengine_loop` | `MC_JobEngine_loop.cfg` | violation | With OnFailure= pointing back at a unit that requires the failing one, `run()` never returns to the event loop. |
| `jobengine_stranded` | `MC_JobEngine_stranded.cfg` | violation | `remove_unit` unblocks a queued job but never calls `try_enable` (line 173). |
| `socket` | `MC_SocketPort.cfg` | pass | `TypeOK`, `ListenSocketsCollected` (every listening socket is among `collect_fds`). |
| `process` | `MC_ProcessUtil.cfg` | pass | `TypeOK`; `NoFalseRemoval` (a pid leaves the waiting set only once its signalled process is gone); `WaitPidsReturns` (`wait_pids` always returns, even when the wall clock is set back once). |
| `process_returned` | `MC_ProcessUtil_returned.cfg` | violation | `wait_pids` returns zombies of other parents, and pids a new process has taken, as "not killed yet" (line 131). |
| `process_clock` | `MC_ProcessUtil_clock.cfg` | violation | `WaitBounded`: after the wall clock is set back, `wait_pids` sleeps past its timeout, because the deadline (line 106) and the test (line 147) use `SystemTime`. Without the step, the same instance satisfies it. |
| `socket_stale` | `MC_SocketPort_stale.cfg` | violation | `flush_accept` closes the listening descriptor instead of the accepted one (line 344). |
| `socket_handoff` | `MC_SocketPort_handoff.cfg` | violation | The shadowed `afd` in `dispatch` (line 449) hands -1 to the service and leaks the connection. |
| `socket_leak` | `MC_SocketPort_leak.cfg` | violation | `socket_listen` returns on a bind error (line 184) without closing its socket. |

### Bounds

**JobEngine.** Two units: `u1` requires `u2`. OnFailure= of `u1` goes to
`u2`, OnSuccess= of `u2` to `u1`, both with OnFailureJobMode=fail, and
only `u1` allows isolate. This exercises everything in the model:
- closure over Requires and RequiredBy;
- conflicts between start and stop;
- ordering of a start after its requirement;
- the fallback;
- both relations fired from inside a finish.

The job table over two units and three kinds is finite, so no counter
needs a cap. Every unit state change is drawn from the lifecycle
`UnitStep`.

**SocketPort.** Three descriptor numbers, two ports and at most two
queued items per socket. These bounds suffice for:
- a port's number to be reused by a second port or by other code;
- the table to fill up with leaked sockets.

**ProcessUtil.** Pids 1..3 (1 is the manager), two processes per pid
(`MaxGen`), two rounds (a SIGTERM round, then a SIGKILL round) and a
two-second timeout. This is enough for:
- a pid to be reaped and reused within one wait;
- the deadline to cut off a process that never exits.

The clock is capped at `ClockBound = MaxRounds * (Timeout + Second)`. A
round that honours its deadline never gets there: its loop ends at most
`Timeout + Second` after it starts. So the cap cuts off only a
`wait_pids` that ignores its deadline, and such a run then ends
stuck at `sleep`.

### Fairness

`run()` and the event loop's dispatch are synchronous code of the
manager, so `Dispatch`, `RunTrigger`, `RunIdle` and `TriggerReturn` are
weakly fair. Units, callers and clients get no fairness.
The same reasoning applies to `ProcessUtil`: `wait_pids` is straight-line
code of the manager, so its steps are weakly fair, and the processes get
no fairness. `WaitPidsReturns` therefore holds even for processes that
never exit. The socket model states no liveness property.

### Deadlock

All three passing runs set `CHECK_DEADLOCK FALSE`, because the system
really can stop:
- once every unit has been removed, the job engine has nothing left to
  do;
- once leaked sockets hold every descriptor number, no port operation
  is possible;
- after the caller's last round, once every pid has used up its
  processes, nothing is left to happen.

## Proofs (`JobEngine_proofs.tla`)

Both theorems hold for every unit database satisfying `UnitAssumption`
(a finite, non-empty set of units) and `RelationAssumption` (the
relations map units to sets of units).

- **`TypeCorrect`**: `Spec => []TypeOK`.
  - One lemma per table operator (`RemoveSuspends`, `Commit`,
    `ExecSet`, `DelTrigger`, `DelSuspends`, `DoRemove`,
    `SimulateJobNotify`, `UnitStartOn`, `DoTryFinish`) shows that it
    returns a well-formed table.
  - Those lemmas rest on the finiteness of the job universe (`CardJobs`,
    from `FS_Product` and `FS_Subset`).
  - The inductive step has one case per action.
- **`StatWaitCorrect`**: `Spec => []StatWaitConsistent`.
  - `StatWaitConsistent` is not inductive: `try_trigger` takes a job off
    its queue before `run()` charges it to `wait`. The invariant is
    therefore strengthened to `WaitInv`, which says that inside
    `try_trigger` (`pc = "trig"`) `wait` is exactly one ahead of the
    queues, and equal to them elsewhere.
  - The per-operator lemmas `Wait*` show that every operator preserves
    `wait = Cardinality(Suspended)`:
    - `Commit` deletes a subset of the queued jobs (`dels`) and adds
      jobs disjoint from them (`adds`); `CardDiffUnion` does the
      counting.
    - The fallback and `del_suspends` remove only queued jobs.
    - Changes to trigger, pause and `run` leave the queues alone.

## Proofs (`SocketPort_proofs.tla`)

Both theorems hold for every set of ports and of descriptor numbers, and
every setting satisfying `SocketAssumption`.

- **`LowestIn`, `LowestFree`**: the kernel's lowest free number `Lowest`
  is a `CHOOSE` that only names a least element if one exists. Every
  non-empty set of naturals has one, by `WFMin` and
  `NatLessThanWellFounded` of `WellFoundedInduction`. These library
  theorems take sets, not operators, so the provers can use them. So
  `socket()`, `accept4` and other code's `open` take a free number of
  `Fd`.
- **`SocketTypeCorrect`**: `Spec => []TypeOK`. It has one case per action;
  `open_port` is split by the outcomes of `socket_listen`.
- **`ListenSocketsCollectedCorrect`**:
  `Spec => []ListenSocketsCollected`. The invariant is inductive together
  with `TypeOK` (`LInv`):
  - a listening socket is created only in the step that sets the port's
    `fd` to its number;
  - a port's `fd` changes only in `close`, which closes the object the
    number names;
  - every other step leaves the listening sockets and the ports' numbers
    alone.

  The proof shows this even though `flush_accept` closes a listening
  socket behind its port: that removes a listening socket, and it cannot
  orphan one.

## Proofs (`ProcessUtil_proofs.tla`)

These theorems hold for every pid set, timeout and bound satisfying
`ProcessAssumption`.

- **`ProcessTypeCorrect`**: `Spec => []TypeOK`. The inductive step has
  one case per action. The clock stays within `ClockBound` because of the
  guard on `Sleep`, and a step back keeps it at or above zero.
- **`NoFalseRemovalCorrect`**: `Spec => []NoFalseRemoval`.
  - The invariant alone is not inductive: `Spawn` brings a freed pid back
    to "run". It is strengthened to `PInv`, which adds `GenAhead`:
    `target[p] <= gen[p]`, since generations only grow.
  - `Reap` and `Probe` remove only pids whose process is gone.
  - `WaitPidsStart` resets `waited` to the waiting set.
  - A later `Spawn` raises `gen` above `target`.

Only model-checked (out of TLAPS's reach, or not yet proved):
- the liveness property `RunLoopTerminates`;
- `WaitPidsReturns` (liveness).

Liveness needs ENABLED and fairness reasoning, which the installed
provers do not do; TLC checks both properties on the instances.

## Plan

1. Restart and reload jobs, and the `notify` facade.
2. A second consumer of exit statuses (the child watcher) beside
   `wait_pids`' `waitpid(-1)`, once that code is in the tree.
