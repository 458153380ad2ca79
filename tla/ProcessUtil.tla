----------------------------- MODULE ProcessUtil -----------------------------
(***************************************************************************)
(* kill_all_pids and wait_pids of src/libutils/src/process_util.rs: the    *)
(* manager (pid 1) signals every process in /proc and then waits, with a   *)
(* deadline, until they are gone.                                          *)
(*                                                                         *)
(* The kernel's process table maps each pid to nothing, a running process  *)
(* or a zombie; `gen` counts the processes that have held a pid, so a pid  *)
(* reused by a new process is told apart from the one that was signalled   *)
(* (`target`).  Processes die, are reaped by their parent and pids are     *)
(* reused concurrently with the manager's loop.  The clock is in           *)
(* microseconds, as the deadline computed from `timeout`; only the         *)
(* one-second sleep lets time pass, but the clock is SystemTime, the wall  *)
(* clock, which may once be set back (ClockStepBack).                      *)
(***************************************************************************)
EXTENDS Integers, FiniteSets

CONSTANTS
  Pid,        \* the pids of the model; 1 is the manager itself
  Timeout,    \* the `timeout` argument of wait_pids, in microseconds
  MaxGen,     \* bound on the processes that may hold one pid
  MaxRounds   \* bound on kill_all_pids/wait_pids rounds of the caller

ASSUME ProcessAssumption ==
  /\ Pid \subseteq Nat \ {0} /\ 1 \in Pid /\ IsFiniteSet(Pid)
  /\ Timeout \in Nat /\ MaxGen \in Nat \ {0} /\ MaxRounds \in Nat \ {0}

Second == 1000000
ProcState == {"none", "run", "zombie"}

\* Bound on the clock.  A round's loop ends by its deadline, at most
\* Timeout + Second after it starts, so the bound is never reached when
\* every round honours its deadline.
ClockBound == MaxRounds * (Timeout + Second)

VARIABLES
  proc,    \* the process at each pid
  child,   \* the process at a pid is a child of the manager
  gen,     \* how many processes have held each pid
  target,  \* the generation of each pid when kill_all_pids signalled it
  pids,    \* kill_all_pids' result, then wait_pids' waiting set
  waited,  \* history: the set wait_pids was called with, pid 1 removed
  pc,      \* "idle", "killed", "reap", "probe", "sleep", "check", "done"
  now,     \* the clock
  until,   \* wait_pids' deadline
  rounds,  \* rounds started by the caller
  slept,   \* history: the one-second sleeps of the current wait_pids call
  stepped  \* the wall clock has been set back

vars == <<proc, child, gen, target, pids, waited, pc, now, until, rounds,
          slept, stepped>>

\* alive: pids 0 and 1 (the manager) are alive; a pid whose
\* /proc/<pid>/stat cannot be read is not.  process_state returns the first
\* character of field 3 of the stat line, which is the parent pid (the
\* state is field 2), so the test against 'Z' never holds and a zombie
\* counts as alive.
Alive(p) ==
  \/ p <= 1
  \/ proc[p] # "none"

Init ==
  /\ proc \in [Pid -> ProcState] /\ proc[1] = "run"
  /\ child \in [Pid -> BOOLEAN] /\ ~child[1]
  /\ gen = [p \in Pid |-> IF proc[p] = "none" THEN 0 ELSE 1]
  /\ target = gen
  /\ pids = {} /\ waited = {}
  /\ pc = "idle"
  /\ now = 0
  /\ until = 0
  /\ rounds = 0
  /\ slept = 0
  /\ stepped = FALSE

\* kill_all_pids: every pid directory of /proc is signalled and returned
\* (zombies included).  What the signal does is up to the process (Die).
KillAllPids ==
  /\ pc \in {"idle", "done"} /\ rounds < MaxRounds
  /\ pids' = {p \in Pid : proc[p] # "none"}
  /\ target' = gen
  /\ rounds' = rounds + 1
  /\ pc' = "killed"
  /\ UNCHANGED <<proc, child, gen, waited, now, until, slept, stepped>>

\* Variant of WaitPidsStart that subtracts the timeout from the clock.
WaitPidsStartBackwards ==
  /\ pc = "killed"
  /\ until' = now - Timeout
  /\ pids' = pids \ {1}
  /\ waited' = pids \ {1}
  /\ pc' = "reap"
  /\ slept' = 0
  /\ UNCHANGED <<proc, child, gen, target, now, rounds, stepped>>

\* wait_pids, entry: the deadline, and pid 1 taken out of the set.
WaitPidsStart ==
  /\ pc = "killed"
  /\ until' = now + Timeout
  /\ pids' = pids \ {1}
  /\ waited' = pids \ {1}
  /\ pc' = "reap"
  /\ slept' = 0
  /\ UNCHANGED <<proc, child, gen, target, now, rounds, stepped>>

\* wait_pids, step 1: waitpid(-1, WNOHANG) until it reports nothing reaps
\* every zombie child of the manager, in the set or not.
Reap ==
  LET reaped == {p \in Pid : proc[p] = "zombie" /\ child[p]}
  IN  /\ pc = "reap"
      /\ proc' = [p \in Pid |-> IF p \in reaped THEN "none" ELSE proc[p]]
      /\ pids' = pids \ reaped
      /\ pc' = "probe"
      /\ UNCHANGED <<child, gen, target, waited, now, until, rounds, slept, stepped>>

\* Variant of Probe with the test of kill's result the wrong way round.
ProbeInverted ==
  /\ pc = "probe"
  /\ pids' = {p \in pids : proc[p] = "none"}
  /\ pc' = "sleep"
  /\ UNCHANGED <<proc, child, gen, target, waited, now, until, rounds, slept, stepped>>

\* wait_pids, step 2: kill(pid, 0) fails with ESRCH only for a pid that
\* no process holds; a zombie or a new process at the pid answers.
Probe ==
  /\ pc = "probe"
  /\ pids' = {p \in pids : proc[p] # "none"}
  /\ pc' = "sleep"
  /\ UNCHANGED <<proc, child, gen, target, waited, now, until, rounds, slept, stepped>>

\* wait_pids, step 3: sleep one second.
Sleep ==
  /\ pc = "sleep" /\ now + Second <= ClockBound
  /\ now' = now + Second
  /\ slept' = slept + 1
  /\ pc' = "check"
  /\ UNCHANGED <<proc, child, gen, target, pids, waited, until, rounds, stepped>>

\* wait_pids, step 4: return when the set is empty or the deadline passed.
CheckNoDeadline ==
  /\ pc = "check"
  /\ pc' = IF pids = {} THEN "done" ELSE "reap"
  /\ UNCHANGED <<proc, child, gen, target, pids, waited, now, until, rounds, slept, stepped>>

Check ==
  /\ pc = "check"
  /\ pc' = IF pids = {} \/ now >= until THEN "done" ELSE "reap"
  /\ UNCHANGED <<proc, child, gen, target, pids, waited, now, until, rounds, slept, stepped>>

-----------------------------------------------------------------------------
(* Environment: the processes.                                             *)

\* A process exits (on the signal or on its own) and becomes a zombie.
Die(p) ==
  /\ p # 1 /\ proc[p] = "run"
  /\ proc' = [proc EXCEPT ![p] = "zombie"]
  /\ UNCHANGED <<child, gen, target, pids, waited, pc, now, until, rounds, slept, stepped>>

\* A zombie whose parent is another process is reaped by that parent.
ParentReap(p) ==
  /\ proc[p] = "zombie" /\ ~child[p]
  /\ proc' = [proc EXCEPT ![p] = "none"]
  /\ UNCHANGED <<child, gen, target, pids, waited, pc, now, until, rounds, slept, stepped>>

\* A new process, child of the manager or not, gets a free pid.
Spawn(p) ==
  /\ proc[p] = "none" /\ gen[p] < MaxGen
  /\ proc' = [proc EXCEPT ![p] = "run"]
  /\ gen' = [gen EXCEPT ![p] = @ + 1]
  /\ child' \in {[child EXCEPT ![p] = b] : b \in BOOLEAN}
  /\ UNCHANGED <<target, pids, waited, pc, now, until, rounds, slept, stepped>>

\* The parent of a process exits and the process is re-parented to the
\* manager, pid 1.
Reparent(p) ==
  /\ proc[p] # "none" /\ ~child[p] /\ p # 1
  /\ child' = [child EXCEPT ![p] = TRUE]
  /\ UNCHANGED <<proc, gen, target, pids, waited, pc, now, until, rounds, slept, stepped>>

\* The wall clock, which SystemTime reads, is set back by whole seconds
\* (by an administrator or a time daemon), once in a behaviour.
ClockStepBack ==
  /\ ~stepped
  /\ \E d \in 1..(now \div Second) : now' = now - d * Second
  /\ stepped' = TRUE
  /\ UNCHANGED <<proc, child, gen, target, pids, waited, pc, until, rounds, slept>>

Next ==
  \/ KillAllPids \/ WaitPidsStart \/ Reap \/ Probe \/ Sleep \/ Check
  \/ ClockStepBack
  \/ \E p \in Pid : Die(p) \/ ParentReap(p) \/ Spawn(p) \/ Reparent(p)

\* wait_pids is straight-line code of the manager: each of its steps is
\* taken once enabled.  The processes get no fairness.
Fairness == WF_vars(WaitPidsStart \/ Reap \/ Probe \/ Sleep \/ Check)

Spec == Init /\ [][Next]_vars /\ Fairness

-----------------------------------------------------------------------------
(* Properties.                                                             *)

TypeOK ==
  /\ proc \in [Pid -> ProcState]
  /\ child \in [Pid -> BOOLEAN]
  /\ gen \in [Pid -> 0..MaxGen]
  /\ target \in [Pid -> 0..MaxGen]
  /\ pids \subseteq Pid /\ waited \subseteq Pid
  /\ pc \in {"idle", "killed", "reap", "probe", "sleep", "check", "done"}
  /\ now \in 0..ClockBound /\ until \in Nat
  /\ rounds \in 0..MaxRounds
  /\ slept \in Nat /\ stepped \in BOOLEAN

\* wait_pids always returns to its caller, whatever the processes do:
\* processes that never exit, zombies nobody reaps and reused pids are
\* cut off by the deadline.
WaitPidsReturns == pc \in {"killed", "reap", "probe", "sleep", "check"} ~> pc = "done"

\* wait_pids drops a pid from its set only once the process signalled at
\* that pid is gone: reaped by waitpid or no longer known to kill(pid, 0).
\* The pid may since have been taken by a new process, never by the old one.
NoFalseRemoval ==
  pc \in {"reap", "probe", "sleep", "check", "done"} =>
    \A p \in waited \ pids : proc[p] = "none" \/ gen[p] > target[p]

\* Every pid wait_pids returns, and logs as "haven't been killed yet", is
\* still running the process that kill_all_pids signalled.
ReturnedPidsNotKilled ==
  pc = "done" => \A p \in pids : proc[p] = "run" /\ gen[p] = target[p]

\* wait_pids honours its timeout: a call sleeps a second time only while
\* less than `timeout` has passed, so it never sleeps more than
\* max(1, ceil(timeout / 1s)) times, whatever happens to the wall clock.
WaitBounded == slept <= 1 \/ (slept - 1) * Second < Timeout

=============================================================================
