\* kill_all_pids and wait_pids against processes that exit, are reaped and
\* whose pids are reused.
CONSTANTS
  Pid <- MC_Pid
  Timeout <- MC_Timeout
  MaxGen = 2
  MaxRounds = 2
SPECIFICATION Spec
INVARIANTS TypeOK NoFalseRemoval
PROPERTIES WaitPidsReturns
\* After the last round and once every pid is used up, nothing more can
\* happen: the caller has stopped calling and no process is left to change.
CHECK_DEADLOCK FALSE
