\* Does wait_pids return only pids still held by the processes it signalled?
CONSTANTS
  Pid <- MC_Pid
  Timeout <- MC_Timeout
  MaxGen = 2
  MaxRounds = 2
SPECIFICATION Spec
INVARIANTS ReturnedPidsNotKilled
\* After the last round and once every pid is used up, nothing more can
\* happen: the caller has stopped calling and no process is left to change.
CHECK_DEADLOCK FALSE
