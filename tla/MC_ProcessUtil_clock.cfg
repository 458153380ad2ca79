\* Does wait_pids keep to its timeout when the wall clock is set back?
CONSTANTS
  Pid <- MC_Pid
  Timeout <- MC_Timeout
  MaxGen = 2
  MaxRounds = 2
SPECIFICATION Spec
INVARIANTS WaitBounded
\* After the last round and once every pid is used up, nothing more can
\* happen: the caller has stopped calling and no process is left to change.
CHECK_DEADLOCK FALSE
