--------------------------- MODULE MC_ProcessUtil ---------------------------
(* Three pids (1 is the manager), a two-second timeout, two processes per  *)
(* pid and two rounds of kill_all_pids/wait_pids (SIGTERM, then SIGKILL).  *)
EXTENDS ProcessUtil, TLC

MC_Pid == 1..3
MC_Timeout == 2 * Second
=============================================================================
