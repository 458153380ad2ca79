CONSTANTS
  p1 = p1
  p2 = p2
  Port <- MC_Port
  StreamPort <- MC_StreamPort
  UnixPort <- MC_Port
  Fd <- MC_Fd
  Accept = TRUE
  SyscallFailures = TRUE
  MaxPending = 2
SPECIFICATION Spec
INVARIANT PortFdValid
CHECK_DEADLOCK FALSE
