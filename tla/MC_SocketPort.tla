---------------------------- MODULE MC_SocketPort ----------------------------
(* Two ports of one socket unit, a stream and a datagram port, both on     *)
(* unix paths, over three descriptor numbers.                              *)
EXTENDS SocketPort, TLC

CONSTANTS p1, p2

MC_Port == {p1, p2}
MC_StreamPort == {p1}
MC_Fd == 3..5
=============================================================================
