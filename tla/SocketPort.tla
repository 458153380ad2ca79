------------------------------ MODULE SocketPort ------------------------------
(***************************************************************************)
(* The listening ports of a socket unit: SocketPorts and SocketPort of     *)
(* src/components/socket/src/socket_port.rs, against the process's file    *)
(* descriptor table.                                                       *)
(*                                                                         *)
(* A port owns at most one descriptor (`pfd`, -1 when closed).  The       *)
(* descriptor table maps every descriptor number to the object it refers   *)
(* to: nothing, a socket a port created ("sock": not listening, "listen"),*)
(* a connection accepted from a port's socket ("conn" by dispatch,        *)
(* "flushed" by flush_accept) or a descriptor of other code in the same    *)
(* process ("other").  The kernel hands out the lowest free number, so a   *)
(* number a port still holds after its object was closed may come to name *)
(* another object.  `pending` counts the connections (stream) or datagrams *)
(* queued on a socket, `path` whether a unix socket file exists on disk,   *)
(* `mng` the state of the owning SocketMng and `runfd` the descriptor      *)
(* dispatch last passed to SocketMng::enter_runing.                        *)
(***************************************************************************)
EXTENDS Integers, FiniteSets

CONSTANTS
  Port,             \* the ports of one socket unit (all PortType::Socket)
  StreamPort,       \* ports whose address has SockType::Stream
  UnixPort,         \* ports whose address is an AF_UNIX path
  Fd,               \* the descriptor numbers the process may use
  Accept,           \* the unit's Socket.Accept setting
  SyscallFailures,  \* whether setsockopt/create_dir_all/bind/listen may fail
  MaxPending        \* bound on connections or datagrams queued on a socket

ASSUME SocketAssumption ==
  /\ StreamPort \subseteq Port /\ UnixPort \subseteq Port
  /\ IsFiniteSet(Fd) /\ Fd \subseteq Nat
  /\ Accept \in BOOLEAN /\ SyscallFailures \in BOOLEAN
  /\ MaxPending \in Nat \ {0}

NoFd == -1
None == "none"
ObjKind == {"free", "sock", "listen", "conn", "flushed", "other"}
Obj == [kind: ObjKind, port: Port \cup {None}]
Free == [kind |-> "free", port |-> None]

VARIABLES
  pfd,      \* SocketPort.fd of each port
  obj,      \* the object each descriptor number refers to
  pending,  \* connections or datagrams queued on the object of a descriptor
  path,     \* the socket file of a unix port exists
  mng,      \* SocketMng state: "listening" or "running"
  runfd     \* the descriptor last passed to enter_runing (NoFd for none)

vars == <<pfd, obj, pending, path, mng, runfd>>

FreeFds == {f \in Fd : obj[f].kind = "free"}
\* The kernel allocates the lowest free descriptor number.
Lowest(S) == CHOOSE f \in S : \A g \in S : f <= g
HeldBy(f) == {p \in Port : pfd[p] = f}

\* SocketAddress::can_accept
CanAccept(p) == p \in StreamPort

\* SocketPorts::collect_fds: the descriptors of the open ports.
CollectFds == {pfd[p] : p \in {q \in Port : pfd[q] # NoFd}}

\* socket() created an object of kind k for port p at descriptor f.
Created(f, p, k) == obj' = [obj EXCEPT ![f] = [kind |-> k, port |-> p]]

\* SocketAddress::socket_listen as called by open_port, at descriptor f:
\* an error after socket() returns Err without closing f; bind fails on a
\* path that exists; bind creates the socket file.
SocketListen(p, f) ==
  \/ /\ \/ SyscallFailures                  \* setsockopt, create_dir_all, bind
        \/ p \in UnixPort /\ path[p]         \* bind: EADDRINUSE
     /\ Created(f, p, "sock") /\ UNCHANGED <<pfd, path>>
  \/ /\ ~(p \in UnixPort /\ path[p])
     /\ path' = [path EXCEPT ![p] = @ \/ p \in UnixPort]
     /\ \/ /\ CanAccept(p) /\ SyscallFailures   \* listen
           /\ Created(f, p, "sock") /\ UNCHANGED pfd
        \/ /\ Created(f, p, IF CanAccept(p) THEN "listen" ELSE "sock")
           /\ pfd' = [pfd EXCEPT ![p] = f]

-----------------------------------------------------------------------------
(* Operations of SocketPort.                                               *)

\* Variant of Init whose ports start with descriptor 0 instead of -1.
InitFdZero ==
  /\ pfd = [p \in Port |-> 0]
  /\ obj \in [Fd -> {Free, [kind |-> "other", port |-> None]}]
  /\ pending = [f \in Fd |-> 0]
  /\ path \in [Port -> BOOLEAN] /\ \A p \in Port \ UnixPort : ~path[p]
  /\ mng = "listening"
  /\ runfd = NoFd

Init ==
  /\ pfd = [p \in Port |-> NoFd]
  /\ obj \in [Fd -> {Free, [kind |-> "other", port |-> None]}]
  /\ pending = [f \in Fd |-> 0]
  \* A socket file may be left on disk by an earlier run of the manager.
  /\ path \in [Port -> BOOLEAN] /\ \A p \in Port \ UnixPort : ~path[p]
  /\ mng = "listening"
  /\ runfd = NoFd

\* open_port: no-op on an open port; socket() fails with no free number.
OpenPort(p) ==
  /\ pfd[p] = NoFd
  /\ FreeFds # {}
  /\ SocketListen(p, Lowest(FreeFds))
  /\ UNCHANGED <<pending, mng, runfd>>

\* SocketAddress::unlink of a port's address (only unix paths).
Unlink(p) == path' = [path EXCEPT ![p] = FALSE]

\* Variant of Close that forgets the descriptor without closing it.
CloseWithoutClosing(p) ==
  /\ pfd[p] # NoFd
  /\ pfd' = [pfd EXCEPT ![p] = NoFd]
  /\ Unlink(p)
  /\ UNCHANGED <<obj, pending, mng, runfd>>

\* close: closes whatever object the port's number names now, forgets it
\* and unlinks the socket file.
Close(p) ==
  /\ pfd[p] # NoFd
  /\ obj' = [obj EXCEPT ![pfd[p]] = Free]
  /\ pending' = [pending EXCEPT ![pfd[p]] = 0]
  /\ pfd' = [pfd EXCEPT ![p] = NoFd]
  /\ Unlink(p)
  /\ UNCHANGED <<mng, runfd>>

\* flush_accept: on a listening socket with a queued connection, accept4
\* takes the lowest free number and then fd_util::close(self.fd()) closes
\* the LISTENING descriptor; the next poll reports POLLNVAL and accept4
\* fails with EBADF, which ends the loop.  Every other path returns early.
FlushAccept(p) ==
  LET f == pfd[p] IN
  /\ f # NoFd /\ obj[f].kind = "listen"
  /\ pending[f] > 0 /\ FreeFds # {}
  /\ obj' = [obj EXCEPT ![Lowest(FreeFds)] = [kind |-> "flushed", port |-> obj[f].port],
                        ![f] = Free]
  /\ pending' = [pending EXCEPT ![f] = 0]
  /\ UNCHANGED <<pfd, path, mng, runfd>>

\* flush_fd: reads the socket until poll reports nothing queued.  Reading
\* a listening socket fails at once, so only datagram sockets drain.
FlushFd(p) ==
  LET f == pfd[p] IN
  /\ f # NoFd /\ obj[f].kind = "sock" /\ pending[f] > 0
  /\ pending' = [pending EXCEPT ![f] = 0]
  /\ UNCHANGED <<pfd, obj, path, mng, runfd>>

\* SocketPort::accept: accept4 on the port's descriptor (EAGAIN when
\* nothing is queued, EMFILE when no number is free).
AcceptOn(f) == obj[f].kind = "listen" /\ pending[f] > 0 /\ FreeFds # {}

\* Source::dispatch, called when the port's descriptor is readable.  In
\* Accept mode the accepted descriptor is bound to a block-local `afd`
\* that shadows the outer one, so enter_runing always receives -1.
Dispatch(p) ==
  LET f == pfd[p] IN
  /\ mng = "listening"
  /\ f # NoFd /\ pending[f] > 0
  /\ IF Accept /\ CanAccept(p)
       THEN /\ AcceptOn(f)
            /\ obj' = [obj EXCEPT ![Lowest(FreeFds)] = [kind |-> "conn", port |-> obj[f].port]]
            /\ pending' = [pending EXCEPT ![f] = @ - 1]
       ELSE UNCHANGED <<obj, pending>>
  /\ mng' = "running"
  /\ runfd' = NoFd
  /\ UNCHANGED <<pfd, path>>

-----------------------------------------------------------------------------
(* Environment: clients, the service, and other code of the process.       *)

\* A client connects to a listening socket or sends a datagram to a bound one.
Connect(f) ==
  /\ \/ obj[f].kind = "listen"
     \/ obj[f].kind = "sock" /\ obj[f].port \notin StreamPort /\ pfd[obj[f].port] = f
  /\ pending[f] < MaxPending
  /\ pending' = [pending EXCEPT ![f] = @ + 1]
  /\ UNCHANGED <<pfd, obj, path, mng, runfd>>

\* The service started by enter_runing (non-Accept mode: it inherits the
\* collected descriptors) consumes what is queued on one of them.
ServiceConsume(f) ==
  /\ mng = "running" /\ f \in CollectFds /\ pending[f] > 0
  /\ pending' = [pending EXCEPT ![f] = @ - 1]
  /\ UNCHANGED <<pfd, obj, path, mng, runfd>>

\* The service exits and SocketMng goes back to listening.
ServiceExit ==
  /\ mng = "running"
  /\ mng' = "listening"
  /\ UNCHANGED <<pfd, obj, pending, path, runfd>>

\* Other code of the process opens or closes a descriptor of its own.
OtherOpen ==
  /\ FreeFds # {}
  /\ obj' = [obj EXCEPT ![Lowest(FreeFds)] = [kind |-> "other", port |-> None]]
  /\ UNCHANGED <<pfd, pending, path, mng, runfd>>

OtherClose(f) ==
  /\ obj[f].kind = "other"
  /\ obj' = [obj EXCEPT ![f] = Free]
  /\ UNCHANGED <<pfd, pending, path, mng, runfd>>

Next ==
  \/ \E p \in Port : OpenPort(p) \/ Close(p) \/ FlushAccept(p) \/ FlushFd(p) \/ Dispatch(p)
  \/ \E f \in Fd : Connect(f) \/ ServiceConsume(f) \/ OtherClose(f)
  \/ ServiceExit
  \/ OtherOpen

Spec == Init /\ [][Next]_vars

-----------------------------------------------------------------------------
(* Properties.                                                             *)

TypeOK ==
  /\ pfd \in [Port -> Fd \cup {NoFd}]
  /\ obj \in [Fd -> Obj]
  /\ pending \in [Fd -> 0..MaxPending]
  /\ path \in [Port -> BOOLEAN]
  /\ mng \in {"listening", "running"}
  /\ runfd \in Fd \cup {NoFd}

\* Every listening socket a port created is among the descriptors
\* collect_fds hands to the service: open_port, close and flush_accept
\* never leave a listening socket that no port's descriptor names.
ListenSocketsCollected ==
  \A f \in Fd : obj[f].kind = "listen" => f \in CollectFds

\* A port's descriptor, while set, names the socket that port opened
\* (flush_accept must not close it behind the port's back).
PortFdValid ==
  \A p \in Port : pfd[p] # NoFd =>
    obj[pfd[p]].port = p /\ obj[pfd[p]].kind \in {"sock", "listen"}

\* Every connection dispatch accepts is the descriptor handed to the
\* service by enter_runing.
ConnectionsHandedOff ==
  \A f \in Fd : obj[f].kind = "conn" => runfd = f

\* No socket created by open_port outlives the port's hold on it: a
\* failed socket_listen closes the descriptor it created.
NoLeakedSocket ==
  \A f \in Fd : obj[f].kind \in {"sock", "listen"} => HeldBy(f) # {}

=============================================================================
