--------------------------- MODULE SocketPort_proofs ---------------------------
(***************************************************************************)
(* Proofs about the socket ports (SocketPort) for every set of ports, of   *)
(* descriptor numbers and every setting satisfying SocketAssumption.       *)
(***************************************************************************)
EXTENDS SocketPort, WellFoundedInduction, TLAPS

\* The inductive invariant behind ListenSocketsCollected.
LInv == TypeOK /\ ListenSocketsCollected

-----------------------------------------------------------------------------
(* The kernel's lowest free descriptor.                                    *)

\* A non-empty set of naturals has a least element, and Lowest picks it:
\* the less-than relation on Nat is well-founded.
LEMMA LowestIn ==
  ASSUME NEW S \in SUBSET Nat, S # {}
  PROVE  Lowest(S) \in S /\ \A g \in S : Lowest(S) <= g
<1>1. PICK x \in S : \A y \in S : ~(<<y, x>> \in OpToRel(<, Nat))
  BY NatLessThanWellFounded, WFMin
<1>2. ASSUME NEW y \in S PROVE x <= y
  <2>1. ~(<<y, x>> \in OpToRel(<, Nat))
    BY <1>1
  <2>2. <<y, x>> \in Nat \X Nat
    OBVIOUS
  <2>3. ~(y < x)
    BY <2>1, <2>2, Zenon DEF OpToRel
  <2>. QED
    BY <2>3
<1>. QED
  BY <1>2 DEF Lowest

\* socket(), accept4 and other code's open take a free number of Fd.
LEMMA LowestFree ==
  ASSUME FreeFds # {}
  PROVE  Lowest(FreeFds) \in Fd /\ obj[Lowest(FreeFds)].kind = "free"
<1>1. FreeFds \in SUBSET Nat
  BY SocketAssumption DEF FreeFds
<1>. QED
  BY <1>1, LowestIn DEF FreeFds

-----------------------------------------------------------------------------
(* Type correctness.                                                       *)

LEMMA InitTypeOK == Init => TypeOK
BY SocketAssumption DEF Init, TypeOK, Obj, Free, ObjKind, NoFd, None

LEMMA NextTypeOK == TypeOK /\ [Next]_vars => TypeOK'
<1> SUFFICES ASSUME TypeOK, [Next]_vars PROVE TypeOK'
  OBVIOUS
<1> USE SocketAssumption DEF TypeOK
<1>1. ASSUME NEW p \in Port, OpenPort(p) PROVE TypeOK'
  <2>. DEFINE f == Lowest(FreeFds)
  <2>0. FreeFds # {}
    BY <1>1 DEF OpenPort
  <2>1. f \in Fd
    BY <2>0, LowestFree
  <2>2. \A k \in ObjKind : [obj EXCEPT ![f] = [kind |-> k, port |-> p]] \in [Fd -> Obj]
    BY DEF Obj
  <2>3. \E k \in ObjKind : Created(f, p, k)
    BY <1>1, Zenon DEF OpenPort, SocketListen, ObjKind
  <2>4. obj' \in [Fd -> Obj]
    BY <2>2, <2>3 DEF Created
  <2>5. pfd' \in {pfd, [pfd EXCEPT ![p] = f]}
    BY <1>1, Zenon DEF OpenPort, SocketListen
  <2>6. path' \in {path, [path EXCEPT ![p] = path[p] \/ p \in UnixPort]}
    BY <1>1, Zenon DEF OpenPort, SocketListen
  <2>. QED
    BY <1>1, <2>1, <2>4, <2>5, <2>6 DEF OpenPort
<1>2. ASSUME NEW p \in Port, Close(p) PROVE TypeOK'
  BY <1>2 DEF Close, Unlink, Obj, Free, ObjKind, None
<1>3. ASSUME NEW p \in Port, FlushAccept(p) PROVE TypeOK'
  <2>0. FreeFds # {}
    BY <1>3 DEF FlushAccept
  <2>1. Lowest(FreeFds) \in Fd
    BY <2>0, LowestFree
  <2>2. pfd[p] \in Fd
    BY <1>3 DEF FlushAccept, NoFd
  <2>3. [kind |-> "flushed", port |-> obj[pfd[p]].port] \in Obj /\ Free \in Obj
    BY <2>2 DEF Obj, ObjKind, Free, None
  <2>4. obj' \in [Fd -> Obj]
    BY <1>3, <2>1, <2>2, <2>3 DEF FlushAccept
  <2>5. pending' \in [Fd -> 0..MaxPending]
    BY <1>3, <2>2 DEF FlushAccept
  <2>. QED
    BY <1>3, <2>4, <2>5 DEF FlushAccept
<1>4. ASSUME NEW p \in Port, FlushFd(p) PROVE TypeOK'
  BY <1>4 DEF FlushFd
<1>5. ASSUME NEW p \in Port, Dispatch(p) PROVE TypeOK'
  <2>1. CASE Accept /\ CanAccept(p)
    <3>0. FreeFds # {}
      BY <1>5, <2>1 DEF Dispatch, AcceptOn
    <3>1. Lowest(FreeFds) \in Fd
      BY <3>0, LowestFree
    <3>2. pfd[p] \in Fd
      BY <1>5 DEF Dispatch, NoFd
    <3>3. [kind |-> "conn", port |-> obj[pfd[p]].port] \in Obj
      BY <3>2 DEF Obj, ObjKind
    <3>4. obj' \in [Fd -> Obj]
      BY <1>5, <2>1, <3>1, <3>3 DEF Dispatch
    <3>5. pending' \in [Fd -> 0..MaxPending]
      BY <1>5, <2>1, <3>2 DEF Dispatch
    <3>. QED
      BY <1>5, <3>4, <3>5 DEF Dispatch, NoFd
  <2>2. CASE ~(Accept /\ CanAccept(p))
    BY <1>5, <2>2 DEF Dispatch, NoFd
  <2>. QED
    BY <2>1, <2>2
<1>6. ASSUME NEW f \in Fd, Connect(f) PROVE TypeOK'
  BY <1>6 DEF Connect
<1>7. ASSUME NEW f \in Fd, ServiceConsume(f) PROVE TypeOK'
  BY <1>7 DEF ServiceConsume
<1>8. ASSUME NEW f \in Fd, OtherClose(f) PROVE TypeOK'
  BY <1>8 DEF OtherClose, Obj, Free, ObjKind, None
<1>9. CASE ServiceExit
  BY <1>9 DEF ServiceExit
<1>10. CASE OtherOpen
  <2>0. FreeFds # {}
    BY <1>10 DEF OtherOpen
  <2>1. Lowest(FreeFds) \in Fd
    BY <2>0, LowestFree
  <2>. QED
    BY <1>10, <2>1 DEF OtherOpen, Obj, ObjKind, None
<1>11. CASE UNCHANGED vars
  BY <1>11 DEF vars
<1>12. QED
  BY <1>1, <1>2, <1>3, <1>4, <1>5, <1>6, <1>7, <1>8, <1>9, <1>10, <1>11
  DEF Next

\* Every reachable state is well typed: each port's descriptor is a number
\* of Fd or -1, the descriptor table maps every number to an object, and
\* the queues stay within MaxPending.
THEOREM SocketTypeCorrect == Spec => []TypeOK
BY InitTypeOK, NextTypeOK, PTL DEF Spec

-----------------------------------------------------------------------------
(* ListenSocketsCollected.                                                 *)

\* A listening socket is created only together with the port's hold on
\* its number (pfd' = [pfd EXCEPT ![p] = f]), and a port lets go of its
\* number only in close, which closes what the number names.  So every
\* listening socket keeps a port naming it: ListenSocketsCollected is
\* inductive together with TypeOK.

LEMMA InitLInv == Init => LInv
BY InitTypeOK DEF Init, LInv, ListenSocketsCollected, Free

LEMMA NextLInv == LInv /\ [Next]_vars => LInv'
<1> SUFFICES ASSUME LInv, [Next]_vars PROVE LInv'
  OBVIOUS
<1>a. TypeOK /\ TypeOK'
  BY NextTypeOK DEF LInv
<1>b. NoFd \notin Fd
  BY SocketAssumption DEF NoFd
<1> USE <1>a, <1>b DEF TypeOK
<1>c. ASSUME NEW g \in Fd, obj[g].kind = "listen"
      PROVE  \E q \in Port : pfd[q] = g
  BY <1>c DEF LInv, ListenSocketsCollected, CollectFds
<1> SUFFICES ASSUME NEW g \in Fd, obj'[g].kind = "listen"
             PROVE  \E q \in Port : pfd'[q] = g
  BY DEF LInv, ListenSocketsCollected, CollectFds
<1>1. ASSUME NEW p \in Port, OpenPort(p) PROVE \E q \in Port : pfd'[q] = g
  <2>. DEFINE L == Lowest(FreeFds)
  <2>1. L \in Fd /\ obj[L].kind = "free"
    <3>1. FreeFds # {} BY <1>1 DEF OpenPort
    <3>. QED BY <3>1, LowestFree
  <2>2. CASE g = L
    <3>1. \/ Created(L, p, "sock")
          \/ pfd' = [pfd EXCEPT ![p] = L]
      BY <1>1, Zenon DEF OpenPort, SocketListen
    <3>2. ~Created(L, p, "sock")
      <4>1. SUFFICES ASSUME Created(L, p, "sock") PROVE FALSE
        OBVIOUS
      <4>2. obj'[L] = [kind |-> "sock", port |-> p]
        BY <2>1, <4>1 DEF Created
      <4>3. obj'[L].kind = "listen"
        BY <2>2
      <4>. QED
        BY <4>2, <4>3
    <3>3. pfd'[p] = g
      BY <3>1, <3>2, <2>2
    <3>. QED
      BY <3>3
  <2>3. CASE g # L
    <3>1. obj'[g] = obj[g]
      BY <1>1, <2>3, Zenon DEF OpenPort, SocketListen, Created
    <3>2. PICK q \in Port : pfd[q] = g
      BY <3>1, <1>c
    <3>3. q # p
      BY <1>1, <3>2 DEF OpenPort
    <3>4. pfd'[q] = pfd[q]
      BY <1>1, <3>3, Zenon DEF OpenPort, SocketListen, Created
    <3>. QED
      BY <3>2, <3>4
  <2>. QED
    BY <2>2, <2>3
<1>2. ASSUME NEW p \in Port, Close(p) PROVE \E q \in Port : pfd'[q] = g
  <2>1. g # pfd[p] /\ obj'[g] = obj[g]
    BY <1>2 DEF Close, Free
  <2>2. PICK q \in Port : pfd[q] = g
    BY <2>1, <1>c
  <2>. QED
    BY <1>2, <2>1, <2>2 DEF Close
<1>3. ASSUME NEW p \in Port, FlushAccept(p) PROVE \E q \in Port : pfd'[q] = g
  <2>1. obj'[g] = obj[g]
    BY <1>3 DEF FlushAccept, Free
  <2>. QED
    BY <1>3, <2>1, <1>c DEF FlushAccept
<1>4. ASSUME NEW p \in Port, FlushFd(p) PROVE \E q \in Port : pfd'[q] = g
  BY <1>4, <1>c DEF FlushFd
<1>5. ASSUME NEW p \in Port, Dispatch(p) PROVE \E q \in Port : pfd'[q] = g
  <2>1. obj'[g] = obj[g]
    BY <1>5 DEF Dispatch
  <2>. QED
    BY <1>5, <2>1, <1>c DEF Dispatch
<1>6. ASSUME NEW f \in Fd, Connect(f) PROVE \E q \in Port : pfd'[q] = g
  BY <1>6, <1>c DEF Connect
<1>7. ASSUME NEW f \in Fd, ServiceConsume(f) PROVE \E q \in Port : pfd'[q] = g
  BY <1>7, <1>c DEF ServiceConsume
<1>8. ASSUME NEW f \in Fd, OtherClose(f) PROVE \E q \in Port : pfd'[q] = g
  <2>1. obj'[g] = obj[g]
    BY <1>8 DEF OtherClose, Free
  <2>. QED
    BY <1>8, <2>1, <1>c DEF OtherClose
<1>9. CASE ServiceExit
  BY <1>9, <1>c DEF ServiceExit
<1>10. CASE OtherOpen
  <2>1. obj'[g] = obj[g]
    BY <1>10 DEF OtherOpen
  <2>. QED
    BY <1>10, <2>1, <1>c DEF OtherOpen
<1>11. CASE UNCHANGED vars
  BY <1>11, <1>c DEF vars
<1>12. QED
  BY <1>1, <1>2, <1>3, <1>4, <1>5, <1>6, <1>7, <1>8, <1>9, <1>10, <1>11
  DEF Next

\* Whatever clients, the service and other code of the process do, every
\* listening socket open_port created is among the descriptors collect_fds
\* hands to the service: no port forgets a listening socket it opened.
THEOREM ListenSocketsCollectedCorrect == Spec => []ListenSocketsCollected
<1>1. LInv => ListenSocketsCollected
  BY DEF LInv
<1>. QED
  BY <1>1, InitLInv, NextLInv, PTL DEF Spec

=============================================================================
