-------------------------- MODULE DescriptorProofs --------------------------
(***************************************************************************)
(* Proofs about the numbers of the process's sockets, for any number of    *)
(* clients, numbers and connections.                                       *)
(***************************************************************************)
EXTENDS ServerProofs

(* A worker whose socket Boost owns: closing it forgets the number. *)
Boost(w) == w = Tcp \/ w \in TcpConns

(* A worker that keeps its number on close, and that the one handler there *)
(* has been so far has yet to come to.                                     *)
Intact(w) ==
    \/ signals = 0
    \/ \E t \in Threads :
         /\ hOn[t] = Modbus
         /\ \/ hPc[t] \in {"flag", "close"}
            \/ w \in Conns /\ hPc[t] \in {"cancel", "begin"}
            \/ w \in Conns /\ hPc[t] \in Walking /\ w > hCur[t]
            \/ w \in Conns /\ hPc[t] \in {"connFlag", "connClose"} /\ w = hCur[t]

OwnNumber(w) == fd[w] # NoConn => file[fd[w]] = w

FdInv == signals < 2 => \A w \in Sockets : Boost(w) \/ Intact(w) => OwnNumber(w)

SocketsDiffer ==
    /\ NoConn \notin Sockets /\ NoConn \notin Numbers
    /\ Conns \subseteq Sockets /\ Servers \subseteq Sockets

LEMMA SocketsAre == SocketsDiffer
BY WorkersDiffer, NumbersAssumption DEF SocketsDiffer, Sockets

(* Opening a socket, or closing one's own, leaves the others their numbers. *)
LEMMA OpenKeeps ==
    ASSUME FilesTyped, NEW w \in Sockets, OpenSocket(w)
    PROVE  /\ OwnNumber(w)'
           /\ \A v \in Sockets \ {w} : OwnNumber(v) => OwnNumber(v)'
<1>1. PICK n \in FreeNumbers :
        /\ fd' = [fd EXCEPT ![w] = n]
        /\ file' = [file EXCEPT ![n] = w]
  BY NewAreFree DEF OpenSocket
<1>2. n \in Numbers /\ file[n] = NoConn
  BY DEF FreeNumbers
<1> QED BY <1>1, <1>2, SocketsAre DEF FilesTyped, OwnNumber, SocketsDiffer

LEMMA CloseKeeps ==
    ASSUME FilesTyped, NEW w \in Sockets, OwnNumber(w),
           NEW forgets \in BOOLEAN, CloseSocket(w, forgets)
    PROVE  /\ forgets => OwnNumber(w)'
           /\ \A v \in Sockets \ {w} : OwnNumber(v) => OwnNumber(v)'
<1> USE SocketsAre DEF FilesTyped, OwnNumber, SocketsDiffer, CloseSocket
<1>1. forgets => fd'[w] = NoConn
  OBVIOUS
<1>2. ASSUME NEW v \in Sockets \ {w}, OwnNumber(v) PROVE OwnNumber(v)'
  <2>1. fd'[v] = fd[v]
    OBVIOUS
  <2>2. CASE fd[v] # NoConn
    <3>1. fd[v] \in Numbers /\ file[fd[v]] = v /\ fd[v] # fd[w]
      BY <1>2, <2>2
    <3> QED BY <2>1, <3>1
  <2> QED BY <2>1, <2>2
<1> QED BY <1>1, <1>2

(* A step outside the handlers: sockets are opened and Boost's are closed. *)
LEMMA FdFrame ==
    ASSUME CInv, FdInv, UNCHANGED handlerVars,
           \/ UNCHANGED <<fd, file, owner>>
           \/ \E w \in Sockets :
                /\ OpenSocket(w)
                /\ \A v \in Sockets \ {w} : v \in Conns => owner'[v] = owner[v]
           \/ \E w \in TcpConns : CloseSocket(w, TRUE) /\ UNCHANGED owner
    PROVE  FdInv'
<1>1. \A w \in Sockets : Intact(w)' <=> Intact(w)
  BY DEF handlerVars, Intact
<1> SUFFICES ASSUME signals < 2 PROVE \A w \in Sockets : Boost(w)' \/ Intact(w) => OwnNumber(w)'
  BY <1>1 DEF FdInv, handlerVars
<1>2. \A w \in Sockets : Boost(w) \/ Intact(w) => OwnNumber(w)
  BY DEF FdInv
<1>3. CASE UNCHANGED <<fd, file, owner>>
  BY <1>2, <1>3 DEF Boost, TcpConns, OwnNumber
<1>4. ASSUME NEW w \in Sockets, OpenSocket(w),
             \A v \in Sockets \ {w} : v \in Conns => owner'[v] = owner[v]
      PROVE  \A v \in Sockets : Boost(v)' \/ Intact(v) => OwnNumber(v)'
  <2>1. \A v \in Sockets \ {w} : Boost(v)' => Boost(v)
    BY <1>4 DEF Boost, TcpConns
  <2> QED BY <1>2, <1>4, <2>1, OpenKeeps DEF CInv, TInv, TypeOK
<1>5. ASSUME NEW w \in TcpConns, CloseSocket(w, TRUE), UNCHANGED owner
      PROVE  \A v \in Sockets : Boost(v)' \/ Intact(v) => OwnNumber(v)'
  <2>1. \A v \in Sockets : Boost(v)' => Boost(v)
    BY <1>5 DEF Boost, TcpConns
  <2>2. w \in Sockets /\ OwnNumber(w)
    BY <1>2, SocketsAre DEF Boost, TcpConns, SocketsDiffer
  <2> QED BY <1>2, <1>5, <2>1, <2>2, CloseKeeps DEF CInv, TInv, TypeOK
<1> QED BY <1>3, <1>4, <1>5

LEMMA FdOthers ==
    ASSUME CInv, FdInv,
           \/ \E c \in Conns : Connecting(c)
           \/ \E s \in Servers : Accepting(s)
           \/ Deleting \/ Maining
    PROVE  FdInv'
<1>1. ASSUME NEW c \in Conns, Connecting(c) PROVE FdInv'
  <2>1. UNCHANGED <<fd, file, owner, handlerVars>>
    <3>1. UNCHANGED <<fd, file, owner>>
      BY <1>1 DEF Connecting, ConnectionStep, TcpStart, Check, ReadCmd, ReadArg, Serve, Select,
         Receive, Waits, SleepOn, PeerGoneWakes, ModbusStart, SelectEof, HandleOnDestroyed,
         Handle, ReceiveEof, ReceiveEnds, DeregisterOnDestroyed, DeregisterConnection,
         fileVars, sharedVars, connVars
    <3> QED BY <1>1, <3>1 DEF Connecting
  <2> QED BY <2>1, FdFrame
<1>2. ASSUME NEW s \in Servers, Accepting(s) PROVE FdInv'
  <2>1. UNCHANGED handlerVars /\ s \in Sockets
    BY <1>2, SocketsAre DEF Accepting, SocketsDiffer
  <2>2. UNCHANGED owner
    BY <1>2 DEF Accepting, AcceptorStep, Setup, Configure, AcceptTop, AcceptEnter, Register,
       RunFlag, RunSpawn, RunAssign, Quiet, connVars
  <2>3. UNCHANGED <<fd, file>> \/ OpenSocket(s)
    BY <1>2 DEF Accepting, AcceptorStep, Setup, Configure, AcceptTop, AcceptEnter, Register,
       RunFlag, RunSpawn, RunAssign, SleepOn, fileVars
  <2> QED BY <2>1, <2>2, <2>3, FdFrame
<1>3. CASE Deleting
  <2>1. UNCHANGED <<owner, handlerVars>>
    BY <1>3 DEF Deleting, DeleterStep, connVars
  <2>2. UNCHANGED <<fd, file>> \/ \E w \in TcpConns : CloseSocket(w, TRUE)
    BY <1>3 DEF Deleting, DeleterStep, DeleterTop, DeleterTake, DeleterWait, DeleterDelete,
       fileVars, TcpConns
  <2> QED BY <2>1, <2>2, FdFrame
<1>4. CASE Maining
  <2>1. UNCHANGED <<fd, file, owner, handlerVars>>
    BY <1>4 DEF Maining, MainStep, MainRun, MainSpawn, MainAssign, MainWait, MainStop,
       MainReturn, MainExit, fileVars, connVars
  <2> QED BY <2>1, FdFrame
<1> QED BY <1>1, <1>2, <1>3, <1>4

LEMMA FdEnvironment ==
    ASSUME CInv, FdInv, ActiveInv, Environment
    PROVE  FdInv'
<1> USE DEF CInv, TInv, TypeOK
<1>1. ASSUME NEW c \in Conns, ClientStep(c), UNCHANGED <<newConn, mainVars, handlerVars>>
      PROVE  FdInv'
  <2>1. UNCHANGED <<fd, file, owner>>
    BY <1>1 DEF ClientStep, PeerServes, SelectReadable, ReceiveData, ReceiveEnds,
       fileVars, sharedVars, connVars
  <2> QED BY <1>1, <2>1, FdFrame
<1>2. ASSUME NEW s \in Servers, NEW c \in Conns, Accept(s, c), UNCHANGED <<mainVars, handlerVars>>
      PROVE  FdInv'
  <2>1. c \in Sockets /\ OpenSocket(c) /\ \A v \in Sockets \ {c} : v \in Conns => owner'[v] = owner[v]
    BY <1>2, SocketsAre DEF Accept, SocketsDiffer, ServersTyped
  <2> QED BY <1>2, <2>1, FdFrame
<1>3. ASSUME NEW t \in SignalThreads, Interrupt(t),
             UNCHANGED <<deleterVars, baseVars, connVars, newConn, mainVars>>
      PROVE  FdInv'
  <2>1. UNCHANGED <<fd, file, owner>> /\ signals' = signals + 1
    BY <1>3 DEF Interrupt, fileVars, connVars
  <2>2. SUFFICES ASSUME signals = 0 PROVE FdInv'
    BY <2>1 DEF FdInv, HandlerTyped
  <2>3. \A w \in Sockets : OwnNumber(w)
    BY <2>2 DEF FdInv, Intact
  <2> QED BY <2>1, <2>3 DEF FdInv, OwnNumber
<1> QED BY <1>1, <1>2, <1>3 DEF Environment

(* A handler closes what it comes to, and it comes to each worker once.    *)
LEMMA FdHandler ==
    ASSUME CInv, WalkInv, ActiveInv, FdInv, NEW t \in Threads, Handling(t)
    PROVE  FdInv'
<1> USE DEF CInv, TInv, TypeOK, HandlerTyped
<1>1. UNCHANGED <<signals, owner>> /\ hPc[t] # "idle"
  BY DEF Handling, HandlerStep, StopStep, StopFlag, StopClose, StopCancel, StopNext, StopDeleted,
     StopConnFlag, StopConnClose, StopConnCancel, StopMissing, StopRaces, StopClear,
     StopOnDestroyed, HandlerGoto, handlerVars, connVars
<1> SUFFICES ASSUME signals < 2
             PROVE  \A w \in Sockets : Boost(w) \/ Intact(w)' => OwnNumber(w)'
  BY <1>1 DEF FdInv, Boost, TcpConns
<1>2. signals > 0 /\ \A u \in Threads : u # t => hPc[u] = "idle"
  BY <1>1 DEF ActiveInv
<1>3. \A u \in Threads : u # t => hPc'[u] = "idle"
  BY <1>2 DEF Handling, HandlerStep, StopStep, StopFlag, StopClose, StopCancel, StopNext,
     StopDeleted, StopConnFlag, StopConnClose, StopConnCancel, StopMissing, StopRaces, StopClear,
     StopOnDestroyed, HandlerGoto, handlerVars
<1>4. \A w \in Sockets : Boost(w) \/ Intact(w) => OwnNumber(w)
  BY DEF FdInv
<1>5. ASSUME UNCHANGED <<fd, file>>, \A w \in Sockets : Intact(w)' => Intact(w)
      PROVE  \A w \in Sockets : Boost(w) \/ Intact(w)' => OwnNumber(w)'
  BY <1>4, <1>5 DEF OwnNumber
<1>6. ASSUME NEW v \in Sockets, Boost(v) \/ Intact(v), CloseSocket(v, Boost(v)),
             \A w \in Sockets : Intact(w)' => Intact(w) /\ (w # v \/ Boost(v))
      PROVE  \A w \in Sockets : Boost(w) \/ Intact(w)' => OwnNumber(w)'
  <2>1. OwnNumber(v) /\ Boost(v) \in BOOLEAN
    BY <1>4, <1>6 DEF Boost
  <2>2. /\ Boost(v) => OwnNumber(v)'
        /\ \A w \in Sockets \ {v} : OwnNumber(w) => OwnNumber(w)'
    BY <1>6, <2>1, CloseKeeps
  <2> QED BY <1>4, <1>6, <2>2
<1> DEFINE Ahead(w, h, on, cur) ==
      /\ on = Modbus
      /\ \/ h \in {"flag", "close"}
         \/ w \in Conns /\ h \in {"cancel", "begin"}
         \/ w \in Conns /\ h \in Walking /\ w > cur
         \/ w \in Conns /\ h \in {"connFlag", "connClose"} /\ w = cur
<1>7. \A w \in Sockets : /\ Intact(w) <=> Ahead(w, hPc[t], hOn[t], hCur[t])
                         /\ Intact(w)' <=> Ahead(w, hPc'[t], hOn'[t], hCur'[t])
  BY <1>1, <1>2, <1>3, WorkersDiffer DEF Intact, Walking
<1>8. ASSUME UNCHANGED <<fd, file>>,
             \A w \in Sockets : Ahead(w, hPc'[t], hOn'[t], hCur'[t]) =>
                                Ahead(w, hPc[t], hOn[t], hCur[t])
      PROVE  \A w \in Sockets : Boost(w) \/ Intact(w)' => OwnNumber(w)'
  <2>1. \A w \in Sockets : Intact(w)' => Intact(w)
    BY <1>7, <1>8
  <2> QED BY <1>5, <1>8, <2>1
<1>9. CASE StopFlag(t) \/ StopCancel(t) \/ StopConnFlag(t) \/ StopConnCancel(t) \/ StopDeleted(t)
           \/ StopMissing(t) \/ StopRaces(t) \/ StopClear(t) \/ StopOnDestroyed(t)
  <2>1. UNCHANGED <<fd, file>>
    BY <1>9 DEF StopFlag, StopCancel, StopConnFlag, StopConnCancel, StopDeleted, StopMissing,
       StopRaces, StopClear, StopOnDestroyed, fileVars
  <2>2. \/ hPc'[t] = hPc[t] /\ hOn'[t] = hOn[t] /\ hCur'[t] = hCur[t]
        \/ /\ hOn'[t] = hOn[t] /\ hCur'[t] = hCur[t]
           /\ \/ hPc[t] = "flag" /\ hPc'[t] = "close"
              \/ hPc[t] = "cancel" /\ hPc'[t] = "begin"
              \/ hPc[t] = "connFlag" /\ hPc'[t] = "connClose"
              \/ hPc[t] = "connCancel" /\ hPc'[t] = "next"
        \/ hOn'[t] = Tcp \/ hPc'[t] = "idle"
    BY <1>9 DEF StopFlag, StopCancel, StopConnFlag, StopConnCancel, StopDeleted, StopMissing,
       StopRaces, StopClear, StopOnDestroyed, HandlerGoto, handlerVars, Servers
  <2>3. \A w \in Sockets : Ahead(w, hPc'[t], hOn'[t], hCur'[t]) =>
                           Ahead(w, hPc[t], hOn[t], hCur[t])
    BY <2>2, WorkersDiffer DEF Walking
  <2> QED BY <1>8, <2>1, <2>3
<1>10. CASE StopNext(t)
  <2>1. UNCHANGED <<fd, file>> /\ hOn'[t] = hOn[t]
    BY <1>10 DEF StopNext, fileVars
  <2>2. \/ hPc'[t] = hPc[t] /\ hCur'[t] = hCur[t]
        \/ hPc'[t] = "clear"
        \/ /\ hPc'[t] = "connFlag" /\ hCur'[t] \in Conns /\ hCur'[t] > hCur[t]
           /\ hPc[t] \in {"begin", "next"}
    BY <1>10 DEF StopNext, Following, ServersTyped
  <2>3. \A w \in Sockets : Ahead(w, hPc'[t], hOn'[t], hCur'[t]) =>
                           Ahead(w, hPc[t], hOn[t], hCur[t])
    <3>1. CASE /\ hPc'[t] = "connFlag" /\ hCur'[t] \in Conns /\ hCur'[t] > hCur[t]
               /\ hPc[t] \in {"begin", "next"}
      <4>1. hCur[t] \in Nat /\ hCur'[t] \in Nat /\ \A w \in Conns : w \in Nat
        BY <3>1, WorkersDiffer DEF NoConn
      <4>2. \A w \in Conns : w > hCur'[t] \/ w = hCur'[t] => w > hCur[t]
        BY <3>1, <4>1
      <4> QED BY <2>1, <3>1, <4>2 DEF Walking
    <3> QED BY <2>1, <2>2, <3>1 DEF Walking
  <2> QED BY <1>8, <2>1, <2>3
<1>11. CASE StopClose(t)
  <2>1. /\ hPc[t] = "close" /\ hPc'[t] = "cancel" /\ hOn'[t] = hOn[t] /\ hCur'[t] = hCur[t]
        /\ CloseSocket(hOn[t], hOn[t] = Tcp) /\ hOn[t] \in {Modbus, Tcp}
    BY <1>11 DEF StopClose, HandlerGoto, Servers
  <2>2. hOn[t] \in Sockets /\ hOn[t] \notin Conns
    BY <2>1, SocketsAre, WorkersDiffer DEF SocketsDiffer, Servers
  <2>3. (hOn[t] = Tcp) = Boost(hOn[t])
    BY <2>2 DEF Boost, TcpConns
  <2>4. Boost(hOn[t]) \/ Intact(hOn[t])
    BY <1>7, <2>1, <2>2, <2>3
  <2>5. \A w \in Sockets : Intact(w)' => Intact(w) /\ (w # hOn[t] \/ Boost(hOn[t]))
    BY <1>7, <2>1, <2>2
  <2> QED BY <1>6, <2>1, <2>2, <2>3, <2>4, <2>5
<1>12. CASE StopConnClose(t)
  <2>1. /\ hPc[t] = "connClose" /\ hPc'[t] = "connCancel" /\ hOn'[t] = hOn[t] /\ hCur'[t] = hCur[t]
        /\ CloseSocket(hCur[t], owner[hCur[t]] = Tcp) /\ hOn[t] \in {Modbus, Tcp}
    BY <1>12 DEF StopConnClose, HandlerGoto, Servers
  <2>2. hCur[t] \in Conns /\ owner[hCur[t]] = hOn[t]
    BY <2>1 DEF WalkInv, Walking
  <2>3. hCur[t] \in Sockets /\ hCur[t] \notin Servers /\ hCur[t] \in Nat
    BY <2>2, SocketsAre, WorkersDiffer DEF SocketsDiffer
  <2>4. (owner[hCur[t]] = Tcp) = Boost(hCur[t])
    BY <2>2, <2>3 DEF Boost, TcpConns, Servers
  <2>5. Boost(hCur[t]) \/ Intact(hCur[t])
    BY <1>7, <2>1, <2>2, <2>3, <2>4
  <2>6. \A w \in Sockets : Intact(w)' => Intact(w) /\ (w # hCur[t] \/ Boost(hCur[t]))
    BY <1>7, <2>1, <2>2, <2>3 DEF Walking
  <2> QED BY <1>6, <2>1, <2>3, <2>4, <2>5, <2>6
<1> QED BY <1>9, <1>10, <1>11, <1>12 DEF Handling, HandlerStep, StopStep

LEMMA FdInvNext == FInv /\ FdInv /\ [Next]_vars => FdInv'
<1> SUFFICES ASSUME FInv, FdInv, [Next]_vars PROVE FdInv'
  OBVIOUS
<1>1. CInv /\ WalkInv /\ ActiveInv
  BY DEF FInv
<1>2. CASE UNCHANGED vars \/ Over
  <2>1. UNCHANGED <<handlerVars, fd, file, owner>>
    BY <1>2 DEF Over, vars, handlerVars, fileVars, connVars
  <2> QED BY <1>1, <2>1, FdFrame
<1>3. ASSUME NEW t \in Threads, Handling(t) PROVE FdInv'
  BY <1>1, <1>3, FdHandler
<1>4. CASE \/ \E c \in Conns : Connecting(c)
           \/ \E s \in Servers : Accepting(s)
           \/ Deleting \/ Maining
  BY <1>1, <1>4, FdOthers
<1>5. CASE Environment
  BY <1>1, <1>5, FdEnvironment
<1> QED BY <1>2, <1>3, <1>4, <1>5 DEF Next

LEMMA FdInvInit == Init => FdInv
BY SocketsAre DEF Init, DescriptorInit, FdInv, OwnNumber

(* Until a second SIGINT, no handler closes the socket of a worker other   *)
(* than the one it stops, so that Boost's objects are right about theirs.  *)
THEOREM BoostSocketsSafe == Spec => []BoostKeepsItsSocket
<1>1. FdInv => BoostKeepsItsSocket
  <2>1. \A w \in {Tcp} \cup TcpConns : w \in Sockets /\ Boost(w)
    BY SocketsAre, WorkersDiffer DEF Boost, TcpConns, SocketsDiffer
  <2> QED BY <2>1 DEF FdInv, OwnNumber, BoostKeepsItsSocket
<1> QED BY <1>1, FInvInit, FInvNext, FdInvInit, FdInvNext, PTL DEF Spec

-----------------------------------------------------------------------------
(* Before any SIGINT: who has a number, and that no two have the same.     *)
Matched == \A w \in Sockets : \A n \in Numbers : file[n] = w <=> fd[w] = n

Closed(w) ==
    \/ w \in Servers /\ pc[w] \in {"unborn", "setup"}
    \/ w \in Conns /\ life[w] = "absent"
    \/ w \in Conns /\ life[w] = "deleted" /\ owner[w] = Tcp

AccountInv ==
    signals = 0 =>
        /\ Matched
        /\ \A w \in Sockets : Closed(w) => fd[w] = NoConn
        /\ \A c \in Conns : ~Closed(c) => fd[c] # NoConn

(* Opening a socket for one that has none, and closing one for good.       *)
LEMMA OpenMatched ==
    ASSUME FilesTyped, Matched, NEW w \in Sockets, fd[w] = NoConn, OpenSocket(w)
    PROVE  /\ Matched' /\ fd'[w] # NoConn
           /\ \A v \in Sockets \ {w} : fd'[v] = fd[v]
<1>1. PICK n \in FreeNumbers :
        /\ fd' = [fd EXCEPT ![w] = n]
        /\ file' = [file EXCEPT ![n] = w]
  BY NewAreFree DEF OpenSocket
<1>2. n \in Numbers /\ file[n] = NoConn
  BY DEF FreeNumbers
<1>3. \A v \in Sockets : fd[v] # n
  BY <1>2, SocketsAre DEF Matched, SocketsDiffer
<1> QED BY <1>1, <1>2, <1>3, SocketsAre DEF FilesTyped, Matched, SocketsDiffer

LEMMA CloseMatched ==
    ASSUME FilesTyped, Matched, NEW w \in Sockets, CloseSocket(w, TRUE)
    PROVE  /\ Matched' /\ fd'[w] = NoConn
           /\ \A v \in Sockets \ {w} : fd'[v] = fd[v]
<1>1. /\ fd' = [fd EXCEPT ![w] = NoConn]
      /\ file' = [n \in Numbers |-> IF n = fd[w] THEN NoConn ELSE file[n]]
  BY DEF CloseSocket
<1> QED BY <1>1, SocketsAre DEF FilesTyped, Matched, SocketsDiffer

(* Steps that open and close nothing.                                      *)
LEMMA AccountFrame ==
    ASSUME AccountInv, UNCHANGED <<fd, file, signals>>,
           \A c \in Conns : Closed(c)' <=> Closed(c),
           \A s \in Servers : Closed(s)' => Closed(s)
    PROVE  AccountInv'
BY SocketsAre DEF AccountInv, Matched, Sockets

LEMMA AccountOthers ==
    ASSUME CInv, AccountInv,
           \/ \E c \in Conns : Connecting(c)
           \/ \E s \in Servers : Accepting(s)
           \/ Deleting \/ Maining
    PROVE  AccountInv'
<1> USE DEF CInv, TInv, TypeOK, ThreadsTyped, ObjectsTyped
<1>1. ASSUME NEW c \in Conns, Connecting(c) PROVE AccountInv'
  <2>1. UNCHANGED <<fd, file, signals, life, owner>>
    BY <1>1 DEF Connecting, ConnectionStep, TcpStart, Check, ReadCmd, ReadArg, Serve, Select,
       Receive, Waits, SleepOn, PeerGoneWakes, ModbusStart, SelectEof, HandleOnDestroyed,
       Handle, ReceiveEof, ReceiveEnds, DeregisterOnDestroyed, DeregisterConnection,
       fileVars, sharedVars, connVars, handlerVars
  <2>2. \A s \in Servers : pc'[s] = pc[s]
    BY <1>1, WorkersDiffer DEF Connecting, ConnectionStep, TcpStart, Check, ReadCmd, ReadArg,
       Serve, Select, Receive, Waits, PeerGoneWakes, ModbusStart, SelectEof,
       HandleOnDestroyed, Handle, ReceiveEof, ReceiveEnds, DeregisterOnDestroyed,
       DeregisterConnection, Goto
  <2> QED BY <2>1, <2>2, WorkersDiffer, AccountFrame DEF Closed
<1>2. ASSUME NEW s \in Servers, Accepting(s) PROVE AccountInv'
  <2>1. s \in Sockets /\ s \in Workers /\ s \notin Conns
    BY <1>2, SocketsAre, WorkersDiffer DEF SocketsDiffer
  <2>2. UNCHANGED <<owner, signals, life>>
    BY <1>2 DEF Accepting, AcceptorStep, Setup, Configure, AcceptTop, AcceptEnter, Register,
       RunFlag, RunSpawn, RunAssign, Quiet, connVars, handlerVars
  <2>3. CASE Setup(s) /\ ~UNCHANGED <<fd, file>>
    <3>1. pc[s] = "setup" /\ OpenSocket(s) /\ \A w \in Workers \ {s} : pc'[w] = pc[w]
      BY <2>1, <2>3, WorkersDiffer DEF Setup, Goto, fileVars
    <3>2. SUFFICES ASSUME signals = 0 PROVE AccountInv'
      BY <2>2 DEF AccountInv
    <3>3. Matched /\ fd[s] = NoConn
      BY <2>1, <3>1, <3>2 DEF AccountInv, Closed
    <3>4. Matched' /\ fd'[s] # NoConn /\ \A v \in Sockets \ {s} : fd'[v] = fd[v]
      BY <2>1, <3>1, <3>3, OpenMatched
    <3>5. pc'[s] \notin {"unborn", "setup"}
      BY <2>1, <2>3 DEF Setup, Goto, fileVars
    <3>6. ~Closed(s)'
      BY <2>1, <3>5 DEF Closed
    <3>7. \A v \in Sockets \ {s} : Closed(v)' <=> Closed(v)
      BY <2>1, <2>2, <3>1, SocketsAre, WorkersDiffer DEF Closed, SocketsDiffer
    <3> QED BY <2>1, <2>2, <3>2, <3>4, <3>6, <3>7, SocketsAre DEF AccountInv, SocketsDiffer
  <2>4. CASE UNCHANGED <<fd, file>>
    <3>1. \A w \in Servers : pc'[w] \in {"unborn", "setup"} => pc[w] \in {"unborn", "setup"}
      BY <1>2, <2>1, <2>4, WorkersDiffer DEF Accepting, AcceptorStep, Setup, Configure, AcceptTop,
         AcceptEnter, Register, RunFlag, RunSpawn, RunAssign, Goto, RegisterConnection
    <3> QED BY <2>2, <2>4, <3>1, WorkersDiffer, AccountFrame DEF Closed
  <2>5. Setup(s) \/ UNCHANGED <<fd, file>>
    BY <1>2 DEF Accepting, AcceptorStep, Configure, AcceptTop, AcceptEnter, Register,
       RunFlag, RunSpawn, RunAssign, SleepOn, fileVars
  <2> QED BY <2>3, <2>4, <2>5
<1>3. CASE Deleting
  <2>1. UNCHANGED <<owner, signals>> /\ \A s \in Servers : pc'[s] = pc[s]
    BY <1>3, WorkersDiffer DEF Deleting, DeleterStep, DeleterTop, DeleterTake, DeleterWait,
       DeleterDelete, Goto, connVars, handlerVars
  <2>2. CASE UNCHANGED <<fd, file, life>>
    BY <2>1, <2>2, WorkersDiffer, AccountFrame DEF Closed
  <2>3. ASSUME NEW c \in Conns, taken = c, DeleterDelete(owner[c] = Tcp),
               ~UNCHANGED <<fd, file, life>>
        PROVE  AccountInv'
    <3>1. /\ life' = [life EXCEPT ![c] = "deleted"] /\ c \in Sockets /\ c \notin Servers
          /\ pc[Deleter] = "delete"
          /\ IF owner[c] = Tcp THEN CloseSocket(c, TRUE) ELSE UNCHANGED <<fd, file>>
      BY <2>3, SocketsAre, WorkersDiffer DEF DeleterDelete, fileVars, SocketsDiffer
    <3>2. life[c] = "live"
      BY <2>3, <3>1, WorkersDiffer DEF HandsInv, ReapedOnce
    <3>3. SUFFICES ASSUME signals = 0 PROVE AccountInv'
      BY <2>1 DEF AccountInv
    <3>4. \A v \in Sockets \ {c} : Closed(v)' <=> Closed(v)
      BY <2>1, <3>1, SocketsAre, WorkersDiffer DEF Closed, SocketsDiffer
    <3>5. CASE owner[c] = Tcp
      <4>1. Matched' /\ fd'[c] = NoConn /\ \A v \in Sockets \ {c} : fd'[v] = fd[v]
        BY <3>1, <3>3, <3>5, CloseMatched DEF AccountInv
      <4>2. Closed(c)'
        BY <2>1, <3>1, <3>5 DEF Closed
      <4> QED BY <2>1, <3>3, <3>4, <4>1, <4>2, SocketsAre DEF AccountInv, SocketsDiffer
    <3>6. CASE owner[c] # Tcp
      <4>1. ~Closed(c)' /\ ~Closed(c)
        BY <2>1, <3>1, <3>2, <3>6 DEF Closed
      <4> QED BY <2>1, <3>1, <3>4, <3>6, <4>1, SocketsAre, AccountFrame DEF SocketsDiffer
    <3> QED BY <3>5, <3>6
  <2> QED BY <1>3, <2>2, <2>3 DEF Deleting, DeleterStep, DeleterTop, DeleterTake, DeleterWait,
          fileVars
<1>4. CASE Maining
  <2>1. UNCHANGED <<fd, file, signals, owner, life>>
    BY <1>4 DEF Maining, MainStep, MainRun, MainSpawn, MainAssign, MainWait, MainStop,
       MainReturn, MainExit, fileVars, connVars, handlerVars, workerVars
  <2>2. \A s \in Servers : pc'[s] = pc[s] \/ pc[s] = "unborn"
    <3>1. CASE MainSpawn
      BY <3>1, WorkersDiffer DEF MainSpawn, MainGoto, MainInv, MainTyped
    <3>2. CASE UNCHANGED pc
      BY <3>2
    <3> QED BY <1>4, <3>1, <3>2 DEF Maining, MainStep, MainRun, MainAssign, MainWait,
          MainStop, MainReturn, MainExit, workerVars
  <2> QED BY <2>1, <2>2, WorkersDiffer, AccountFrame DEF Closed
<1> QED BY <1>1, <1>2, <1>3, <1>4

LEMMA AccountEnvironment ==
    ASSUME CInv, AccountInv, Environment
    PROVE  AccountInv'
<1> USE DEF CInv, TInv, TypeOK, ThreadsTyped, ObjectsTyped, ServersTyped
<1>1. ASSUME NEW c \in Conns, ClientStep(c), UNCHANGED <<newConn, mainVars, handlerVars>>
      PROVE  AccountInv'
  <2>1. UNCHANGED <<fd, file, signals, owner, life>>
    BY <1>1 DEF ClientStep, PeerServes, SelectReadable, ReceiveData, ReceiveEnds,
       fileVars, sharedVars, connVars, handlerVars, workerVars
  <2>2. \A s \in Servers : pc'[s] = pc[s]
    <3>1. UNCHANGED pc \/ \E to : pc' = [pc EXCEPT ![c] = to]
      BY <1>1 DEF ClientStep, PeerServes, SelectReadable, ReceiveData, ReceiveEnds, Goto
    <3> QED BY <3>1, WorkersDiffer
  <2> QED BY <2>1, <2>2, WorkersDiffer, AccountFrame DEF Closed
<1>2. ASSUME NEW s \in Servers, NEW c \in Conns, Accept(s, c), UNCHANGED <<mainVars, handlerVars>>
      PROVE  AccountInv'
  <2>1. /\ life[c] = "absent" /\ life' = [life EXCEPT ![c] = "live"] /\ c \in Sockets
        /\ OpenSocket(c) /\ owner' = [owner EXCEPT ![c] = s] /\ c \notin Servers
        /\ pc' = [pc EXCEPT ![s] = "register"] /\ signals' = signals
    BY <1>2, SocketsAre, WorkersDiffer DEF Accept, Goto, SocketsDiffer, handlerVars
  <2>2. SUFFICES ASSUME signals = 0 PROVE AccountInv'
    BY <2>1 DEF AccountInv
  <2>3. Matched /\ fd[c] = NoConn
    BY <2>1, <2>2 DEF AccountInv, Closed
  <2>4. Matched' /\ fd'[c] # NoConn /\ \A v \in Sockets \ {c} : fd'[v] = fd[v]
    BY <2>1, <2>3, OpenMatched
  <2>5. ~Closed(c)' /\ \A v \in Sockets \ {c} : Closed(v)' => Closed(v)
    BY <2>1, SocketsAre, WorkersDiffer DEF Closed, SocketsDiffer
  <2>6. \A v \in Conns \ {c} : ~Closed(v)' => ~Closed(v)
    BY <2>1, WorkersDiffer DEF Closed
  <2> QED BY <2>1, <2>2, <2>4, <2>5, <2>6, SocketsAre DEF AccountInv, SocketsDiffer
<1>3. ASSUME NEW t \in SignalThreads, Interrupt(t) PROVE AccountInv'
  BY <1>3 DEF Interrupt, AccountInv, HandlerTyped
<1> QED BY <1>1, <1>2, <1>3 DEF Environment

LEMMA AccountNext == FInv /\ AccountInv /\ [Next]_vars => AccountInv'
<1> SUFFICES ASSUME FInv, AccountInv, [Next]_vars PROVE AccountInv'
  OBVIOUS
<1>1. CInv /\ ActiveInv
  BY DEF FInv
<1>2. CASE UNCHANGED vars \/ Over
  BY <1>2 DEF Over, vars, workerVars, handlerVars, fileVars, connVars, AccountInv, Matched, Closed
<1>3. ASSUME NEW t \in Threads, Handling(t) PROVE AccountInv'
  <2>1. UNCHANGED signals /\ hPc[t] # "idle"
    BY <1>3 DEF Handling, HandlerStep, StopStep, StopFlag, StopClose, StopCancel, StopNext,
       StopDeleted, StopConnFlag, StopConnClose, StopConnCancel, StopMissing, StopRaces,
       StopClear, StopOnDestroyed, HandlerGoto, handlerVars
  <2> QED BY <1>1, <2>1 DEF ActiveInv, AccountInv
<1>4. CASE \/ \E c \in Conns : Connecting(c)
           \/ \E s \in Servers : Accepting(s)
           \/ Deleting \/ Maining
  BY <1>1, <1>4, AccountOthers
<1>5. CASE Environment
  BY <1>1, <1>5, AccountEnvironment
<1> QED BY <1>2, <1>3, <1>4, <1>5 DEF Next

LEMMA AccountInit == Init => AccountInv
BY SocketsAre, WorkersDiffer
   DEF Init, DescriptorInit, WorkerInit, AccountInv, Matched, Closed, SocketsDiffer

(* Until a SIGINT, every open number is that of the one worker that keeps  *)
(* it, and a deleted TcpConnection keeps none: the sockets that nobody     *)
(* answers for any more are those of ModbusConnections.                    *)
THEOREM OnlyModbusLeaks == Spec => []NumbersAccountedFor
<1>1. CInv /\ AccountInv => NumbersAccountedFor
  <2> SUFFICES ASSUME CInv, AccountInv, signals = 0, NEW w \in Sockets
               PROVE  /\ {n \in Numbers : file[n] = w} = {fd[w]} \ {NoConn}
                      /\ w \in TcpConns /\ life[w] = "deleted" => fd[w] = NoConn
    BY DEF NumbersAccountedFor
  <2>1. fd[w] \in Numbers \cup {NoConn} /\ \A n \in Numbers : file[n] = w <=> fd[w] = n
    BY DEF AccountInv, Matched, CInv, TInv, TypeOK, FilesTyped
  <2>2. {n \in Numbers : file[n] = w} = {fd[w]} \ {NoConn}
    BY <2>1, NumbersAssumption
  <2>3. w \in TcpConns /\ life[w] = "deleted" => Closed(w)
    BY DEF TcpConns, Closed
  <2> QED BY <2>2, <2>3 DEF AccountInv
<1>2. FInv => CInv
  BY DEF FInv
<1> QED BY <1>1, <1>2, FInvInit, FInvNext, AccountInit, AccountNext, PTL DEF Spec
=============================================================================
