---------------------------- MODULE ServerProofs ----------------------------
(***************************************************************************)
(* Proofs about the server process, for any number of clients, of SIGINTs  *)
(* and of addresses.                                                       *)
(***************************************************************************)
EXTENDS ServerProperties, TLAPS

-----------------------------------------------------------------------------
(* The steps, sorted by what they change.                                  *)

(* Between accept and the end of run(), a server holds a new connection.   *)
Starting == {"register", "run", "spawn", "assign"}

(* A server that is opening its socket or going around its accept loop.    *)
Listening == {"setup", "configure", "check", "accept", "accepting"}

(* A connection thread from its first statement until it deregisters.      *)
Roaming == ConnPcs \ {"unborn", "enqueue", "unlock", "dead"}

Roams(c) ==
    /\ pc[c] \in Roaming
    /\ \E q \in Roaming : pc' = [pc EXCEPT ![c] = q]
    /\ UNCHANGED <<fault, sharedVars>>

Fails(reasons) ==
    /\ fault' \in reasons
    /\ UNCHANGED <<pc, sharedVars>>

Listens(s) ==
    /\ pc[s] \in Listening
    /\ \E q \in Listening \cup {"dead"} : pc' = [pc EXCEPT ![s] = q]
    /\ UNCHANGED <<life, bRunning, joinable, fault, newConn, deleterVars,
                   baseVars, connVars>>

(* A signal moves the thread of one worker on, or finds it awake.          *)
Wakes == \E w \in Workers : pc' = [pc EXCEPT ![w] = Woken(w)]

(* A handler moves nothing but flags, sockets, sleeping threads and        *)
(* itself, and empties sets.                                               *)
Stops ==
    /\ pc' = pc \/ Wakes
    /\ \A s \in Servers : connections'[s] = connections[s] \/ connections'[s] = {}
    /\ UNCHANGED <<life, joinable, queue, completed, taken, connsetMutex,
                   destroyed, connVars, newConn, mainVars>>

LEMMA WorkersDiffer ==
    /\ Servers = {Modbus, Tcp} /\ Modbus \in Servers /\ Tcp \in Servers
    /\ Modbus # Tcp /\ Deleter # Modbus /\ Deleter # Tcp
    /\ Conns \cap Servers = {} /\ Deleter \notin Conns /\ Deleter \notin Servers
    /\ NoConn \notin Conns /\ NoConn \notin Servers
    /\ Conns \subseteq Workers /\ Servers \subseteq Workers /\ Deleter \in Workers
    /\ \A c \in Conns : c \in Nat
    /\ Main \notin Workers /\ Workers \subseteq Threads
BY WorkerAssumption, BoundsAssumption DEF Servers, NoConn, Workers, Threads

(* A step of a connection thread roams, fails, or deregisters.             *)
LEMMA ConnectionKinds ==
    ASSUME NEW c \in Conns, ThreadsTyped, ConnectionStep(c)
    PROVE  \/ Roams(c)
           \/ Fails({"uncaught exception", "used a destroyed server"})
           \/ DeregisterConnection(c)
<1> USE DEF Roams, Fails, Roaming, ConnPcs, Goto, Fail, Waits
<1>1. CASE TcpStart(c)
  BY <1>1 DEF TcpStart
<1>2. CASE \E body \in {"cmd", "select"} : Check(c, body)
  BY <1>2 DEF Check
<1>3. CASE ReadCmd(c)
  BY <1>3 DEF ReadCmd
<1>4. CASE ReadArg(c)
  BY <1>4 DEF ReadArg
<1>5. CASE PeerGoneWakes(c)
  BY <1>5 DEF PeerGoneWakes, ResumeAt
<1>6. CASE Serve(c)
  BY <1>6 DEF Serve
<1>7. CASE ModbusStart(c)
  BY <1>7 DEF ModbusStart
<1>8. CASE Select(c)
  BY <1>8 DEF Select
<1>9. CASE SelectEof(c)
  BY <1>9 DEF SelectEof
<1>10. CASE Handle(c)
  BY <1>10 DEF Handle
<1>11. CASE DeregisterOnDestroyed(c) \/ HandleOnDestroyed(c)
  BY <1>11 DEF DeregisterOnDestroyed, HandleOnDestroyed
<1>12. CASE Receive(c)
  BY <1>12 DEF Receive
<1>13. CASE ReceiveEof(c)
  BY <1>13 DEF ReceiveEof, ReceiveEnds
<1> QED
  BY <1>1, <1>2, <1>3, <1>4, <1>5, <1>6, <1>7, <1>8, <1>9, <1>10, <1>11, <1>12, <1>13
     DEF ConnectionStep

LEMMA ClientKinds ==
    ASSUME NEW c \in Conns, ClientStep(c)
    PROVE  \/ Roams(c)
           \/ Fails({"used a destroyed server"})
           \/ /\ life[c] = "live"
              /\ peer' = [peer EXCEPT ![c] = "gone"]
              /\ UNCHANGED <<workerVars, deleterVars, baseVars, owner>>
<1> USE DEF Roams, Fails, Roaming, ConnPcs, Goto, Fail
<1>1. CASE PeerServes(c) \/ SelectReadable(c)
  BY <1>1 DEF PeerServes, SelectReadable
<1>2. CASE ReceiveData(c)
  BY <1>2 DEF ReceiveData, ReceiveEnds
<1> QED BY <1>1, <1>2 DEF ClientStep, workerVars

(* A step of a server's thread listens, fails, or starts a connection.     *)
LEMMA AcceptorKinds ==
    ASSUME NEW s \in Servers, ThreadsTyped, AcceptorStep(s)
    PROVE  \/ Listens(s)
           \/ /\ Fails({"uncaught exception", "assigned to a deleted worker"})
              /\ UNCHANGED newConn
           \/ Register(s) \/ RunFlag(s) \/ RunSpawn(s)
           \/ RunAssign(s) /\ life[newConn[s]] = "live"
<1> USE DEF Listens, Fails, Listening, Goto, Fail, Quiet, sharedVars
<1>1. CASE Setup(s)
  BY <1>1 DEF Setup
<1>2. CASE s = Tcp /\ Configure
  BY <1>2 DEF Configure
<1>3. CASE AcceptTop(s)
  BY <1>3 DEF AcceptTop
<1>4. CASE AcceptEnter(s)
  BY <1>4 DEF AcceptEnter
<1>5. CASE RunAssign(s)
  BY <1>5 DEF RunAssign
<1> QED BY <1>1, <1>2, <1>3, <1>4, <1>5 DEF AcceptorStep

(* A handler's steps stop things and change nothing else. *)
LEMMA HandlerKinds ==
    ASSUME TypeOK, NEW t \in Threads, HandlerStep(t)
    PROVE  Stops
<1>1. UNCHANGED <<queue, completed, taken, connsetMutex, destroyed, connVars, newConn, mainVars>>
  BY DEF HandlerStep, deleterVars
<1>2. SUFFICES /\ UNCHANGED <<life, joinable>>
               /\ pc' = pc \/ Wakes
               /\ connections' = connections \/ StopClear(t)
  BY <1>1, WorkersDiffer DEF Stops, StopClear, TypeOK, ServersTyped, HandlerTyped
<1>3. CASE StopFlag(t) \/ StopClose(t) \/ StopNext(t) \/ StopDeleted(t) \/ StopConnFlag(t)
             \/ StopConnClose(t) \/ StopMissing(t) \/ StopRaces(t) \/ StopOnDestroyed(t)
  <2>1. connections' = connections \/ StopClear(t)
    BY DEF HandlerStep
  <2> QED
    BY <1>3, <2>1 DEF StopFlag, StopClose, StopNext, StopDeleted, StopConnFlag,
       StopConnClose, StopMissing, StopRaces, StopOnDestroyed
<1>4. CASE StopCancel(t) \/ StopConnCancel(t)
  <2>1. /\ UNCHANGED <<life, joinable>>
        /\ CancelIO(hOn[t]) \/ CancelIO(hCur[t])
    BY <1>4 DEF StopCancel, StopConnCancel
  <2>2. connections' = connections \/ StopClear(t)
    BY DEF HandlerStep
  <2> QED BY <2>1, <2>2 DEF CancelIO, Wakes, TypeOK, ObjectsTyped
<1>5. CASE StopClear(t)
  BY <1>5 DEF StopClear, workerVars
<1> QED BY <1>3, <1>4, <1>5 DEF HandlerStep, StopStep

LEMMA InterruptWakes ==
    ASSUME NEW t \in SignalThreads, Interrupt(t)
    PROVE  pc' = pc \/ Wakes
BY BoundsAssumption DEF Interrupt, Wakes, Threads

-----------------------------------------------------------------------------
(* Descriptors: a step opens a socket, closes one, goes to sleep on one,   *)
(* or leaves the table alone.                                              *)
FilesMove ==
    \/ UNCHANGED fileVars
    \/ \E w \in Sockets :
          OpenSocket(w) \/ (SocketOf(w) \in Sockets /\ SleepOn(w, SocketOf(w)))
    \/ \E w : \E forgets \in BOOLEAN : CloseSocket(w, forgets)

LEMMA NewAreFree == NewNumbers \subseteq FreeNumbers
<1> DEFINE unkept == FreeNumbers \ {fd[w] : w \in Sockets}
<1>1. unkept # {} => (CHOOSE n \in unkept : TRUE) \in unkept
  OBVIOUS
<1> QED BY <1>1, Zenon DEF NewNumbers

LEMMA FilesMoveTyped ==
    ASSUME FilesTyped, FilesMove
    PROVE  FilesTyped'
<1> USE DEF FilesTyped
<1>1. CASE UNCHANGED fileVars
  BY <1>1 DEF fileVars
<1>2. ASSUME NEW w \in Sockets, OpenSocket(w) PROVE FilesTyped'
  <2>1. NewNumbers \subseteq Numbers
    BY NewAreFree DEF FreeNumbers
  <2> QED BY <1>2, <2>1 DEF OpenSocket
<1>3. ASSUME NEW w \in Sockets, SocketOf(w) \in Sockets, SleepOn(w, SocketOf(w))
      PROVE  FilesTyped'
  BY <1>3 DEF SleepOn
<1>4. ASSUME NEW w, NEW forgets \in BOOLEAN, CloseSocket(w, forgets)
      PROVE  FilesTyped'
  BY <1>4 DEF CloseSocket
<1> QED BY <1>1, <1>2, <1>3, <1>4 DEF FilesMove

LEMMA SocketOfTyped ==
    ASSUME FilesTyped, NEW w \in Sockets
    PROVE  SocketOf(w) \in Sockets \cup {NoConn}
BY DEF FilesTyped, SocketOf

LEMMA ConnectionFiles ==
    ASSUME FilesTyped, NEW c \in Conns, ConnectionStep(c)
    PROVE  FilesTyped'
<1>1. SUFFICES \/ UNCHANGED fileVars
               \/ SocketOf(c) \in Sockets /\ SleepOn(c, SocketOf(c))
  BY FilesMoveTyped DEF FilesMove, Sockets
<1>2. c \in Sockets /\ Conns \subseteq Sockets
  BY DEF Sockets
<1>3. CASE ReadCmd(c) \/ ReadArg(c) \/ Serve(c)
  BY <1>2, <1>3 DEF ReadCmd, ReadArg, Serve, Waits
<1>4. CASE Select(c) \/ Receive(c) \/ Handle(c)
  BY <1>2, <1>4, SocketOfTyped DEF Select, Receive, Handle, Waits
<1>5. CASE TcpStart(c) \/ Check(c, "cmd") \/ PeerGoneWakes(c) \/ ModbusStart(c)
             \/ Check(c, "select") \/ SelectEof(c) \/ HandleOnDestroyed(c)
             \/ ReceiveEof(c) \/ DeregisterOnDestroyed(c) \/ DeregisterConnection(c)
  BY <1>5 DEF TcpStart, Check, PeerGoneWakes, ModbusStart, SelectEof, HandleOnDestroyed,
     ReceiveEof, ReceiveEnds, DeregisterOnDestroyed, DeregisterConnection
<1> QED BY <1>3, <1>4, <1>5 DEF ConnectionStep

LEMMA AcceptorFiles ==
    ASSUME FilesTyped, NEW s \in Servers, AcceptorStep(s)
    PROVE  FilesTyped'
<1>1. SUFFICES FilesMove
  BY FilesMoveTyped
<1>2. s \in Sockets /\ Servers \subseteq Sockets
  BY DEF Sockets
<1>3. CASE Setup(s) \/ AcceptEnter(s)
  BY <1>2, <1>3 DEF Setup, AcceptEnter, FilesMove
<1>4. CASE Configure \/ AcceptTop(s) \/ Register(s) \/ RunFlag(s) \/ RunSpawn(s) \/ RunAssign(s)
  BY <1>4 DEF Configure, AcceptTop, Register, RunFlag, RunSpawn, RunAssign, FilesMove
<1> QED BY <1>3, <1>4 DEF AcceptorStep

LEMMA HandlerFiles ==
    ASSUME FilesTyped, NEW t \in Threads, HandlerStep(t)
    PROVE  FilesTyped'
<1>1. SUFFICES \/ UNCHANGED fileVars
               \/ CloseSocket(hOn[t], hOn[t] = Tcp)
               \/ CloseSocket(hCur[t], owner[hCur[t]] = Tcp)
  <2>1. (hOn[t] = Tcp) \in BOOLEAN /\ (owner[hCur[t]] = Tcp) \in BOOLEAN
    OBVIOUS
  <2> QED BY <2>1, FilesMoveTyped, Zenon DEF FilesMove
<1> QED
  BY DEF HandlerStep, StopStep, StopFlag, StopClose, StopCancel, StopNext, StopDeleted,
     StopConnFlag, StopConnClose, StopConnCancel, StopMissing, StopRaces, StopClear,
     StopOnDestroyed

LEMMA EnvironmentFiles ==
    ASSUME FilesTyped, Environment
    PROVE  FilesTyped'
<1>1. SUFFICES FilesMove
  BY FilesMoveTyped
<1>2. ASSUME NEW c \in Conns, ClientStep(c) PROVE FilesMove
  BY <1>2 DEF ClientStep, PeerServes, SelectReadable, ReceiveData, ReceiveEnds, FilesMove
<1>3. ASSUME NEW s \in Servers, NEW c \in Conns, Accept(s, c) PROVE FilesMove
  BY <1>3 DEF Accept, FilesMove, Sockets
<1>4. ASSUME NEW t \in SignalThreads, Interrupt(t) PROVE FilesMove
  BY <1>4 DEF Interrupt, FilesMove
<1> QED BY <1>2, <1>3, <1>4 DEF Environment

-----------------------------------------------------------------------------
(* Types.  A server that is starting a connection knows which.             *)
NewConnTyped ==
    \A s \in Servers : pc[s] \in Starting => newConn[s] \in Conns

TInv == TypeOK /\ NewConnTyped

LEMMA ConnMoveTyped ==
    ASSUME ThreadsTyped, NEW c \in Conns, NEW q \in ConnPcs,
           pc' = [pc EXCEPT ![c] = q]
    PROVE  ThreadsTyped' /\ \A s \in Servers : pc'[s] = pc[s]
BY WorkersDiffer DEF ThreadsTyped

LEMMA ServerMoveTyped ==
    ASSUME ThreadsTyped, NEW s \in Servers, NEW q \in ServerPcs,
           pc' = [pc EXCEPT ![s] = q]
    PROVE  ThreadsTyped'
BY WorkersDiffer DEF ThreadsTyped

LEMMA DeleterMoveTyped ==
    ASSUME ThreadsTyped, NEW q \in DeleterPcs,
           pc' = [pc EXCEPT ![Deleter] = q]
    PROVE  ThreadsTyped' /\ \A w \in Conns \cup Servers : pc'[w] = pc[w]
BY WorkersDiffer DEF ThreadsTyped

LEMMA WakeTyped ==
    ASSUME ThreadsTyped, Wakes
    PROVE  /\ ThreadsTyped'
           /\ \A w \in Workers :
                pc'[w] # pc[w] => pc[w] \in DOMAIN ResumeAt /\ pc'[w] = ResumeAt[pc[w]]
<1> PICK w \in Workers :
        pc' = [pc EXCEPT ![w] = IF pc[w] \in DOMAIN ResumeAt THEN ResumeAt[pc[w]] ELSE pc[w]]
  BY DEF Wakes, Woken
<1>1. CASE pc[w] \notin DOMAIN ResumeAt
  BY <1>1 DEF ThreadsTyped
<1>2. CASE pc[w] \in DOMAIN ResumeAt /\ w \in Conns
  BY <1>2, WorkersDiffer DEF ThreadsTyped, ResumeAt, ConnPcs
<1>3. CASE pc[w] \in DOMAIN ResumeAt /\ w \in Servers
  BY <1>3, WorkersDiffer DEF ThreadsTyped, ResumeAt, ServerPcs
<1>4. pc[Deleter] \notin DOMAIN ResumeAt
  BY DEF ThreadsTyped, DeleterPcs, ResumeAt
<1> QED BY <1>1, <1>2, <1>3, <1>4 DEF Workers

LEMMA TInvInit == Init => TInv
<1> SUFFICES ASSUME Init PROVE TInv
  OBVIOUS
<1>1. HandlerTyped
  BY DEF Init, HandlerTyped, HandlerPcs, Servers
<1>2. FilesTyped
  BY DEF Init, DescriptorInit, FilesTyped
<1>3. MainTyped
  BY DEF Init, MainTyped, Servers
<1> USE WorkersDiffer DEF Init, WorkerInit, DeleterInit, BaseInit, ConnectionInit,
        AcceptorInit
<1>4. ThreadsTyped
  BY DEF ThreadsTyped, ServerPcs, ConnPcs, DeleterPcs
<1>5. ObjectsTyped
  BY DEF ObjectsTyped, Faults
<1>6. QueueTyped
  <2>1. queue \in Seq(Conns)
    OBVIOUS
  <2> QED BY <2>1 DEF QueueTyped
<1>7. ServersTyped
  BY DEF ServersTyped
<1>8. NewConnTyped
  BY DEF NewConnTyped, Starting
<1> QED BY <1>4, <1>5, <1>6, <1>7, <1>3, <1>8, <1>1, <1>2 DEF TInv, TypeOK

LEMMA TInvConnection ==
    ASSUME TInv, NEW c \in Conns, Connecting(c)
    PROVE  TInv'
<1> USE DEF TInv, TypeOK
<1>1. MainTyped' /\ HandlerTyped' /\ FilesTyped' /\ UNCHANGED newConn
  BY ConnectionFiles DEF Connecting, MainTyped, HandlerTyped, mainVars, handlerVars
<1>2. CASE Roams(c)
  <2>1. ThreadsTyped' /\ NewConnTyped'
    BY <1>1, <1>2, ConnMoveTyped DEF Roams, Roaming, NewConnTyped
  <2>2. ObjectsTyped' /\ QueueTyped' /\ ServersTyped'
    BY <1>1, <1>2 DEF Roams, sharedVars, ObjectsTyped, QueueTyped, ServersTyped,
       deleterVars, baseVars, connVars
  <2> QED BY <1>1, <2>1, <2>2
<1>3. CASE Fails({"uncaught exception", "used a destroyed server"})
  <2>1. ThreadsTyped' /\ NewConnTyped' /\ QueueTyped' /\ ServersTyped'
    BY <1>1, <1>3 DEF Fails, sharedVars, ThreadsTyped, NewConnTyped, QueueTyped,
       ServersTyped, deleterVars, baseVars, connVars
  <2>2. ObjectsTyped'
    BY <1>3 DEF Fails, sharedVars, ObjectsTyped, Faults
  <2> QED BY <1>1, <2>1, <2>2
<1>4. CASE DeregisterConnection(c)
  <2>1. ThreadsTyped' /\ NewConnTyped'
    BY <1>1, <1>4, ConnMoveTyped DEF DeregisterConnection, Goto, NewConnTyped, ConnPcs
  <2>2. ObjectsTyped'
    BY <1>4 DEF DeregisterConnection, ObjectsTyped
  <2>3. QueueTyped'
    BY <1>4 DEF DeregisterConnection, DeleteWorker, QueueTyped, deleterVars
  <2>4. ServersTyped'
    BY <1>1, <1>4 DEF DeregisterConnection, DeregisterErase, DeregisterUnlock,
       ServersTyped, baseVars, connVars
  <2> QED BY <1>1, <2>1, <2>2, <2>3, <2>4
<1> QED BY <1>2, <1>3, <1>4, ConnectionKinds DEF Connecting

LEMMA TInvAcceptor ==
    ASSUME TInv, NEW s \in Servers, Accepting(s)
    PROVE  TInv'
<1> USE DEF TInv, TypeOK
<1>1. MainTyped' /\ HandlerTyped' /\ FilesTyped'
  BY AcceptorFiles DEF Accepting, MainTyped, HandlerTyped, mainVars, handlerVars
<1>2. ASSUME NEW q \in ServerPcs, pc' = [pc EXCEPT ![s] = q], newConn' = newConn,
             q \in Starting => newConn[s] \in Conns
      PROVE  ThreadsTyped' /\ NewConnTyped'
  BY <1>2, ServerMoveTyped, WorkersDiffer DEF NewConnTyped, ThreadsTyped
<1>3. CASE Listens(s)
  <2>1. ThreadsTyped' /\ NewConnTyped'
    BY <1>2, <1>3 DEF Listens, Listening, Starting, ServerPcs
  <2>2. ObjectsTyped' /\ QueueTyped' /\ ServersTyped'
    BY <1>3 DEF Listens, ObjectsTyped, QueueTyped, ServersTyped,
       deleterVars, baseVars, connVars
  <2> QED BY <1>1, <2>1, <2>2
<1>4. CASE /\ Fails({"uncaught exception", "assigned to a deleted worker"})
           /\ UNCHANGED newConn
  <2>1. ThreadsTyped' /\ NewConnTyped' /\ QueueTyped' /\ ServersTyped'
    BY <1>4 DEF Fails, sharedVars, ThreadsTyped, NewConnTyped, QueueTyped,
       ServersTyped, deleterVars, baseVars, connVars
  <2>2. ObjectsTyped'
    BY <1>4 DEF Fails, sharedVars, ObjectsTyped, Faults
  <2> QED BY <1>1, <2>1, <2>2
<1>5. CASE Register(s) \/ RunFlag(s)
  <2>1. newConn[s] \in Conns
    BY <1>5 DEF Register, RunFlag, Goto, NewConnTyped, Starting
  <2>2. ThreadsTyped' /\ NewConnTyped'
    BY <1>2, <1>5, <2>1 DEF Register, RunFlag, Goto, ServerPcs
  <2>3. ObjectsTyped'
    BY <1>5, <2>1 DEF Register, RunFlag, SetRunning, ObjectsTyped
  <2>4. QueueTyped' /\ ServersTyped'
    BY <1>5, <2>1 DEF Register, RegisterConnection, RunFlag, Quiet, QueueTyped,
       ServersTyped, deleterVars, baseVars, connVars
  <2> QED BY <1>1, <2>2, <2>3, <2>4
<1>6. CASE RunSpawn(s)
  <2>1. newConn[s] \in Conns /\ newConn' = newConn
    BY <1>6 DEF RunSpawn, NewConnTyped, Starting
  <2>2. ThreadsTyped' /\ NewConnTyped'
    BY <1>6, <2>1, WorkersDiffer
       DEF RunSpawn, ThreadsTyped, NewConnTyped, Starting, ServerPcs, ConnPcs
  <2>3. ObjectsTyped' /\ QueueTyped' /\ ServersTyped'
    BY <1>6 DEF RunSpawn, Quiet, ObjectsTyped, QueueTyped, ServersTyped,
       deleterVars, baseVars, connVars
  <2> QED BY <1>1, <2>2, <2>3
<1>7. CASE RunAssign(s) /\ life[newConn[s]] = "live"
  <2>1. newConn[s] \in Conns
    BY <1>7 DEF RunAssign, NewConnTyped, Starting
  <2>2. /\ Goto(s, "assign", "check")
        /\ AssignThread(newConn[s])
        /\ newConn' = [newConn EXCEPT ![s] = NoConn]
        /\ UNCHANGED <<fault, life, bRunning>> /\ Quiet
    BY <1>7 DEF RunAssign
  <2>3. ThreadsTyped'
    BY <2>2, ServerMoveTyped DEF Goto, ServerPcs
  <2>4. NewConnTyped'
    BY <2>2 DEF Goto, NewConnTyped, ThreadsTyped, ServersTyped, Starting, Workers
  <2>5. ObjectsTyped'
    BY <2>1, <2>2 DEF AssignThread, ObjectsTyped, Workers
  <2>6. QueueTyped' /\ ServersTyped'
    BY <2>2 DEF Quiet, QueueTyped, ServersTyped, deleterVars, baseVars, connVars
  <2> QED BY <1>1, <2>3, <2>4, <2>5, <2>6
<1> QED BY <1>3, <1>4, <1>5, <1>6, <1>7, AcceptorKinds DEF Accepting

LEMMA TInvDeleter ==
    ASSUME TInv, Deleting
    PROVE  TInv'
<1> USE DEF TInv, TypeOK
<1>1. /\ MainTyped' /\ HandlerTyped' /\ ServersTyped' /\ FilesTyped'
      /\ UNCHANGED <<newConn, completed>>
  <2>1. UNCHANGED <<baseVars, connVars, newConn, mainVars, handlerVars>>
    BY DEF Deleting, DeleterStep
  <2>2. UNCHANGED completed
    BY DEF Deleting, DeleterStep, DeleterTop, DeleterTake, DeleterWait,
       DeleterDelete, deleterVars
  <2>3. FilesTyped'
    <3>1. FilesMove
      BY DEF Deleting, DeleterStep, DeleterTop, DeleterTake, DeleterWait,
         DeleterDelete, FilesMove
    <3> QED BY <3>1, FilesMoveTyped
  <2> QED
    BY <2>1, <2>2, <2>3 DEF MainTyped, HandlerTyped, ServersTyped, baseVars, connVars,
       mainVars, handlerVars
<1>2. ASSUME NEW q \in DeleterPcs, pc' = [pc EXCEPT ![Deleter] = q]
      PROVE  ThreadsTyped' /\ NewConnTyped'
  BY <1>1, <1>2, DeleterMoveTyped DEF NewConnTyped
<1>3. CASE DeleterTop
  BY <1>1, <1>2, <1>3 DEF DeleterTop, Goto, DeleterPcs, ObjectsTyped, QueueTyped, deleterVars
<1>4. CASE DeleterTake
  <2>1. ThreadsTyped' /\ NewConnTyped' /\ ObjectsTyped'
    BY <1>2, <1>4 DEF DeleterTake, Goto, DeleterPcs, ObjectsTyped
  <2>2. QueueTyped'
    BY <1>1, <1>4 DEF DeleterTake, QueueTyped
  <2> QED BY <1>1, <2>1, <2>2
<1>5. CASE DeleterWait
  <2>1. ThreadsTyped' /\ NewConnTyped'
    BY <1>2, <1>5 DEF DeleterWait, Goto, DeleterPcs
  <2>2. ObjectsTyped' /\ QueueTyped'
    BY <1>5 DEF DeleterWait, Wait, ObjectsTyped, QueueTyped, deleterVars
  <2> QED BY <1>1, <2>1, <2>2
<1>6. ASSUME NEW c \in Conns, taken = c, DeleterDelete(owner[c] = Tcp)
      PROVE  TInv'
  <2>1. ThreadsTyped' /\ NewConnTyped'
    BY <1>1, <1>2, <1>6 DEF DeleterDelete, Goto, DeleterPcs, ThreadsTyped, NewConnTyped
  <2>2. ObjectsTyped'
    BY <1>6 DEF DeleterDelete, Fail, ObjectsTyped, Faults
  <2>3. QueueTyped'
    BY <1>6 DEF DeleterDelete, QueueTyped
  <2> QED BY <1>1, <2>1, <2>2, <2>3
<1> QED BY <1>3, <1>4, <1>5, <1>6 DEF Deleting, DeleterStep

LEMMA TInvMain ==
    ASSUME TInv, Maining
    PROVE  TInv'
<1> USE DEF TInv, TypeOK
<1>1. HandlerTyped' /\ FilesTyped' /\ UNCHANGED newConn
  BY DEF Maining, MainStep, HandlerTyped, handlerVars, FilesTyped, fileVars, MainRun,
     MainSpawn, MainAssign, MainWait, MainStop, MainReturn, MainExit
<1>2. /\ UNCHANGED <<connections, connsetMutex, connVars>>
      /\ destroyed' \in BOOLEAN
  BY DEF Maining, MainStep, ServersTyped, MainRun, MainSpawn, MainAssign,
     MainWait, MainStop, MainReturn, MainExit
<1>3. ServersTyped'
  BY <1>1, <1>2 DEF ServersTyped, connVars
<1>4. CASE pc' = pc
  <2>1. ThreadsTyped' /\ NewConnTyped'
    BY <1>1, <1>4 DEF ThreadsTyped, NewConnTyped
  <2>2. QueueTyped'
    BY DEF Maining, MainStep, MainRun, MainSpawn, MainAssign, MainWait, MainStop,
       MainReturn, MainExit, StopDeleter, QueueTyped, deleterVars
  <2>3. MainTyped'
    BY DEF Maining, MainStep, MainRun, MainSpawn, MainAssign, MainWait, MainStop,
       MainReturn, MainExit, MainGoto, MainTyped, After, Servers
  <2>4. ObjectsTyped'
    BY DEF Maining, MainStep, MainRun, MainSpawn, MainAssign, MainWait, MainStop,
       MainReturn, MainExit, StopDeleter, SetRunning, AssignThread, ClearRunning,
       Wait, MainTyped, ObjectsTyped, Workers, workerVars
  <2> QED BY <1>1, <1>3, <2>1, <2>2, <2>3, <2>4
<1>5. CASE MainSpawn
  <2>1. ThreadsTyped' /\ NewConnTyped'
    BY <1>1, <1>5, WorkersDiffer
       DEF MainSpawn, ThreadsTyped, NewConnTyped, MainTyped, ServerPcs, DeleterPcs,
           Starting
  <2>2. ObjectsTyped' /\ QueueTyped' /\ MainTyped'
    BY <1>5 DEF MainSpawn, MainGoto, ObjectsTyped, QueueTyped, MainTyped, deleterVars
  <2> QED BY <1>1, <1>3, <2>1, <2>2
<1> QED
  BY <1>4, <1>5 DEF Maining, MainStep, MainRun, MainAssign, MainWait, MainStop,
     MainReturn, MainExit, workerVars

LEMMA TInvHandler ==
    ASSUME TInv, NEW t \in Threads, Handling(t)
    PROVE  TInv'
<1> USE DEF TInv, TypeOK
<1>1. Stops
  BY HandlerKinds DEF Handling
<1>2. ThreadsTyped' /\ NewConnTyped'
  <2>1. CASE pc' = pc
    BY <1>1, <2>1 DEF Stops, ThreadsTyped, NewConnTyped
  <2>2. CASE Wakes
    BY <1>1, <2>2, WakeTyped, WorkersDiffer
       DEF Stops, NewConnTyped, ResumeAt, Starting
  <2> QED BY <1>1, <2>1, <2>2 DEF Stops
<1>3. QueueTyped' /\ MainTyped' /\ FilesTyped'
  BY <1>1, HandlerFiles DEF Stops, QueueTyped, MainTyped, mainVars, Handling
<1>4. ServersTyped'
  <2>1. connections' \in [Servers -> SUBSET Conns]
    <3>1. connections' = connections \/ connections' = [connections EXCEPT ![hOn[t]] = {}]
      BY DEF Handling, HandlerStep, StopClear
    <3> QED BY <3>1 DEF ServersTyped
  <2> QED BY <1>1, <2>1 DEF Stops, ServersTyped, connVars
<1> USE DEF Handling, HandlerStep, StopStep, StopFlag, StopClose, StopCancel, StopNext,
        StopDeleted, StopConnFlag, StopConnClose, StopConnCancel, StopMissing,
        StopRaces, StopOnDestroyed, StopClear
<1>5. ObjectsTyped'
  <2>1. UNCHANGED <<life, joinable>>
    BY <1>1 DEF Stops
  <2>2. bRunning' \in [Workers -> BOOLEAN]
    BY DEF ObjectsTyped, ClearRunning, workerVars
  <2>3. fault' \in Faults
    BY DEF ObjectsTyped, Fail, Faults, CancelMissing, workerVars
  <2> QED BY <2>1, <2>2, <2>3 DEF ObjectsTyped
<1>6. HandlerTyped'
  <2>1. hPc' \in [Threads -> HandlerPcs]
    BY DEF HandlerTyped, HandlerGoto, HandlerPcs, handlerVars
  <2>2. hOn' \in [Threads -> Servers] /\ signals' = signals
    BY DEF HandlerTyped, Servers, handlerVars
  <2>3. hCur' \in [Threads -> Conns \cup {NoConn}]
    <3>1. \/ hCur' = hCur
          \/ \E c \in Conns \cup {NoConn} : hCur' = [hCur EXCEPT ![t] = c]
      BY DEF HandlerTyped, ServersTyped, Following, handlerVars
    <3> QED BY <3>1 DEF HandlerTyped
  <2> QED BY <2>1, <2>2, <2>3 DEF HandlerTyped
<1> QED BY <1>2, <1>3, <1>4, <1>5, <1>6

LEMMA TInvEnvironment ==
    ASSUME TInv, Environment
    PROVE  TInv'
<1> USE DEF TInv, TypeOK
<1>1. MainTyped' /\ FilesTyped'
  BY EnvironmentFiles DEF Environment, MainTyped, mainVars
<1>2. ASSUME NEW c \in Conns, ClientStep(c), UNCHANGED <<newConn, mainVars, handlerVars>>
      PROVE  TInv'
  <2>1. HandlerTyped' /\ UNCHANGED newConn
    BY <1>2 DEF HandlerTyped, handlerVars
  <2>2. CASE Roams(c)
    <3>1. ThreadsTyped' /\ NewConnTyped'
      BY <2>1, <2>2, ConnMoveTyped DEF Roams, Roaming, NewConnTyped
    <3>2. ObjectsTyped' /\ QueueTyped' /\ ServersTyped'
      BY <2>1, <2>2 DEF Roams, sharedVars, ObjectsTyped, QueueTyped, ServersTyped,
         deleterVars, baseVars, connVars
    <3> QED BY <1>1, <2>1, <3>1, <3>2
  <2>3. CASE Fails({"used a destroyed server"})
    <3>1. ThreadsTyped' /\ NewConnTyped' /\ QueueTyped' /\ ServersTyped'
      BY <2>1, <2>3 DEF Fails, sharedVars, ThreadsTyped, NewConnTyped, QueueTyped,
         ServersTyped, deleterVars, baseVars, connVars
    <3>2. ObjectsTyped'
      BY <2>3 DEF Fails, sharedVars, ObjectsTyped, Faults
    <3> QED BY <1>1, <2>1, <3>1, <3>2
  <2>4. CASE /\ peer' = [peer EXCEPT ![c] = "gone"]
             /\ UNCHANGED <<workerVars, deleterVars, baseVars, owner>>
    BY <1>1, <2>1, <2>4
       DEF ThreadsTyped, NewConnTyped, ObjectsTyped, QueueTyped, ServersTyped,
           workerVars, deleterVars, baseVars
  <2> QED BY <1>2, <2>2, <2>4, <2>3, ClientKinds
<1>3. ASSUME NEW s \in Servers, NEW c \in Conns, Accept(s, c),
             UNCHANGED <<mainVars, handlerVars>>
      PROVE  TInv'
  <2>1. HandlerTyped'
    BY <1>3 DEF HandlerTyped, handlerVars
  <2>2. ThreadsTyped'
    BY <1>3, ServerMoveTyped DEF Accept, Goto, ServerPcs
  <2>3. NewConnTyped'
    BY <1>3, WorkersDiffer DEF Accept, Goto, NewConnTyped, ThreadsTyped, ServersTyped
  <2>4. ObjectsTyped' /\ QueueTyped'
    BY <1>3 DEF Accept, ObjectsTyped, QueueTyped, deleterVars
  <2>5. ServersTyped'
    BY <1>3 DEF Accept, ServersTyped, baseVars
  <2> QED BY <1>1, <2>1, <2>2, <2>3, <2>4, <2>5
<1>4. ASSUME NEW t \in SignalThreads, Interrupt(t),
             UNCHANGED <<deleterVars, baseVars, connVars, newConn, mainVars>>
      PROVE  TInv'
  <2>1. HandlerTyped'
    BY <1>4, BoundsAssumption DEF Interrupt, HandlerGoto, HandlerTyped, HandlerPcs, Servers
  <2>2. pc' = pc \/ Wakes
    BY <1>4, InterruptWakes
  <2>3. ThreadsTyped' /\ NewConnTyped'
    <3>1. CASE pc' = pc
      BY <1>4, <3>1 DEF ThreadsTyped, NewConnTyped
    <3>2. CASE Wakes
      BY <1>4, <3>2, WakeTyped, WorkersDiffer DEF NewConnTyped, ResumeAt, Starting
    <3> QED BY <2>2, <3>1, <3>2
  <2> QED
    BY <1>1, <1>4, <2>1, <2>3
       DEF Interrupt, ObjectsTyped, QueueTyped, ServersTyped, deleterVars, baseVars, connVars
<1> QED BY <1>2, <1>3, <1>4 DEF Environment

LEMMA TInvNext == TInv /\ [Next]_vars => TInv'
<1> SUFFICES ASSUME TInv, [Next]_vars PROVE TInv'
  OBVIOUS
<1>1. CASE UNCHANGED vars
  BY <1>1 DEF vars, TInv, TypeOK, ThreadsTyped, NewConnTyped, ObjectsTyped,
     QueueTyped, ServersTyped, MainTyped, HandlerTyped, FilesTyped, workerVars,
     fileVars, deleterVars, baseVars, connVars, mainVars, handlerVars
<1> QED
  BY <1>1, TInvConnection, TInvAcceptor, TInvDeleter, TInvMain, TInvHandler,
     TInvEnvironment DEF Next, Over

(* Every variable keeps its type, whatever the threads, the clients and    *)
(* the signals do.                                                         *)
THEOREM TypeCorrect == Spec => []TypeOK
<1>1. TInv => TypeOK
  BY DEF TInv
<1> QED BY <1>1, TInvInit, TInvNext, PTL DEF Spec

-----------------------------------------------------------------------------
(* main starts the three workers in order, and stops the deleter only when *)
(* both servers have ended.                                                *)
MainInv ==
    /\ mainPc \in {"run", "spawn"} => pc[mainOn] = "unborn"
    /\ mainPc \in {"run", "spawn", "assign"} =>
         /\ mainOn = Modbus => pc[Tcp] = "unborn"
         /\ mainOn # Deleter => pc[Deleter] = "unborn"
         /\ mainOn # Modbus => Modbus \in joinable
         /\ mainOn = Deleter => Tcp \in joinable
    /\ mainPc = "wait" =>
         /\ IF mainOn = Modbus THEN Modbus \in joinable ELSE pc[Modbus] = "dead"
         /\ IF mainOn # Deleter THEN Tcp \in joinable ELSE pc[Tcp] = "dead"
    /\ mainPc = "stop" => mainOn = Deleter
    /\ mainPc \in {"stop", "return", "exit", "exited"} =>
         \A s \in Servers : pc[s] = "dead"
    /\ completed =>
         mainPc \in {"return", "exit", "exited"} \/ (mainPc = "wait" /\ mainOn = Deleter)

NewConnInv == \A s \in Servers : newConn[s] # NoConn => pc[s] \in Starting

(* What the threads other than main do to the facts MainInv is about.      *)
MainFrame ==
    /\ UNCHANGED <<mainPc, mainOn, completed>>
    /\ \A w \in Servers \cup {Deleter} : pc[w] = "unborn" => pc'[w] = "unborn"
    /\ \A s \in Servers : pc[s] = "dead" => pc'[s] = "dead"
    /\ \A s \in Servers : s \in joinable => s \in joinable'

LEMMA ConnectionFrame ==
    ASSUME TInv, NEW c \in Conns, Connecting(c)
    PROVE  MainFrame /\ (NewConnInv => NewConnInv')
<1>1. UNCHANGED <<mainPc, mainOn, newConn>>
  BY DEF Connecting, mainVars
<1>2. CASE Roams(c)
  BY <1>1, <1>2, WorkersDiffer
     DEF Roams, sharedVars, deleterVars, TInv, TypeOK, ThreadsTyped, MainFrame, NewConnInv
<1>3. CASE Fails({"uncaught exception", "used a destroyed server"})
  BY <1>1, <1>3 DEF Fails, sharedVars, deleterVars, MainFrame, NewConnInv
<1>4. CASE DeregisterConnection(c)
  BY <1>1, <1>4, WorkersDiffer
     DEF DeregisterConnection, Goto, deleterVars, TInv, TypeOK, ThreadsTyped,
         MainFrame, NewConnInv
<1> QED BY <1>2, <1>3, <1>4, ConnectionKinds DEF Connecting, TInv, TypeOK

LEMMA AcceptorFrame ==
    ASSUME TInv, NEW s \in Servers, Accepting(s)
    PROVE  MainFrame /\ (NewConnInv => NewConnInv')
<1> USE WorkersDiffer DEF TInv, TypeOK, MainFrame, NewConnInv, Starting
<1>1. UNCHANGED <<mainPc, mainOn, completed>>
  BY AcceptorKinds
     DEF Accepting, mainVars, Listens, Fails, sharedVars, Quiet, deleterVars, Register,
         RunFlag, RunSpawn, RunAssign
<1>2. CASE Listens(s)
  BY <1>1, <1>2 DEF Listens, Listening, ThreadsTyped
<1>3. CASE /\ Fails({"uncaught exception", "assigned to a deleted worker"})
           /\ UNCHANGED newConn
  BY <1>1, <1>3 DEF Fails, sharedVars
<1>4. CASE Register(s) \/ RunFlag(s)
  BY <1>1, <1>4 DEF Register, RunFlag, Goto, ThreadsTyped
<1>5. CASE RunSpawn(s)
  BY <1>1, <1>5 DEF RunSpawn, ThreadsTyped, NewConnTyped
<1>6. CASE RunAssign(s) /\ life[newConn[s]] = "live"
  BY <1>1, <1>6 DEF RunAssign, AssignThread, Goto, ThreadsTyped, ServersTyped
<1> QED BY <1>2, <1>3, <1>4, <1>5, <1>6, AcceptorKinds DEF Accepting

LEMMA DeleterFrame ==
    ASSUME TInv, Deleting
    PROVE  MainFrame /\ (NewConnInv => NewConnInv')
<1>1. UNCHANGED <<mainPc, mainOn, completed, newConn>>
  BY DEF Deleting, DeleterStep, DeleterTop, DeleterTake, DeleterWait,
     DeleterDelete, deleterVars, mainVars
<1>2. pc[Deleter] # "unborn"
  BY DEF Deleting, DeleterStep, DeleterTop, DeleterTake, DeleterWait,
     DeleterDelete, Goto
<1>3. \A w \in Servers : pc'[w] = pc[w]
  BY WorkersDiffer
     DEF Deleting, DeleterStep, DeleterTop, DeleterTake, DeleterWait,
         DeleterDelete, Goto, TInv, TypeOK, ThreadsTyped
<1>4. joinable' = joinable \/ joinable' = joinable \ {taken}
  BY DEF Deleting, DeleterStep, DeleterTop, DeleterTake, DeleterWait,
     DeleterDelete, Wait
<1> QED
  BY <1>1, <1>2, <1>3, <1>4, WorkersDiffer
     DEF MainFrame, NewConnInv, TInv, TypeOK, QueueTyped

LEMMA HandlerFrame ==
    ASSUME TInv, NEW t \in Threads, Handling(t)
    PROVE  MainFrame /\ (NewConnInv => NewConnInv')
<1>1. Stops
  BY HandlerKinds DEF Handling, TInv
<1>2. CASE pc' = pc
  BY <1>1, <1>2 DEF Stops, MainFrame, NewConnInv, mainVars
<1>3. CASE Wakes
  BY <1>1, <1>3, WakeTyped, WorkersDiffer
     DEF Stops, MainFrame, NewConnInv, Starting, ResumeAt, TInv, TypeOK, mainVars
<1> QED BY <1>1, <1>2, <1>3 DEF Stops

LEMMA EnvironmentFrame ==
    ASSUME TInv, Environment
    PROVE  MainFrame /\ (NewConnInv => NewConnInv')
<1> USE WorkersDiffer DEF TInv, TypeOK, MainFrame, NewConnInv
<1>1. ASSUME NEW c \in Conns, ClientStep(c), UNCHANGED <<newConn, mainVars, handlerVars>>
      PROVE  MainFrame /\ (NewConnInv => NewConnInv')
  <2>1. UNCHANGED <<mainPc, mainOn, completed, newConn, joinable>>
    BY <1>1, ClientKinds DEF Roams, Fails, sharedVars, deleterVars, workerVars, mainVars
  <2>2. \A w \in Servers \cup {Deleter} : pc'[w] = pc[w]
    BY <1>1, ClientKinds DEF Roams, Fails, workerVars, ThreadsTyped
  <2> QED BY <2>1, <2>2
<1>2. ASSUME NEW s \in Servers, NEW c \in Conns, Accept(s, c),
             UNCHANGED <<mainVars, handlerVars>>
      PROVE  MainFrame /\ (NewConnInv => NewConnInv')
  BY <1>2 DEF Accept, Goto, ThreadsTyped, ServersTyped, Starting, mainVars, deleterVars
<1>3. ASSUME NEW t \in SignalThreads, Interrupt(t),
             UNCHANGED <<deleterVars, baseVars, connVars, newConn, mainVars>>
      PROVE  MainFrame /\ (NewConnInv => NewConnInv')
  <2>1. UNCHANGED <<mainPc, mainOn, completed, newConn, joinable>>
    BY <1>3 DEF Interrupt, mainVars, deleterVars
  <2>2. CASE pc' = pc
    BY <2>1, <2>2
  <2>3. CASE Wakes
    BY <2>1, <2>3, WakeTyped DEF ResumeAt, Starting
  <2> QED BY <1>3, <2>2, <2>3, InterruptWakes
<1> QED BY <1>1, <1>2, <1>3 DEF Environment

LEMMA MainInvMain ==
    ASSUME TInv, MainInv, NewConnInv, Maining
    PROVE  MainInv' /\ NewConnInv'
<1> USE WorkersDiffer DEF TInv, TypeOK, MainInv, NewConnInv, MainTyped, Starting
<1>1. UNCHANGED newConn /\ (MainRun \/ MainSpawn \/ MainAssign \/ MainWait
                                \/ MainStop \/ MainReturn \/ MainExit)
  BY DEF Maining, MainStep
<1>2. CASE MainRun
  BY <1>1, <1>2 DEF MainRun, MainGoto, deleterVars
<1>3. CASE MainSpawn
  BY <1>1, <1>3 DEF MainSpawn, MainGoto, ThreadsTyped, deleterVars
<1>4. CASE MainAssign
  BY <1>1, <1>4 DEF MainAssign, MainGoto, AssignThread, After, deleterVars
<1>5. CASE MainWait
  BY <1>1, <1>5 DEF MainWait, MainGoto, Wait, After, deleterVars
<1>6. CASE MainStop
  BY <1>1, <1>6 DEF MainStop, MainGoto, StopDeleter
<1>7. CASE MainReturn \/ MainExit
  BY <1>1, <1>7 DEF MainReturn, MainExit, MainGoto, workerVars, deleterVars
<1> QED BY <1>1, <1>2, <1>3, <1>4, <1>5, <1>6, <1>7

LEMMA MainInvNext == TInv /\ MainInv /\ NewConnInv /\ [Next]_vars => MainInv' /\ NewConnInv'
<1> SUFFICES ASSUME TInv, MainInv, NewConnInv, [Next]_vars PROVE MainInv' /\ NewConnInv'
  OBVIOUS
<1>1. CASE UNCHANGED vars
  BY <1>1 DEF vars, MainInv, NewConnInv, workerVars, deleterVars, mainVars
<1>2. CASE MainFrame /\ (NewConnInv => NewConnInv')
  BY <1>2, WorkersDiffer DEF MainFrame, MainInv, TInv, TypeOK, MainTyped
<1> QED
  BY <1>1, <1>2, ConnectionFrame, AcceptorFrame, DeleterFrame, MainInvMain,
     HandlerFrame, EnvironmentFrame DEF Next, Over

LEMMA MainInvInit == Init => MainInv /\ NewConnInv
BY WorkersDiffer DEF Init, WorkerInit, DeleterInit, AcceptorInit, MainInv, NewConnInv

(* Once the deleter has been told to stop, no server is alive to accept or *)
(* to start a connection: main joins both before it calls td.stop().       *)
THEOREM DeleterStopsLast == Spec => []StoppedLast
<1>1. TInv /\ MainInv /\ NewConnInv => StoppedLast
  BY WorkersDiffer
     DEF MainInv, NewConnInv, StoppedLast, Starting, TInv, TypeOK, QueueTyped
<1> QED
  BY <1>1, TInvInit, TInvNext, MainInvInit, MainInvNext, PTL DEF Spec

-----------------------------------------------------------------------------
(* The life of a connection: a server starts it, its thread is born, works *)
(* and hands it over, and only then can it have been deleted.              *)
LifeInv ==
    /\ \A c \in Conns : life[c] = "absent" => pc[c] = "unborn" /\ owner[c] = NoConn
    /\ \A c \in Conns : life[c] # "absent" => owner[c] \in Servers
    /\ \A c \in Conns : life[c] = "deleted" => HandedOver(c)
    /\ \A s \in Servers : pc[s] \in Starting => owner[newConn[s]] = s
    /\ \A s \in Servers : pc[s] \in Starting \ {"assign"} => pc[newConn[s]] = "unborn"
    /\ \A c \in Conns : pc[c] = "unborn" /\ life[c] # "absent" =>
         pc[owner[c]] \in Starting \ {"assign"} /\ newConn[owner[c]] = c

(* A server's set has only its own connections, none of them before it has *)
(* been registered, and none that has deregistered.                        *)
SetsInv ==
    \A s \in Servers : \A c \in connections[s] :
        /\ owner[c] = s
        /\ pc[c] \notin {"enqueue", "unlock", "dead"}
        /\ pc[c] = "unborn" => pc[s] \in {"run", "spawn"}

(* The deleter's queue and hands.                                          *)
HandsInv ==
    /\ ReapedOnce
    /\ NoneLost
    /\ taken # NoConn <=> pc[Deleter] \in {"wait", "delete"}

(* A thread is joinable from the end of run() until the deleter joins it.  *)
BeingAssigned(c) == pc[owner[c]] = "assign" /\ newConn[owner[c]] = c

JoinInv ==
    /\ \A c \in Conns : c \in joinable => life[c] = "live" /\ pc[c] # "unborn"
    /\ \A c \in Conns : life[c] = "live" /\ pc[c] # "unborn" /\ c \notin joinable =>
         \/ BeingAssigned(c)
         \/ taken = c /\ pc[Deleter] = "delete" /\ pc[c] = "dead"
    /\ pc[Deleter] = "delete" =>
         pc[taken] = "dead" \/ taken \in joinable \/ BeingAssigned(taken)
    /\ \A c \in Conns : life[c] = "deleted" => pc[c] = "dead" \/ BeingAssigned(c)

(* Steps that change nothing these invariants are about.                   *)
Aside ==
    /\ UNCHANGED <<life, owner, newConn, queue, taken>>
    /\ completed => completed'
    /\ \A s \in Servers : connections'[s] \subseteq connections[s]
    /\ \A c \in Conns : c \in joinable <=> c \in joinable'
    /\ \A c \in Conns : \/ pc'[c] = pc[c]
                       \/ {pc[c], pc'[c]} \cap {"unborn", "enqueue", "unlock", "dead"} = {}
    /\ \A s \in Servers : pc'[s] = pc[s] \/ {pc[s], pc'[s]} \cap Starting = {}
    /\ pc'[Deleter] = pc[Deleter] \/ {pc[Deleter], pc'[Deleter]} \cap {"wait", "delete"} = {}

LEMMA ConnectionAside ==
    ASSUME TInv, NEW c \in Conns, Connecting(c)
    PROVE  Aside \/ DeregisterConnection(c)
<1>1. UNCHANGED newConn
  BY DEF Connecting
<1>2. CASE Roams(c)
  BY <1>1, <1>2, WorkersDiffer
     DEF Roams, Roaming, sharedVars, baseVars, deleterVars, connVars, TInv, TypeOK,
         ThreadsTyped, Aside
<1>3. CASE Fails({"uncaught exception", "used a destroyed server"})
  BY <1>1, <1>3 DEF Fails, sharedVars, baseVars, deleterVars, connVars, Aside
<1> QED BY <1>2, <1>3, ConnectionKinds DEF Connecting, TInv, TypeOK

LEMMA AcceptorAside ==
    ASSUME TInv, NEW s \in Servers, Accepting(s)
    PROVE  \/ Aside
           \/ Register(s) \/ RunFlag(s) \/ RunSpawn(s)
           \/ RunAssign(s) /\ life[newConn[s]] = "live"
<1>1. CASE Listens(s)
  BY <1>1, WorkersDiffer
     DEF Listens, Listening, Starting, baseVars, deleterVars, connVars, TInv, TypeOK,
         ThreadsTyped, Aside
<1>2. CASE /\ Fails({"uncaught exception", "assigned to a deleted worker"})
           /\ UNCHANGED newConn
  BY <1>2 DEF Fails, sharedVars, baseVars, deleterVars, connVars, Aside
<1> QED BY <1>1, <1>2, AcceptorKinds DEF Accepting, TInv, TypeOK

LEMMA DeleterAside ==
    ASSUME TInv, Deleting
    PROVE  \/ Aside
           \/ DeleterTake /\ queue # <<>>
           \/ DeleterWait
           \/ DeleterDelete(owner[taken] = Tcp) /\ taken \in Conns \ joinable
<1> USE WorkersDiffer DEF TInv, TypeOK, ThreadsTyped, Aside
<1>1. UNCHANGED <<connections, owner, newConn>>
  BY DEF Deleting, DeleterStep, baseVars, connVars
<1>2. CASE DeleterTop
  BY <1>1, <1>2 DEF DeleterTop, Goto, deleterVars
<1>3. CASE DeleterTake /\ queue = <<>>
  BY <1>1, <1>3 DEF DeleterTake, Goto
<1>4. ASSUME NEW c \in Conns, taken = c, DeleterDelete(owner[c] = Tcp), taken \in joinable
      PROVE  Aside
  BY <1>1, <1>4 DEF DeleterDelete
<1> QED BY <1>2, <1>3, <1>4 DEF Deleting, DeleterStep

LEMMA MainAside ==
    ASSUME TInv, MainInv, Maining
    PROVE  Aside
<1>1. UNCHANGED <<connections, owner, newConn>>
  BY DEF Maining, MainStep, connVars
<1>2. UNCHANGED <<life, queue, taken>> /\ (completed => completed')
  BY DEF Maining, MainStep, MainRun, MainSpawn, MainAssign, MainWait, MainStop,
     MainReturn, MainExit, StopDeleter, workerVars, deleterVars
<1>3. \A c \in Conns : c \in joinable <=> c \in joinable'
  BY WorkersDiffer
     DEF Maining, MainStep, MainRun, MainSpawn, MainAssign, MainWait, MainStop,
         MainReturn, MainExit, AssignThread, Wait, workerVars, TInv, TypeOK, MainTyped
<1>4. CASE pc' = pc
  BY <1>1, <1>2, <1>3, <1>4 DEF Aside
<1>5. CASE MainSpawn
  BY <1>1, <1>2, <1>3, <1>5, WorkersDiffer
     DEF MainSpawn, MainGoto, MainInv, Aside, Starting, TInv, TypeOK, ThreadsTyped, MainTyped
<1> QED
  BY <1>4, <1>5 DEF Maining, MainStep, MainRun, MainAssign, MainWait, MainStop,
     MainReturn, MainExit, workerVars

LEMMA HandlerAside ==
    ASSUME TInv, NEW t \in Threads, Handling(t)
    PROVE  Aside
<1>1. Stops
  BY HandlerKinds DEF Handling, TInv
<1>2. CASE pc' = pc
  BY <1>1, <1>2 DEF Stops, Aside, connVars
<1>3. CASE Wakes
  BY <1>1, <1>3, WakeTyped, WorkersDiffer
     DEF Stops, Aside, Starting, ResumeAt, TInv, TypeOK, ThreadsTyped, connVars
<1> QED BY <1>1, <1>2, <1>3 DEF Stops

LEMMA EnvironmentAside ==
    ASSUME TInv, Environment
    PROVE  \/ Aside
           \/ \E s \in Servers, c \in Conns : Accept(s, c)
<1>1. ASSUME NEW c \in Conns, ClientStep(c), UNCHANGED <<newConn, mainVars, handlerVars>>
      PROVE  Aside
  <2>1. CASE Roams(c)
    BY <1>1, <2>1, WorkersDiffer
       DEF Roams, Roaming, sharedVars, baseVars, deleterVars, connVars, TInv, TypeOK,
           ThreadsTyped, Aside
  <2>2. CASE UNCHANGED <<workerVars, deleterVars, baseVars, owner>>
    BY <1>1, <2>2 DEF workerVars, deleterVars, baseVars, Aside
  <2>3. CASE Fails({"used a destroyed server"})
    BY <1>1, <2>3 DEF Fails, sharedVars, baseVars, deleterVars, connVars, Aside
  <2> QED BY <1>1, <2>1, <2>2, <2>3, ClientKinds
<1>2. ASSUME NEW t \in SignalThreads, Interrupt(t),
             UNCHANGED <<deleterVars, baseVars, connVars, newConn, mainVars>>
      PROVE  Aside
  <2>1. UNCHANGED <<life, joinable>>
    BY <1>2 DEF Interrupt
  <2>2. CASE pc' = pc
    BY <1>2, <2>1, <2>2 DEF deleterVars, baseVars, connVars, Aside
  <2>3. CASE Wakes
    BY <1>2, <2>1, <2>3, WakeTyped, WorkersDiffer
       DEF deleterVars, baseVars, connVars, Aside, Starting, ResumeAt, TInv, TypeOK, ThreadsTyped
  <2> QED BY <1>2, <2>2, <2>3, InterruptWakes
<1> QED BY <1>1, <1>2 DEF Environment

CInv == TInv /\ MainInv /\ NewConnInv /\ LifeInv /\ SetsInv /\ HandsInv /\ JoinInv

LEMMA AsideKeeps ==
    ASSUME CInv, Aside
    PROVE  LifeInv' /\ SetsInv' /\ HandsInv' /\ JoinInv'
<1>1. \A c \in Conns :
        /\ pc'[c] = "unborn" <=> pc[c] = "unborn"
        /\ pc'[c] = "dead" <=> pc[c] = "dead"
        /\ HandedOver(c)' <=> HandedOver(c)
        /\ (pc'[c] \in {"enqueue", "unlock", "dead"}) <=> (pc[c] \in {"enqueue", "unlock", "dead"})
  BY DEF Aside, HandedOver
<1>2. \A s \in Servers : \A p \in Starting : pc'[s] = p <=> pc[s] = p
  BY DEF Aside, Starting
<1>3. /\ UNCHANGED <<life, owner, newConn, queue, taken>>
      /\ \A s \in Servers : connections'[s] \subseteq connections[s]
      /\ \A c \in Conns : c \in joinable' <=> c \in joinable
      /\ pc'[Deleter] = "delete" <=> pc[Deleter] = "delete"
  BY DEF Aside
<1>4. LifeInv'
  <2> USE <1>1, <1>2, <1>3 DEF CInv, LifeInv, Starting
  <2>1. \A s \in Servers : pc'[s] \in Starting =>
            newConn[s] \in Conns /\ owner[newConn[s]] = s
    BY DEF TInv, NewConnTyped
  <2>2. \A s \in Servers : pc'[s] \in Starting \ {"assign"} => pc'[newConn[s]] = "unborn"
    BY <2>1
  <2>3. \A c \in Conns : pc'[c] = "unborn" /\ life[c] # "absent" =>
            pc'[owner[c]] \in Starting \ {"assign"} /\ newConn[owner[c]] = c
    OBVIOUS
  <2> QED BY <2>1, <2>2, <2>3
<1>5. SetsInv'
  <2> SUFFICES ASSUME NEW s \in Servers, NEW c \in connections'[s]
               PROVE  /\ owner[c] = s
                      /\ pc'[c] \notin {"enqueue", "unlock", "dead"}
                      /\ pc'[c] = "unborn" => pc'[s] \in {"run", "spawn"}
    BY <1>3 DEF SetsInv
  <2>1. c \in connections[s] /\ c \in Conns
    BY <1>3 DEF CInv, TInv, TypeOK, ServersTyped
  <2> QED BY <1>1, <1>2, <2>1 DEF CInv, SetsInv, Starting
<1>6. HandsInv'
  <2>1. ReapedOnce'
    BY <1>1, <1>3 DEF CInv, HandsInv, ReapedOnce, Queued
  <2>2. NoneLost'
    BY <1>1, <1>3 DEF CInv, HandsInv, NoneLost, Queued, Aside
  <2> QED BY <2>1, <2>2 DEF CInv, HandsInv, Aside
<1>7. JoinInv'
  <2> USE <1>1, <1>3 DEF CInv, JoinInv
  <2>1. \A c \in Conns : life[c] # "absent" => (BeingAssigned(c)' <=> BeingAssigned(c))
    BY <1>2 DEF BeingAssigned, LifeInv, Starting
  <2>2. pc'[Deleter] = "delete" => taken \in Conns /\ life[taken] = "live"
    BY DEF HandsInv, ReapedOnce, TInv, TypeOK, QueueTyped
  <2>3. pc'[Deleter] = "delete" =>
            pc'[taken] = "dead" \/ taken \in joinable' \/ BeingAssigned(taken)'
    BY <2>1, <2>2
  <2> QED BY <2>1, <2>3
<1> QED BY <1>4, <1>5, <1>6, <1>7

LEMMA AcceptKeeps ==
    ASSUME CInv, NEW s \in Servers, NEW c \in Conns, Accept(s, c)
    PROVE  LifeInv' /\ SetsInv' /\ HandsInv' /\ JoinInv'
<1> USE WorkersDiffer DEF CInv, TInv, TypeOK
<1>1. /\ life[c] = "absent" /\ life' = [life EXCEPT ![c] = "live"]
      /\ owner' = [owner EXCEPT ![c] = s]
      /\ newConn' = [newConn EXCEPT ![s] = c]
      /\ pc[s] = "accepting" /\ pc' = [pc EXCEPT ![s] = "register"]
      /\ UNCHANGED <<joinable, queue, completed, taken, connections>>
  BY DEF Accept, Goto, deleterVars, baseVars
<1>2. /\ pc'[s] = "register" /\ life'[c] = "live" /\ owner'[c] = s /\ newConn'[s] = c
      /\ \A w \in Workers : w # s => pc'[w] = pc[w]
      /\ \A d \in Conns : d # c => life'[d] = life[d] /\ owner'[d] = owner[d]
      /\ \A r \in Servers : r # s => newConn'[r] = newConn[r]
  BY <1>1 DEF ThreadsTyped, ObjectsTyped, ServersTyped
<1>3. pc[c] = "unborn" /\ owner[c] = NoConn
  BY <1>1 DEF LifeInv
<1>4. \A r \in Servers : pc[r] \in Starting => newConn[r] \in Conns \ {c}
  BY <1>3 DEF LifeInv, NewConnTyped
<1>5. LifeInv'
  BY <1>1, <1>2, <1>3, <1>4 DEF LifeInv, HandedOver, Starting
<1>6. SetsInv'
  BY <1>1, <1>2, <1>3 DEF SetsInv, ServersTyped
<1>7. HandsInv'
  <2>1. \A d \in Conns : HandedOver(d)' <=> HandedOver(d)
    BY <1>2 DEF HandedOver
  <2>2. ReapedOnce'
    BY <1>1, <1>2, <2>1 DEF HandsInv, ReapedOnce, Queued
  <2>3. NoneLost'
    BY <1>1, <1>2, <1>3, <2>1 DEF HandsInv, NoneLost, Queued, HandedOver
  <2> QED BY <1>1, <1>2, <2>2, <2>3 DEF HandsInv
<1>8. JoinInv'
  <2>1. \A d \in Conns : life[d] # "absent" => (BeingAssigned(d)' <=> BeingAssigned(d))
    BY <1>1, <1>2 DEF BeingAssigned, LifeInv
  <2>2. pc[Deleter] = "delete" => taken \in Conns /\ life[taken] = "live"
    BY DEF HandsInv, ReapedOnce, QueueTyped
  <2> QED BY <1>1, <1>2, <1>3, <2>1, <2>2 DEF JoinInv
<1> QED BY <1>5, <1>6, <1>7, <1>8

(* A step of Worker::run or of registerConnection.                         *)
LEMMA StartKeeps ==
    ASSUME CInv, NEW s \in Servers, UNCHANGED mainVars,
           Register(s) \/ RunFlag(s) \/ RunSpawn(s)
               \/ (RunAssign(s) /\ life[newConn[s]] = "live")
    PROVE  LifeInv' /\ SetsInv' /\ HandsInv' /\ JoinInv'
<1> USE WorkersDiffer DEF CInv, TInv, TypeOK
<1> DEFINE c == newConn[s]
<1>1. /\ pc[s] \in Starting /\ c \in Conns /\ owner[c] = s
      /\ UNCHANGED <<life, owner, queue, completed, taken>>
  BY DEF Register, RunFlag, RunSpawn, RunAssign, Goto, Starting, NewConnTyped,
     LifeInv, Quiet, deleterVars, connVars
<1>2. \A r \in Servers : r # s /\ pc[r] \in Starting => newConn[r] # c
  BY <1>1 DEF LifeInv
<1>3. CASE Register(s) \/ RunFlag(s)
  <2>1. /\ UNCHANGED <<newConn, joinable>>
        /\ pc[s] \in {"register", "run"} /\ pc'[s] \in {"run", "spawn"}
        /\ \A w \in Workers : w # s => pc'[w] = pc[w]
        /\ \A r \in Servers : \/ connections'[r] = connections[r]
                             \/ (r = s /\ connections'[r] = connections[r] \cup {c})
    <3>1. CASE Register(s)
      BY <3>1 DEF Register, Goto, RegisterConnection, ThreadsTyped, ServersTyped
    <3>2. CASE RunFlag(s)
      BY <3>2 DEF RunFlag, Goto, Quiet, baseVars, ThreadsTyped
    <3> QED BY <1>3, <3>1, <3>2
  <2>2. life[c] = "live" /\ pc[c] = "unborn"
    BY <1>1, <2>1 DEF LifeInv, Starting, HandedOver, ObjectsTyped
  <2>3. LifeInv'
    BY <1>1, <2>1, <2>2 DEF LifeInv, HandedOver, Starting, NewConnTyped
  <2>4. SetsInv'
    BY <1>1, <2>1, <2>2 DEF SetsInv, ServersTyped
  <2>5. HandsInv'
    BY <1>1, <2>1 DEF HandsInv, ReapedOnce, NoneLost, Queued, HandedOver
  <2>6. JoinInv'
    <3>1. \A d \in Conns : life[d] # "absent" => (BeingAssigned(d)' <=> BeingAssigned(d))
      BY <1>1, <2>1 DEF BeingAssigned, LifeInv
    <3>2. pc[Deleter] = "delete" => taken \in Conns /\ life[taken] = "live"
      BY DEF HandsInv, ReapedOnce, QueueTyped
    <3> QED BY <1>1, <2>1, <3>1, <3>2 DEF JoinInv
  <2> QED BY <2>3, <2>4, <2>5, <2>6
<1>4. CASE RunSpawn(s)
  <2>1. /\ UNCHANGED <<newConn, joinable, connections>>
        /\ pc[s] = "spawn" /\ pc'[s] = "assign" /\ pc'[c] = "start"
        /\ \A w \in Workers : w # s /\ w # c => pc'[w] = pc[w]
    BY <1>1, <1>4 DEF RunSpawn, Quiet, baseVars, ThreadsTyped
  <2>2. life[c] = "live" /\ pc[c] = "unborn"
    BY <1>1, <2>1 DEF LifeInv, Starting, HandedOver, ObjectsTyped
  <2>3. LifeInv'
    BY <1>1, <1>2, <2>1, <2>2 DEF LifeInv, HandedOver, Starting, NewConnTyped
  <2>4. SetsInv'
    BY <1>1, <2>1, <2>2 DEF SetsInv, LifeInv, ServersTyped, Starting
  <2>5. HandsInv'
    BY <1>1, <2>1, <2>2 DEF HandsInv, ReapedOnce, NoneLost, Queued, HandedOver
  <2>6. JoinInv'
    <3>1. \A d \in Conns : life[d] # "absent" /\ BeingAssigned(d) => BeingAssigned(d)'
      BY <1>1, <2>1 DEF BeingAssigned, LifeInv
    <3>2. pc[Deleter] = "delete" => taken \in Conns /\ life[taken] = "live" /\ taken # c
      BY <2>2 DEF HandsInv, ReapedOnce, HandedOver, QueueTyped
    <3> QED BY <1>1, <2>1, <2>2, <3>1, <3>2 DEF JoinInv, BeingAssigned
  <2> QED BY <2>3, <2>4, <2>5, <2>6
<1>5. CASE RunAssign(s) /\ life[c] = "live"
  <2>1. /\ joinable' = joinable \cup {c} /\ newConn' = [newConn EXCEPT ![s] = NoConn]
        /\ pc[s] = "assign" /\ pc' = [pc EXCEPT ![s] = "check"]
        /\ UNCHANGED connections
    BY <1>5 DEF RunAssign, AssignThread, Goto, Quiet, baseVars
  <2>2. /\ pc'[s] = "check" /\ newConn'[s] = NoConn
        /\ \A w \in Workers : w # s => pc'[w] = pc[w]
        /\ \A r \in Servers : r # s => newConn'[r] = newConn[r]
    BY <2>1 DEF ThreadsTyped, ServersTyped
  <2>3. pc[c] # "unborn"
    BY <1>1, <1>5, <2>1 DEF LifeInv, Starting
  <2>4. LifeInv'
    BY <1>1, <2>1, <2>2, <2>3 DEF LifeInv, HandedOver, Starting, NewConnTyped
  <2>5. SetsInv'
    BY <1>1, <2>1, <2>2 DEF SetsInv, LifeInv, ServersTyped, Starting
  <2>6. HandsInv'
    BY <1>1, <2>1, <2>2 DEF HandsInv, ReapedOnce, NoneLost, Queued, HandedOver
  <2>7. JoinInv'
    <3>1. \A d \in Conns : life[d] # "absent" /\ d # c => (BeingAssigned(d)' <=> BeingAssigned(d))
      BY <1>1, <2>1, <2>2 DEF BeingAssigned, LifeInv
    <3>2. pc[Deleter] = "delete" => taken \in Conns /\ life[taken] = "live"
      BY DEF HandsInv, ReapedOnce, QueueTyped
    <3> QED BY <1>1, <1>5, <2>1, <2>2, <2>3, <3>1, <3>2 DEF JoinInv
  <2> QED BY <2>4, <2>5, <2>6, <2>7
<1> QED BY <1>3, <1>4, <1>5

(* A step of deregisterConnection.                                         *)
LEMMA RetireKeeps ==
    ASSUME CInv, NEW c \in Conns, DeregisterConnection(c), UNCHANGED newConn
    PROVE  LifeInv' /\ SetsInv' /\ HandsInv' /\ JoinInv'
<1> USE WorkersDiffer DEF CInv, TInv, TypeOK
<1>1. UNCHANGED <<life, owner, newConn, joinable, completed, taken>>
  BY DEF DeregisterConnection, DeregisterErase, DeregisterUnlock, DeleteWorker,
     deleterVars, connVars
<1>2. PICK q \in {"enqueue", "unlock", "dead"} :
        /\ pc' = [pc EXCEPT ![c] = q]
        /\ <<pc[c], q>> \in {<<"deregister", "enqueue">>, <<"enqueue", "unlock">>,
                             <<"unlock", "dead">>}
  BY DEF DeregisterConnection, Goto
<1>3. /\ pc'[c] = q
      /\ \A w \in Workers : w # c => pc'[w] = pc[w]
  BY <1>2 DEF ThreadsTyped
<1>4. life[c] # "absent" /\ owner[c] \in Servers /\ pc[c] # "unborn"
  BY <1>2 DEF LifeInv, ObjectsTyped
<1>5. LifeInv'
  BY <1>1, <1>2, <1>3, <1>4 DEF LifeInv, HandedOver, NewConnTyped, Starting
<1>6. SetsInv'
  <2>1. CASE q = "enqueue"
    BY <1>1, <1>2, <1>3, <1>4, <2>1
       DEF DeregisterConnection, Goto, DeregisterErase, SetsInv, ServersTyped
  <2>2. CASE q # "enqueue"
    BY <1>1, <1>2, <1>3, <1>4, <2>2
       DEF DeregisterConnection, Goto, DeregisterUnlock, SetsInv, ServersTyped, baseVars
  <2> QED BY <2>1, <2>2
<1>7. HandsInv'
  <2>1. CASE q # "unlock"
    <3>1. queue' = queue
      BY <1>2, <1>3, <2>1 DEF DeregisterConnection, Goto, deleterVars
    <3>2. \A d \in Conns : HandedOver(d)' <=> HandedOver(d)
      BY <1>2, <1>3, <2>1 DEF HandedOver
    <3> QED BY <1>1, <1>3, <3>1, <3>2 DEF HandsInv, ReapedOnce, NoneLost, Queued
  <2>2. CASE q = "unlock" /\ completed
    <3>1. queue' = queue
      BY <1>2, <1>3, <2>2 DEF DeregisterConnection, DeleteWorker, Goto
    <3>2. \A d \in Conns : HandedOver(d) => HandedOver(d)'
      BY <1>2, <1>3, <2>2 DEF HandedOver
    <3> QED BY <1>1, <1>3, <2>2, <3>1, <3>2 DEF HandsInv, ReapedOnce, NoneLost, Queued
  <2>3. CASE q = "unlock" /\ ~completed
    <3>1. queue' = Append(queue, c)
      BY <1>2, <1>3, <2>3 DEF DeregisterConnection, DeleteWorker, Goto
    <3>2. /\ DOMAIN queue' = DOMAIN queue \cup {Len(queue) + 1}
          /\ \A i \in DOMAIN queue : queue'[i] = queue[i]
          /\ queue'[Len(queue) + 1] = c /\ Len(queue) + 1 \notin DOMAIN queue
      BY <3>1 DEF QueueTyped
    <3>3. ~HandedOver(c) /\ HandedOver(c)' /\ life[c] = "live"
      BY <1>2, <1>3, <1>4, <2>3 DEF HandedOver, LifeInv, ObjectsTyped
    <3>4. ~Queued(c) /\ taken # c
      BY <3>3 DEF HandsInv, ReapedOnce
    <3>5. \A d \in Conns : Queued(d)' <=> Queued(d) \/ d = c
      BY <3>2 DEF Queued
    <3>6. \A d \in Conns : d # c => (HandedOver(d)' <=> HandedOver(d))
      BY <1>3 DEF HandedOver
    <3>7. ReapedOnce'
      <4>1. \A i, j \in DOMAIN queue' : queue'[i] = queue'[j] => i = j
        BY <3>2, <3>4 DEF HandsInv, ReapedOnce, Queued
      <4>2. taken' # NoConn => ~Queued(taken)'
        BY <1>1, <3>4, <3>5 DEF HandsInv, ReapedOnce, QueueTyped
      <4> QED BY <1>1, <3>3, <3>5, <3>6, <4>1, <4>2 DEF HandsInv, ReapedOnce
    <3>8. NoneLost'
      BY <1>1, <3>5, <3>6 DEF HandsInv, NoneLost
    <3> QED BY <1>1, <1>3, <3>7, <3>8 DEF HandsInv
  <2> QED BY <2>1, <2>2, <2>3
<1>8. JoinInv'
  <2>1. \A d \in Conns : life[d] # "absent" => (BeingAssigned(d)' <=> BeingAssigned(d))
    BY <1>1, <1>3 DEF BeingAssigned, LifeInv
  <2>2. pc[Deleter] = "delete" => taken \in Conns /\ life[taken] = "live"
    BY DEF HandsInv, ReapedOnce, QueueTyped
  <2> QED BY <1>1, <1>2, <1>3, <1>4, <2>1, <2>2 DEF JoinInv
<1> QED BY <1>5, <1>6, <1>7, <1>8

LEMMA ReapKeeps ==
    ASSUME CInv, Deleting,
           \/ DeleterTake /\ queue # <<>>
           \/ DeleterWait
           \/ DeleterDelete(owner[taken] = Tcp) /\ taken \in Conns \ joinable
    PROVE  LifeInv' /\ SetsInv' /\ HandsInv' /\ JoinInv'
<1> USE WorkersDiffer DEF CInv, TInv, TypeOK
<1>1. UNCHANGED <<owner, newConn, connections, completed>>
  BY DEF Deleting, DeleterStep, DeleterTop, DeleterTake, DeleterWait, DeleterDelete,
     deleterVars, connVars, baseVars
<1>2. \A w \in Conns \cup Servers : pc'[w] = pc[w]
  BY DEF DeleterTake, DeleterWait, DeleterDelete, Goto, ThreadsTyped
<1>3. \A d \in Conns : HandedOver(d)' <=> HandedOver(d)
  BY <1>2 DEF HandedOver
<1>4. SetsInv'
  BY <1>1, <1>2 DEF SetsInv, ServersTyped
<1>5. \A d \in Conns : life[d] # "absent" => (BeingAssigned(d)' <=> BeingAssigned(d))
  BY <1>1, <1>2 DEF BeingAssigned, LifeInv
<1>6. ASSUME UNCHANGED life PROVE LifeInv'
  BY <1>1, <1>2, <1>3, <1>6 DEF LifeInv, NewConnTyped, Starting
<1>7. CASE DeleterTake /\ queue # <<>>
  <2>1. /\ taken' = Head(queue) /\ queue' = Tail(queue)
        /\ pc[Deleter] = "take" /\ pc'[Deleter] = "wait"
        /\ UNCHANGED <<life, joinable>>
    BY <1>7 DEF DeleterTake, Goto, ThreadsTyped
  <2>2. /\ taken' \in Conns /\ taken' = queue[1] /\ 1 \in DOMAIN queue
        /\ DOMAIN queue' = 1 .. (Len(queue) - 1) /\ DOMAIN queue = 1 .. Len(queue)
        /\ Len(queue) \in Nat
        /\ \A i \in DOMAIN queue' : queue'[i] = queue[i + 1]
    BY <1>7, <2>1 DEF QueueTyped
  <2>3. \A d \in Conns : Queued(d) <=> Queued(d)' \/ taken' = d
    <3>1. \A i \in DOMAIN queue : i = 1 \/ (i - 1 \in DOMAIN queue' /\ queue'[i - 1] = queue[i])
      BY <2>2
    <3>2. \A i \in DOMAIN queue' : i + 1 \in DOMAIN queue
      BY <2>2
    <3> QED BY <2>2, <3>1, <3>2 DEF Queued
  <2>4. taken = NoConn
    BY <2>1 DEF HandsInv
  <2>5. ReapedOnce'
    <3>1. \A i, j \in DOMAIN queue' : queue'[i] = queue'[j] => i = j
      BY <2>2 DEF HandsInv, ReapedOnce
    <3>2. ~Queued(taken)'
      BY <2>2 DEF HandsInv, ReapedOnce, Queued
    <3> QED BY <1>3, <2>1, <2>3, <3>1, <3>2 DEF HandsInv, ReapedOnce
  <2>6. NoneLost'
    BY <1>1, <1>3, <2>1, <2>3, <2>4 DEF HandsInv, NoneLost
  <2>7. HandsInv'
    BY <2>1, <2>2, <2>5, <2>6 DEF HandsInv
  <2>8. JoinInv'
    BY <1>2, <1>5, <2>1 DEF JoinInv
  <2> QED BY <1>4, <1>6, <2>1, <2>7, <2>8
<1>8. CASE DeleterWait
  <2>1. /\ pc[Deleter] = "wait" /\ pc'[Deleter] = "delete"
        /\ taken \in joinable => pc[taken] = "dead"
        /\ joinable' = joinable \ {taken}
        /\ UNCHANGED <<life, queue, taken>>
    BY <1>8 DEF DeleterWait, Wait, Goto, ThreadsTyped, deleterVars
  <2>2. taken \in Conns /\ life[taken] = "live" /\ HandedOver(taken)
    BY <2>1 DEF HandsInv, ReapedOnce, QueueTyped
  <2>3. HandsInv'
    BY <1>1, <1>3, <2>1 DEF HandsInv, ReapedOnce, NoneLost, Queued
  <2>4. taken \in joinable \/ BeingAssigned(taken)
    BY <2>1, <2>2 DEF JoinInv, HandedOver
  <2>5. JoinInv'
    BY <1>2, <1>5, <2>1, <2>2, <2>4 DEF JoinInv
  <2> QED BY <1>4, <1>6, <2>1, <2>3, <2>5
<1>9. CASE DeleterDelete(owner[taken] = Tcp) /\ taken \in Conns \ joinable
  <2>1. /\ pc[Deleter] = "delete" /\ pc'[Deleter] = "top"
        /\ life' = [life EXCEPT ![taken] = "deleted"] /\ taken' = NoConn
        /\ UNCHANGED <<queue, joinable>>
    BY <1>9 DEF DeleterDelete, Goto, ThreadsTyped
  <2>2. /\ taken \in Conns /\ life'[taken] = "deleted" /\ life[taken] = "live"
        /\ \A d \in Conns : d # taken => life'[d] = life[d]
        /\ HandedOver(taken) /\ ~Queued(taken)
    BY <1>9, <2>1 DEF HandsInv, ReapedOnce, ObjectsTyped
  <2>3. LifeInv'
    BY <1>1, <1>2, <1>3, <2>2 DEF LifeInv, NewConnTyped, Starting, HandedOver
  <2>4. ReapedOnce'
    BY <1>1, <1>3, <2>1, <2>2 DEF HandsInv, ReapedOnce, Queued
  <2>5. NoneLost'
    BY <1>1, <1>3, <2>1, <2>2 DEF HandsInv, NoneLost, Queued
  <2>6. JoinInv'
    BY <1>2, <1>5, <1>9, <2>1, <2>2 DEF JoinInv, HandedOver
  <2> QED BY <1>4, <2>1, <2>3, <2>4, <2>5, <2>6 DEF HandsInv
<1> QED BY <1>7, <1>8, <1>9

LEMMA CInvNext == CInv /\ [Next]_vars => CInv'
<1> SUFFICES ASSUME CInv, [Next]_vars PROVE CInv'
  OBVIOUS
<1> DEFINE Kept == LifeInv' /\ SetsInv' /\ HandsInv' /\ JoinInv'
<1> SUFFICES Kept
  BY TInvNext, MainInvNext DEF CInv
<1>1. TInv /\ MainInv
  BY DEF CInv
<1>2. ASSUME Aside PROVE Kept
  BY <1>2, AsideKeeps
<1>3. CASE UNCHANGED vars
  BY <1>2, <1>3 DEF vars, Aside, workerVars, deleterVars, baseVars, connVars
<1>4. ASSUME NEW c \in Conns, Connecting(c) PROVE Kept
  BY <1>1, <1>2, <1>4, ConnectionAside, RetireKeeps DEF Connecting
<1>5. ASSUME NEW s \in Servers, Accepting(s) PROVE Kept
  BY <1>1, <1>2, <1>5, AcceptorAside, StartKeeps DEF Accepting
<1>6. CASE Deleting
  BY <1>1, <1>2, <1>6, DeleterAside, ReapKeeps
<1>7. CASE Maining \/ \E t \in Threads : Handling(t)
  BY <1>1, <1>2, <1>7, MainAside, HandlerAside
<1>8. CASE Environment
  BY <1>1, <1>2, <1>8, EnvironmentAside, AcceptKeeps
<1> QED
  BY <1>3, <1>4, <1>5, <1>6, <1>7, <1>8 DEF Next, Over

LEMMA CInvInit == Init => CInv
<1> SUFFICES ASSUME Init PROVE CInv
  OBVIOUS
<1>1. /\ \A c \in Conns : life[c] = "absent" /\ pc[c] = "unborn" /\ owner[c] = NoConn
      /\ \A s \in Servers : pc[s] = "unborn" /\ connections[s] = {}
      /\ pc[Deleter] = "unborn"
  BY WorkersDiffer DEF Init, WorkerInit, BaseInit, ConnectionInit
<1>2. joinable = {} /\ queue = <<>> /\ taken = NoConn
  BY DEF Init, WorkerInit, DeleterInit
<1>3. \A c \in Conns : ~Queued(c)
  BY <1>2 DEF Queued
<1>4. LifeInv
  BY <1>1 DEF LifeInv, Starting
<1>5. SetsInv
  BY <1>1 DEF SetsInv
<1>6. HandsInv
  BY <1>1, <1>2, <1>3, WorkersDiffer DEF HandsInv, ReapedOnce, NoneLost, HandedOver
<1>7. JoinInv
  BY <1>1, <1>2 DEF JoinInv
<1> QED BY <1>4, <1>5, <1>6, <1>7, TInvInit, MainInvInit DEF CInv

(* No worker is reaped twice or is deleted while it is in the deleter's    *)
(* hands: for any number of connections of both servers.                   *)
THEOREM EachReapedOnce == Spec => []ReapedOnce
<1>1. CInv => ReapedOnce
  BY DEF CInv, HandsInv
<1> QED BY <1>1, CInvInit, CInvNext, PTL DEF Spec

(* No worker is lost on its way to the deleter while that accepts workers. *)
THEOREM NoWorkerLost == Spec => []NoneLost
<1>1. CInv => NoneLost
  BY DEF CInv, HandsInv
<1> QED BY <1>1, CInvInit, CInvNext, PTL DEF Spec

(* A deleted connection is in no set that stopConnections walks, and its   *)
(* thread has made its last use of the object's server.                    *)
THEOREM NoUseAfterDelete == Spec => []DeletedIsUnused
<1>1. CInv => DeletedIsUnused
  BY DEF CInv, LifeInv, SetsInv, DeletedIsUnused, HandedOver
<1> QED BY <1>1, CInvInit, CInvNext, PTL DEF Spec

(* The join in the deleter does its work but for the race with the         *)
(* assignment of thread_ in Worker::run.                                   *)
THEOREM JoinedBeforeDeleted == Spec => []OutlivesItsThread
<1>1. CInv => OutlivesItsThread
  BY DEF CInv, JoinInv, BeingAssigned, OutlivesItsThread
<1> QED BY <1>1, CInvInit, CInvNext, PTL DEF Spec

-----------------------------------------------------------------------------
(* The refinement: what each step does to the stage of every connection.   *)
Stages == [c \in Conns |-> Stage(c)]

LEMMA StageIs ==
    ASSUME NEW c \in Conns, life[c] \in {"absent", "live", "deleted"}
    PROVE  /\ life[c] = "absent"  => Stage(c) = "absent"
           /\ life[c] = "deleted" => Stage(c) = "reaped"
           /\ life[c] = "live" /\ ~HandedOver(c) => Stage(c) = "serving"
           /\ life[c] = "live" /\ HandedOver(c) /\ (Queued(c) \/ taken = c) =>
                Stage(c) = "retired"
           /\ life[c] = "live" /\ HandedOver(c) /\ ~Queued(c) /\ taken # c =>
                Stage(c) = "abandoned"
BY DEF Stage

(* A connection keeps its stage if nothing that decides the stage changes. *)
LEMMA SameStage ==
    ASSUME TInv, TInv', NEW c \in Conns, life'[c] = life[c],
           HandedOver(c)' <=> HandedOver(c),
           HandedOver(c) => (Queued(c)' \/ taken' = c <=> Queued(c) \/ taken = c)
    PROVE  Stage(c)' = Stage(c)
BY DEF Stage, TInv, TypeOK, ObjectsTyped

LEMMA PoolStutter ==
    ASSUME \A c \in Conns : Stage(c)' = Stage(c), completed' = completed
    PROVE  [Pool!PoolNext]_Pool!poolVars
BY DEF Pool!poolVars

LEMMA PoolMove ==
    ASSUME NEW c \in Conns, completed' = completed,
           \A d \in Conns \ {c} : Stage(d)' = Stage(d),
           \/ Stage(c) = "absent" /\ Stage(c)' = "serving"
           \/ Stage(c) = "serving" /\ Stage(c)' = IF completed THEN "abandoned" ELSE "retired"
           \/ Stage(c) = "retired" /\ Stage(c)' = "reaped"
    PROVE  [Pool!PoolNext]_Pool!poolVars
<1>1. Stages' = [Stages EXCEPT ![c] = Stage(c)']
  BY DEF Stages
<1> QED
  BY <1>1 DEF Stages, Pool!PoolNext, Pool!Admit, Pool!Retire, Pool!Reap, Pool!Move

LEMMA AsidePool ==
    ASSUME CInv, TInv', Aside
    PROVE  [Pool!PoolNext]_Pool!poolVars
<1>1. \A c \in Conns : Stage(c)' = Stage(c)
  BY SameStage DEF Aside, HandedOver, Queued, CInv
<1>2. CASE completed' = completed
  BY <1>1, <1>2, PoolStutter
<1>3. CASE completed' # completed
  <2>1. ~completed /\ completed'
    BY <1>3 DEF Aside, CInv, TInv, TypeOK, QueueTyped
  <2> QED BY <1>1, <2>1 DEF Pool!PoolNext, Pool!Close
<1> QED BY <1>2, <1>3

LEMMA AcceptPool ==
    ASSUME CInv, CInv', NEW s \in Servers, NEW c \in Conns, Accept(s, c)
    PROVE  [Pool!PoolNext]_Pool!poolVars
<1> USE WorkersDiffer DEF CInv, TInv, TypeOK
<1>1. /\ life[c] = "absent" /\ life' = [life EXCEPT ![c] = "live"]
      /\ pc' = [pc EXCEPT ![s] = "register"]
      /\ UNCHANGED <<queue, completed, taken>>
  BY DEF Accept, Goto, deleterVars
<1>2. \A d \in Conns : HandedOver(d)' <=> HandedOver(d)
  BY <1>1 DEF HandedOver, ThreadsTyped
<1>3. Stage(c) = "absent" /\ Stage(c)' = "serving"
  BY <1>1, <1>2 DEF Stage, LifeInv, HandedOver, ObjectsTyped
<1>4. \A d \in Conns \ {c} : Stage(d)' = Stage(d)
  BY <1>1, <1>2, SameStage DEF ObjectsTyped, Queued
<1> QED BY <1>1, <1>3, <1>4, PoolMove

LEMMA StartPool ==
    ASSUME CInv, CInv', NEW s \in Servers,
           \/ Register(s) \/ RunFlag(s) \/ RunSpawn(s)
           \/ RunAssign(s) /\ life[newConn[s]] = "live"
    PROVE  [Pool!PoolNext]_Pool!poolVars
<1> USE WorkersDiffer DEF CInv, TInv, TypeOK
<1>1. UNCHANGED <<life, queue, completed, taken>>
  BY DEF Register, RunFlag, RunSpawn, RunAssign, Quiet, deleterVars
<1>2. \A d \in Conns : HandedOver(d)' <=> HandedOver(d)
  <2>1. CASE RunSpawn(s)
    <3>1. pc[newConn[s]] = "unborn" /\ newConn[s] \in Conns
      BY <2>1 DEF RunSpawn, LifeInv, Starting, NewConnTyped
    <3> QED BY <2>1, <3>1 DEF RunSpawn, HandedOver, ThreadsTyped
  <2>2. CASE Register(s) \/ RunFlag(s) \/ (RunAssign(s) /\ life[newConn[s]] = "live")
    BY <2>2 DEF Register, RunFlag, RunAssign, Goto, HandedOver, ThreadsTyped
  <2> QED BY <2>1, <2>2
<1>3. \A d \in Conns : Stage(d)' = Stage(d)
  BY <1>1, <1>2, SameStage DEF Queued
<1> QED BY <1>1, <1>3, PoolStutter

LEMMA RetirePool ==
    ASSUME CInv, CInv', NEW c \in Conns, DeregisterConnection(c)
    PROVE  [Pool!PoolNext]_Pool!poolVars
<1> USE WorkersDiffer DEF CInv, TInv, TypeOK
<1>1. UNCHANGED <<life, completed, taken>>
  BY DEF DeregisterConnection, DeleteWorker, deleterVars
<1>2. \A d \in Conns \ {c} : HandedOver(d)' <=> HandedOver(d)
  BY DEF DeregisterConnection, Goto, HandedOver, ThreadsTyped
<1>3. CASE pc[c] # "enqueue"
  <2>1. queue' = queue /\ (HandedOver(c)' <=> HandedOver(c))
    BY <1>3 DEF DeregisterConnection, Goto, HandedOver, deleterVars, ThreadsTyped
  <2>2. \A d \in Conns : Stage(d)' = Stage(d)
    BY <1>1, <1>2, <2>1, SameStage DEF Queued
  <2> QED BY <1>1, <2>2, PoolStutter
<1>4. CASE pc[c] = "enqueue"
  <2>1. DeleteWorker(c) /\ pc' = [pc EXCEPT ![c] = "unlock"]
    BY <1>4 DEF DeregisterConnection, Goto
  <2>2. ~HandedOver(c) /\ HandedOver(c)' /\ life[c] = "live"
    BY <1>4, <2>1 DEF HandedOver, LifeInv, ThreadsTyped, ObjectsTyped
  <2>3. ~Queued(c) /\ taken # c
    BY <2>2 DEF HandsInv, ReapedOnce
  <2>4. \A d \in Conns : Queued(d)' <=> (Queued(d) \/ (d = c /\ ~completed))
    <3>1. CASE completed
      BY <2>1, <3>1 DEF DeleteWorker, Queued
    <3>2. CASE ~completed
      <4>1. /\ DOMAIN queue' = DOMAIN queue \cup {Len(queue) + 1}
            /\ \A i \in DOMAIN queue : queue'[i] = queue[i]
            /\ queue'[Len(queue) + 1] = c
        BY <2>1, <3>2 DEF DeleteWorker, QueueTyped
      <4> QED BY <3>2, <4>1 DEF Queued
    <3> QED BY <3>1, <3>2
  <2>5. Stage(c) = "serving" /\ Stage(c)' = IF completed THEN "abandoned" ELSE "retired"
    BY <1>1, <2>2, <2>3, <2>4 DEF Stage
  <2>6. \A d \in Conns \ {c} : Stage(d)' = Stage(d)
    BY <1>1, <1>2, <2>4, SameStage
  <2> QED BY <1>1, <2>5, <2>6, PoolMove
<1> QED BY <1>3, <1>4

LEMMA ReapPool ==
    ASSUME CInv, CInv', Deleting,
           \/ DeleterTake /\ queue # <<>>
           \/ DeleterWait
           \/ DeleterDelete(owner[taken] = Tcp) /\ taken \in Conns \ joinable
    PROVE  [Pool!PoolNext]_Pool!poolVars
<1> USE WorkersDiffer DEF CInv, TInv, TypeOK
<1>1. completed' = completed /\ \A d \in Conns : HandedOver(d)' <=> HandedOver(d)
  BY DEF DeleterTake, DeleterWait, DeleterDelete, Goto, HandedOver, ThreadsTyped, deleterVars
<1>2. CASE DeleterTake /\ queue # <<>>
  <2>1. /\ UNCHANGED life /\ taken = NoConn
        /\ taken' = Head(queue) /\ queue' = Tail(queue)
    BY <1>2 DEF DeleterTake, Goto, HandsInv
  <2>2. \A d \in Conns : (Queued(d)' \/ taken' = d) <=> Queued(d)
    <3>1. /\ taken' = queue[1] /\ 1 \in DOMAIN queue
          /\ \A i \in DOMAIN queue : i = 1 \/ (i - 1 \in DOMAIN queue' /\ queue'[i - 1] = queue[i])
          /\ \A i \in DOMAIN queue' : i + 1 \in DOMAIN queue /\ queue'[i] = queue[i + 1]
      BY <1>2, <2>1 DEF QueueTyped
    <3> QED BY <3>1 DEF Queued
  <2>3. \A d \in Conns : Stage(d)' = Stage(d)
    BY <1>1, <2>1, <2>2, SameStage
  <2> QED BY <1>1, <2>3, PoolStutter
<1>3. CASE DeleterWait
  <2>1. UNCHANGED <<life, queue, taken>>
    BY <1>3 DEF DeleterWait, deleterVars
  <2>2. \A d \in Conns : Stage(d)' = Stage(d)
    BY <1>1, <2>1, SameStage DEF Queued
  <2> QED BY <1>1, <2>2, PoolStutter
<1>4. CASE DeleterDelete(owner[taken] = Tcp) /\ taken \in Conns \ joinable
  <2>1. /\ life' = [life EXCEPT ![taken] = "deleted"]
        /\ taken' = NoConn /\ queue' = queue
    BY <1>4 DEF DeleterDelete
  <2>2. Stage(taken) = "retired"
    BY <1>4 DEF HandsInv, ReapedOnce, Stage
  <2>3. ASSUME NEW d \in Conns, d = taken PROVE Stage(d)' = "reaped"
    BY <2>1, <2>3, StageIs DEF ObjectsTyped, Stage
  <2>4. \A d \in Conns \ {taken} : Stage(d)' = Stage(d)
    BY <1>1, <2>1, SameStage DEF ObjectsTyped, Queued
  <2>5. PICK c \in Conns : c = taken
    BY <1>4
  <2> QED BY <1>1, <2>2, <2>3, <2>4, <2>5, PoolMove
<1> QED BY <1>2, <1>3, <1>4

LEMMA PoolStep ==
    ASSUME CInv, CInv', [Next]_vars
    PROVE  [Pool!PoolNext]_Pool!poolVars
<1>1. TInv /\ TInv' /\ MainInv
  BY DEF CInv
<1>2. ASSUME Aside PROVE [Pool!PoolNext]_Pool!poolVars
  BY <1>1, <1>2, AsidePool
<1>3. CASE UNCHANGED vars
  BY <1>2, <1>3 DEF vars, Aside, workerVars, deleterVars, baseVars, connVars
<1>4. ASSUME NEW c \in Conns, Connecting(c) PROVE [Pool!PoolNext]_Pool!poolVars
  BY <1>1, <1>2, <1>4, ConnectionAside, RetirePool
<1>5. ASSUME NEW s \in Servers, Accepting(s) PROVE [Pool!PoolNext]_Pool!poolVars
  BY <1>1, <1>2, <1>5, AcceptorAside, StartPool
<1>6. CASE Deleting
  BY <1>1, <1>2, <1>6, DeleterAside, ReapPool
<1>7. CASE Maining \/ \E t \in Threads : Handling(t)
  BY <1>1, <1>2, <1>7, MainAside, HandlerAside
<1>8. CASE Environment
  BY <1>1, <1>2, <1>8, EnvironmentAside, AcceptPool
<1> QED BY <1>3, <1>4, <1>5, <1>6, <1>7, <1>8 DEF Next, Over

LEMMA PoolStart == Init => Pool!PoolInit
BY DEF Init, WorkerInit, DeleterInit, Stage, Pool!PoolInit

(* The process keeps the promise of WorkerPool, for any number of          *)
(* connections of both servers, through every race and every shutdown.     *)
THEOREM ServerImplementsPool == Spec => ImplementsPool
<1> QED
  BY CInvInit, CInvNext, PoolStart, PoolStep, PTL DEF Spec, ImplementsPool, Pool!PoolSpec

-----------------------------------------------------------------------------
(* The other refinement: threads_ is a queue of one consumer.  Nobody but  *)
(* the deleter takes from it or moves the deleter's thread there.          *)
QueueAside == UNCHANGED <<queue, completed>> /\ (pc'[Deleter] = "take" <=> pc[Deleter] = "take")

LEMMA AsideHandover ==
    ASSUME QueueAside
    PROVE  [Handover!HandoverNext]_Handover!handoverVars
BY DEF QueueAside, Handover!handoverVars

LEMMA ConnectionHandover ==
    ASSUME TInv, NEW c \in Conns, Connecting(c)
    PROVE  [Handover!HandoverNext]_Handover!handoverVars
<1> USE WorkersDiffer DEF TInv, TypeOK, ThreadsTyped
<1>1. CASE Roams(c) \/ Fails({"uncaught exception", "used a destroyed server"})
  BY <1>1, AsideHandover DEF Roams, Fails, sharedVars, deleterVars, QueueAside
<1>2. CASE DeregisterConnection(c)
  <2>1. pc'[Deleter] = pc[Deleter]
    BY <1>2 DEF DeregisterConnection, Goto
  <2>2. CASE UNCHANGED deleterVars
    BY <2>1, <2>2, AsideHandover DEF QueueAside, deleterVars
  <2>3. CASE DeleteWorker(c) /\ UNCHANGED completed
    <3>1. CASE completed
      BY <2>1, <2>3, <3>1, AsideHandover DEF QueueAside, DeleteWorker
    <3>2. CASE ~completed
      BY <2>1, <2>3, <3>2 DEF DeleteWorker, Handover!HandoverNext, Handover!Hand
    <3> QED BY <3>1, <3>2
  <2> QED BY <1>2, <2>2, <2>3 DEF DeregisterConnection
<1> QED BY <1>1, <1>2, ConnectionKinds DEF Connecting

LEMMA AcceptorHandover ==
    ASSUME TInv, NEW s \in Servers, Accepting(s)
    PROVE  [Handover!HandoverNext]_Handover!handoverVars
<1> USE WorkersDiffer DEF TInv, TypeOK, ThreadsTyped
<1>1. CASE Listens(s)
  BY <1>1, AsideHandover DEF Listens, deleterVars, QueueAside
<1>2. CASE Fails({"uncaught exception", "assigned to a deleted worker"})
  BY <1>2, AsideHandover DEF Fails, sharedVars, deleterVars, QueueAside
<1>3. CASE Register(s) \/ RunFlag(s) \/ RunAssign(s)
  BY <1>3, AsideHandover DEF Register, RunFlag, RunAssign, Goto, Quiet, deleterVars, QueueAside
<1>4. CASE RunSpawn(s)
  <2>1. newConn[s] \in Conns \cup {NoConn} /\ pc' = [pc EXCEPT ![s] = "assign", ![newConn[s]] = "start"]
    BY <1>4 DEF RunSpawn, ServersTyped
  <2>2. pc'[Deleter] = pc[Deleter]
    BY <2>1, WorkerAssumption DEF NoConn
  <2> QED BY <1>4, <2>2, AsideHandover DEF RunSpawn, Quiet, deleterVars, QueueAside
<1> QED BY <1>1, <1>2, <1>3, <1>4, AcceptorKinds DEF Accepting

LEMMA DeleterHandover ==
    ASSUME TInv, Deleting
    PROVE  [Handover!HandoverNext]_Handover!handoverVars
<1> USE WorkersDiffer DEF TInv, TypeOK, ThreadsTyped
<1>1. CASE DeleterTop
  <2>1. CASE completed /\ queue = <<>>
    BY <1>1, <2>1, AsideHandover DEF DeleterTop, Goto, deleterVars, QueueAside
  <2>2. CASE ~(completed /\ queue = <<>>)
    BY <1>1, <2>2 DEF DeleterTop, Goto, deleterVars, Handover!HandoverNext, Handover!Ask
  <2> QED BY <2>1, <2>2
<1>2. CASE DeleterTake
  BY <1>2 DEF DeleterTake, Goto, Handover!HandoverNext, Handover!Receive, Handover!GiveUp
<1>3. CASE DeleterWait
  BY <1>3, AsideHandover DEF DeleterWait, Goto, deleterVars, QueueAside
<1>4. ASSUME NEW c \in Conns, DeleterDelete(owner[c] = Tcp)
      PROVE  [Handover!HandoverNext]_Handover!handoverVars
  BY <1>4, AsideHandover DEF DeleterDelete, Goto, QueueAside
<1> QED BY <1>1, <1>2, <1>3, <1>4 DEF Deleting, DeleterStep

LEMMA MainHandover ==
    ASSUME TInv, MainInv, Maining
    PROVE  [Handover!HandoverNext]_Handover!handoverVars
<1> USE WorkersDiffer DEF TInv, TypeOK, ThreadsTyped
<1>1. CASE MainSpawn
  BY <1>1, AsideHandover DEF MainSpawn, MainGoto, MainInv, MainTyped, deleterVars, QueueAside
<1>2. CASE MainStop
  BY <1>2 DEF MainStop, StopDeleter, Handover!HandoverNext, Handover!Complete
<1>3. CASE UNCHANGED <<pc, deleterVars>>
  BY <1>3, AsideHandover DEF deleterVars, QueueAside
<1> QED BY <1>1, <1>2, <1>3 DEF Maining, MainStep, MainRun, MainAssign, MainWait,
      MainReturn, MainExit, workerVars

LEMMA WokenHandover ==
    ASSUME TInv, UNCHANGED <<queue, completed>>, pc' = pc \/ Wakes
    PROVE  [Handover!HandoverNext]_Handover!handoverVars
BY WakeTyped, WorkersDiffer, AsideHandover DEF QueueAside, ResumeAt, TInv, TypeOK, ThreadsTyped, DeleterPcs

LEMMA EnvironmentHandover ==
    ASSUME TInv, Environment
    PROVE  [Handover!HandoverNext]_Handover!handoverVars
<1> USE WorkersDiffer DEF TInv, TypeOK, ThreadsTyped
<1>1. ASSUME NEW c \in Conns, ClientStep(c) PROVE QueueAside
  BY <1>1, ClientKinds DEF Roams, Fails, sharedVars, deleterVars, workerVars, QueueAside
<1>2. ASSUME NEW s \in Servers, NEW c \in Conns, Accept(s, c) PROVE QueueAside
  BY <1>2 DEF Accept, Goto, deleterVars, QueueAside
<1>3. ASSUME NEW t \in SignalThreads, Interrupt(t), UNCHANGED deleterVars
      PROVE  [Handover!HandoverNext]_Handover!handoverVars
  BY <1>3, InterruptWakes, WokenHandover DEF deleterVars
<1> QED BY <1>1, <1>2, <1>3, AsideHandover DEF Environment

LEMMA HandoverStep ==
    ASSUME CInv, [Next]_vars
    PROVE  [Handover!HandoverNext]_Handover!handoverVars
<1>1. TInv /\ MainInv
  BY DEF CInv
<1>2. CASE UNCHANGED vars \/ Over
  BY <1>2, AsideHandover DEF Over, vars, workerVars, deleterVars, QueueAside
<1>3. ASSUME NEW t \in Threads, Handling(t)
      PROVE  [Handover!HandoverNext]_Handover!handoverVars
  BY <1>1, <1>3, HandlerKinds, WokenHandover DEF Handling, Stops, TInv
<1> QED BY <1>1, <1>2, <1>3, ConnectionHandover, AcceptorHandover, DeleterHandover,
      MainHandover, EnvironmentHandover DEF Next

LEMMA HandoverStart == Init => queue = <<>> /\ ~completed
BY DEF Init, DeleterInit

(* All threads together use threads_ as module HandoverQueue allows, so    *)
(* that what is checked of the collection on that use holds here.          *)
THEOREM ServerUsesHandover == Spec => UsesHandover
<1>1. (pc[Deleter] = "take") \in BOOLEAN
  OBVIOUS
<1> QED
  BY <1>1, CInvInit, CInvNext, HandoverStart, HandoverStep, PTL
     DEF Spec, UsesHandover, Handover!HandoverSafety

-----------------------------------------------------------------------------
(* The walks of the handlers: the connection a handler is at was in the    *)
(* set when its loop reached it, and has left it only by deregistering or  *)
(* because another handler has emptied the set.  Two handlers are at work  *)
(* only after two SIGINTs.                                                 *)
Gone == {"enqueue", "unlock", "dead"}

WalkInv ==
    \A t \in Threads : hPc[t] \in Walking =>
        /\ hCur[t] \in Conns /\ owner[hCur[t]] = hOn[t] /\ life[hCur[t]] # "absent"
        /\ hCur[t] \in connections[hOn[t]] \/ pc[hCur[t]] \in Gone \/ signals > 1
        /\ pc[hOn[t]] = "register" => newConn[hOn[t]] # hCur[t]

ActiveInv ==
    /\ \A t \in Threads : hPc[t] # "idle" => signals > 0
    /\ \A t, u \in Threads : t # u /\ hPc[t] # "idle" /\ hPc[u] # "idle" => signals > 1

HandlerFaults == {"stopped a deleted worker", "advanced a dangling iterator",
                  "signalled a missing thread"}

(* What everything but the handlers does to the walks.                     *)
WalkFrame ==
    /\ \/ UNCHANGED handlerVars
       \/ /\ \E t \in Threads : hPc' = [hPc EXCEPT ![t] = "flag"]
          /\ \A t \in Threads : hOn'[t] = hOn[t] \/ hPc'[t] = "flag"
          /\ hCur' = hCur /\ signals' = signals + 1
    /\ \A s \in Servers : \A c \in connections[s] :
         c \in connections'[s] \/ pc'[c] \in Gone
    /\ \A c \in Conns : pc[c] \in Gone => pc'[c] \in Gone
    /\ \A c \in Conns : life[c] # "absent" => life'[c] # "absent" /\ owner'[c] = owner[c]
    /\ \A s \in Servers : pc'[s] = "register" =>
         (pc[s] = "register" /\ newConn'[s] = newConn[s]) \/ life[newConn'[s]] = "absent"
    /\ fault' \notin HandlerFaults

LEMMA ConnectionWalk ==
    ASSUME CInv, NEW c \in Conns, Connecting(c)
    PROVE  WalkFrame
<1> USE WorkersDiffer DEF CInv, TInv, TypeOK, WalkFrame, HandlerFaults, Gone
<1>1. UNCHANGED handlerVars /\ fault = "none"
  BY DEF Connecting, Alive
<1>2. UNCHANGED newConn
  BY DEF Connecting
<1>3. CASE Roams(c)
  BY <1>1, <1>3, <1>2 DEF Roams, Roaming, sharedVars, baseVars, connVars, ThreadsTyped
<1>4. CASE Fails({"uncaught exception", "used a destroyed server"})
  BY <1>1, <1>4, <1>2 DEF Fails, sharedVars, baseVars, connVars
<1>5. CASE DeregisterConnection(c)
  <2>1. UNCHANGED <<life, owner, fault>>
    BY <1>5 DEF DeregisterConnection, connVars
  <2>2. pc'[c] \in Gone /\ \A w \in Workers : w # c => pc'[w] = pc[w]
    BY <1>5 DEF DeregisterConnection, Goto, ThreadsTyped
  <2>3. \A s \in Servers : \A d \in connections[s] : d \in connections'[s] \/ d = c
    BY <1>5 DEF DeregisterConnection, DeregisterErase, DeregisterUnlock, baseVars, ServersTyped
  <2> QED BY <1>1, <1>2, <2>1, <2>2, <2>3
<1> QED BY <1>3, <1>4, <1>5, ConnectionKinds DEF Connecting

LEMMA AcceptorWalk ==
    ASSUME CInv, NEW s \in Servers, Accepting(s)
    PROVE  WalkFrame
<1> USE WorkersDiffer DEF CInv, TInv, TypeOK, WalkFrame, HandlerFaults, Gone
<1>1. UNCHANGED handlerVars /\ fault = "none"
  BY DEF Accepting, Alive
<1>2. CASE Listens(s)
  BY <1>1, <1>2 DEF Listens, Listening, baseVars, connVars, ThreadsTyped
<1>3. CASE /\ Fails({"uncaught exception", "assigned to a deleted worker"})
           /\ UNCHANGED newConn
  BY <1>1, <1>3 DEF Fails, sharedVars, baseVars, connVars
<1>4. CASE Register(s)
  BY <1>1, <1>4 DEF Register, Goto, RegisterConnection, connVars, ThreadsTyped, ServersTyped
<1>5. CASE RunFlag(s)
  BY <1>1, <1>5 DEF RunFlag, Goto, Quiet, baseVars, connVars, ThreadsTyped
<1>6. CASE RunSpawn(s)
  <2>1. newConn[s] \in Conns /\ pc[newConn[s]] = "unborn"
    BY <1>6 DEF RunSpawn, LifeInv, Starting, NewConnTyped
  <2> QED BY <1>1, <1>6, <2>1 DEF RunSpawn, Quiet, baseVars, connVars, ThreadsTyped
<1>7. CASE RunAssign(s) /\ life[newConn[s]] = "live"
  BY <1>1, <1>7 DEF RunAssign, Goto, Quiet, baseVars, connVars, ThreadsTyped, ServersTyped
<1> QED BY <1>2, <1>3, <1>4, <1>5, <1>6, <1>7, AcceptorKinds DEF Accepting

LEMMA DeleterWalk ==
    ASSUME CInv, Deleting
    PROVE  WalkFrame
<1> USE WorkersDiffer DEF CInv, TInv, TypeOK, WalkFrame, HandlerFaults, Gone
<1>1. UNCHANGED <<handlerVars, connections, owner>> /\ fault = "none"
  BY DEF Deleting, DeleterStep, baseVars, connVars, Alive
<1>2. UNCHANGED newConn /\ \A w \in Conns \cup Servers : pc'[w] = pc[w]
  BY DEF Deleting, DeleterStep, DeleterTop, DeleterTake, DeleterWait, DeleterDelete,
     Goto, ThreadsTyped
<1>3. life' = life \/ (taken \in Conns /\ life' = [life EXCEPT ![taken] = "deleted"])
  BY DEF Deleting, DeleterStep, DeleterTop, DeleterTake, DeleterWait, DeleterDelete
<1>4. fault' \notin HandlerFaults
  BY <1>1 DEF Deleting, DeleterStep, DeleterTop, DeleterTake, DeleterWait, DeleterDelete, Fail
<1> QED BY <1>1, <1>2, <1>3, <1>4 DEF ObjectsTyped

LEMMA MainWalk ==
    ASSUME CInv, Maining
    PROVE  WalkFrame
<1> USE WorkersDiffer DEF CInv, TInv, TypeOK, WalkFrame, HandlerFaults, Gone
<1>1. UNCHANGED <<handlerVars, connections, owner>> /\ fault = "none"
  BY DEF Maining, MainStep, connVars, Alive
<1>2. UNCHANGED <<life, fault>>
  BY DEF Maining, MainStep, MainRun, MainSpawn, MainAssign, MainWait, MainStop,
     MainReturn, MainExit, workerVars
<1>3. /\ UNCHANGED newConn
      /\ \A c \in Conns : pc'[c] = pc[c]
      /\ \A s \in Servers : pc'[s] = pc[s] \/ pc'[s] = "setup"
  BY DEF Maining, MainStep, MainRun, MainSpawn, MainAssign, MainWait, MainStop,
     MainReturn, MainExit, workerVars, ThreadsTyped, MainTyped
<1> QED BY <1>1, <1>2, <1>3

LEMMA EnvironmentWalk ==
    ASSUME CInv, Environment
    PROVE  WalkFrame
<1> USE WorkersDiffer DEF CInv, TInv, TypeOK, WalkFrame, HandlerFaults, Gone
<1>1. fault = "none"
  BY DEF Environment, Alive
<1>2. ASSUME NEW c \in Conns, ClientStep(c), UNCHANGED <<newConn, mainVars, handlerVars>>
      PROVE  WalkFrame
  <2>1. UNCHANGED handlerVars
    BY <1>2
  <2>2. CASE Roams(c)
    BY <1>1, <1>2, <2>1, <2>2 DEF Roams, Roaming, sharedVars, baseVars, connVars, ThreadsTyped
  <2>3. CASE UNCHANGED <<workerVars, deleterVars, baseVars, owner>>
    BY <1>1, <1>2, <2>1, <2>3 DEF workerVars, baseVars
  <2>4. CASE Fails({"used a destroyed server"})
    BY <1>1, <1>2, <2>1, <2>4 DEF Fails, sharedVars, baseVars, connVars
  <2> QED BY <1>2, <2>2, <2>3, <2>4, ClientKinds
<1>3. ASSUME NEW s \in Servers, NEW c \in Conns, Accept(s, c),
             UNCHANGED <<mainVars, handlerVars>>
      PROVE  WalkFrame
  BY <1>1, <1>3 DEF Accept, Goto, baseVars, ThreadsTyped, ObjectsTyped, ServersTyped
<1>4. ASSUME NEW t \in SignalThreads, Interrupt(t),
             UNCHANGED <<deleterVars, baseVars, connVars, newConn, mainVars>>
      PROVE  WalkFrame
  <2>1. /\ t \in Threads /\ hPc' = [hPc EXCEPT ![t] = "flag"]
        /\ hOn' = [hOn EXCEPT ![t] = Modbus] /\ hCur' = hCur /\ signals' = signals + 1
        /\ UNCHANGED <<life, owner, connections, fault>>
    BY <1>4, BoundsAssumption DEF Interrupt, HandlerGoto, baseVars, connVars
  <2>2. /\ \A c \in Conns : pc[c] \in Gone => pc'[c] \in Gone
        /\ \A s \in Servers : pc'[s] = "register" => pc[s] = "register"
    <3>1. CASE Wakes
      BY <3>1, WakeTyped DEF ResumeAt
    <3> QED BY <1>4, <3>1, InterruptWakes
  <2>3. \A u \in Threads : hOn'[u] = hOn[u] \/ hPc'[u] = "flag"
    BY <2>1 DEF HandlerTyped
  <2> QED BY <1>1, <1>4, <2>1, <2>2, <2>3
<1> QED BY <1>2, <1>3, <1>4 DEF Environment

LEMMA FrameWalk ==
    ASSUME TypeOK, WalkInv, ActiveInv, WalkFrame
    PROVE  WalkInv' /\ ActiveInv'
<1> USE DEF TypeOK, HandlerTyped
<1>1. signals' >= signals /\ signals \in Nat /\ signals' \in Nat
  BY DEF WalkFrame, handlerVars
<1>2. WalkInv'
  <2> SUFFICES ASSUME NEW t \in Threads, hPc'[t] \in Walking
               PROVE  /\ hCur'[t] \in Conns /\ owner'[hCur'[t]] = hOn'[t]
                      /\ life'[hCur'[t]] # "absent"
                      /\ \/ hCur'[t] \in connections'[hOn'[t]] \/ pc'[hCur'[t]] \in Gone
                         \/ signals' > 1
                      /\ pc'[hOn'[t]] = "register" => newConn'[hOn'[t]] # hCur'[t]
    BY DEF WalkInv
  <2>1. hPc'[t] = hPc[t] /\ hOn'[t] = hOn[t] /\ hCur'[t] = hCur[t] /\ hOn[t] \in Servers
    BY DEF WalkFrame, handlerVars, Walking
  <2> QED BY <1>1, <2>1 DEF WalkInv, WalkFrame
<1>3. ActiveInv'
  BY <1>1 DEF WalkFrame, ActiveInv, handlerVars
<1> QED BY <1>2, <1>3

LEMMA HandlerWalk ==
    ASSUME CInv, WalkInv, ActiveInv, NEW t \in Threads, Handling(t)
    PROVE  WalkInv' /\ ActiveInv'
<1> USE DEF CInv, TInv, TypeOK, Handling, HandlerStep
<1>1. /\ UNCHANGED <<life, owner, newConn>>
      /\ \A c \in Conns : pc[c] \in Gone => pc'[c] \in Gone
      /\ \A s \in Servers : pc'[s] = "register" => pc[s] = "register"
  <2>1. Aside
    BY HandlerAside
  <2> QED BY <2>1 DEF Aside, Gone, Starting
<1>2. /\ UNCHANGED signals
      /\ \A u \in Threads : u # t => hPc'[u] = hPc[u] /\ hOn'[u] = hOn[u] /\ hCur'[u] = hCur[u]
      /\ hPc[t] # "idle"
  BY DEF StopStep, StopFlag, StopClose, StopCancel, StopNext, StopDeleted, StopConnFlag,
     StopConnClose, StopConnCancel, StopMissing, StopRaces, StopClear, StopOnDestroyed,
     HandlerGoto, HandlerTyped, handlerVars
<1>3. connections' = connections \/ StopClear(t)
  OBVIOUS
<1>4. ActiveInv'
  BY <1>2 DEF ActiveInv
<1>5. ASSUME NEW u \in Threads, u # t, hPc[u] \in Walking
      PROVE  hCur[u] \in connections'[hOn[u]] \/ pc'[hCur[u]] \in Gone \/ signals > 1
  <2>1. CASE connections' = connections
    BY <1>1, <1>5, <2>1 DEF WalkInv
  <2>2. CASE StopClear(t)
    BY <1>2, <1>5 DEF ActiveInv, Walking
  <2> QED BY <1>3, <2>1, <2>2
<1>6. ASSUME hPc'[t] \in Walking
      PROVE  /\ hCur'[t] \in Conns /\ owner[hCur'[t]] = hOn'[t] /\ life[hCur'[t]] # "absent"
             /\ hCur'[t] \in connections'[hOn'[t]] \/ pc'[hCur'[t]] \in Gone \/ signals > 1
             /\ pc'[hOn'[t]] = "register" => newConn[hOn'[t]] # hCur'[t]
  <2>1. CASE StopFlag(t) \/ StopClose(t) \/ StopCancel(t) \/ StopClear(t)
    BY <1>6, <2>1 DEF StopFlag, StopClose, StopCancel, StopClear, HandlerGoto, HandlerTyped, Walking
  <2>2. ASSUME hPc[t] \in Walking, UNCHANGED <<hOn, hCur, connections>>
        PROVE  /\ hCur'[t] \in Conns /\ owner[hCur'[t]] = hOn'[t] /\ life[hCur'[t]] # "absent"
               /\ hCur'[t] \in connections'[hOn'[t]] \/ pc'[hCur'[t]] \in Gone \/ signals > 1
               /\ pc'[hOn'[t]] = "register" => newConn[hOn'[t]] # hCur'[t]
    BY <1>1, <2>2 DEF WalkInv, HandlerTyped
  <2>3. CASE StopNext(t)
    <3>1. UNCHANGED <<hOn, connections>>
      BY <2>3 DEF StopNext, StopClear, HandlerGoto
    <3>2. CASE hCur'[t] \in Following(t)
      <4>1. hCur'[t] \in connections[hOn[t]] /\ hOn[t] \in Servers
        BY <3>2 DEF Following, HandlerTyped
      <4>2. hCur'[t] \in Conns /\ owner[hCur'[t]] = hOn[t]
        BY <4>1 DEF SetsInv, ServersTyped
      <4>3. life[hCur'[t]] # "absent"
        BY <4>1, <4>2, WorkersDiffer DEF LifeInv
      <4>4. pc[hOn[t]] = "register" => newConn[hOn[t]] # hCur'[t]
        BY <4>1, <4>2 DEF SetsInv, LifeInv, Starting
      <4> QED BY <1>1, <3>1, <4>1, <4>2, <4>3, <4>4
    <3>3. CASE UNCHANGED <<hPc, hCur>>
      BY <1>6, <2>2, <3>1, <3>3
    <3>4. CASE hPc' = [hPc EXCEPT ![t] = "clear"]
      BY <1>6, <3>4 DEF HandlerTyped, Walking
    <3>5. \/ hCur'[t] \in Following(t)
          \/ UNCHANGED <<hPc, hCur>>
          \/ hPc' = [hPc EXCEPT ![t] = "clear"]
      BY <2>3 DEF StopNext, HandlerTyped
    <3> QED BY <3>2, <3>3, <3>4, <3>5
  <2>4. CASE StopConnFlag(t) \/ StopConnClose(t) \/ StopConnCancel(t)
    BY <2>2, <2>4 DEF StopConnFlag, StopConnClose, StopConnCancel, StopClear, HandlerGoto, Walking
  <2>5. CASE StopDeleted(t) \/ StopMissing(t) \/ StopRaces(t)
    <3>1. UNCHANGED <<hPc, hOn, hCur>> /\ (connections' = connections \/ hPc[t] = "clear")
      BY <1>3, <2>5 DEF StopDeleted, StopMissing, StopRaces, StopClear, HandlerGoto, handlerVars
    <3> QED BY <1>6, <2>2, <3>1 DEF Walking
  <2>6. CASE StopOnDestroyed(t) /\ UNCHANGED connections
    BY <1>6, <2>2, <2>6 DEF StopOnDestroyed, handlerVars
  <2> QED BY <2>1, <2>3, <2>4, <2>5, <2>6 DEF StopStep
<1>7. WalkInv'
  BY <1>1, <1>2, <1>5, <1>6 DEF WalkInv, HandlerTyped
<1> QED BY <1>4, <1>7

LEMMA HandlerFaultsNamed ==
    ASSUME CInv, WalkInv, NEW t \in Threads, Handling(t)
    PROVE  StopRace' /\ MissingThread'
<1> USE DEF CInv, TInv, TypeOK
<1>1. CASE StopMissing(t)
  <2>1. /\ UNCHANGED <<life, joinable, pc, hPc, hOn, hCur, owner, taken, newConn, mainPc>>
        /\ fault' = "signalled a missing thread"
    BY <1>1 DEF StopMissing, CancelMissing, Fail, Handling, HandlerStep, StopClear,
       connVars, deleterVars, mainVars, workerVars, handlerVars
  <2>2. CASE hPc[t] = "cancel" /\ hOn[t] \notin joinable
    <3>1. mainPc \in {"run", "spawn", "assign"} \/ pc[hOn[t]] = "dead"
      BY <2>2, WorkersDiffer DEF MainInv, MainTyped, HandlerTyped
    <3> QED BY <2>1, <2>2, <3>1 DEF StopRace, MissingThread
  <2>3. CASE hPc[t] = "connCancel" /\ life[hCur[t]] # "deleted" /\ hCur[t] \notin joinable
    <3>1. hCur[t] \in Conns /\ owner[hCur[t]] \in Servers /\ life[hCur[t]] = "live"
      BY <2>3 DEF WalkInv, Walking, LifeInv, ObjectsTyped
    <3>2. CASE pc[hCur[t]] = "unborn"
      <4>1. /\ pc[owner[hCur[t]]] \in {"register", "run", "spawn"}
            /\ newConn[owner[hCur[t]]] = hCur[t]
        BY <3>1, <3>2 DEF LifeInv, Starting
      <4>2. pc[owner[hCur[t]]] # "register"
        BY <2>3, <4>1 DEF WalkInv, Walking
      <4> QED BY <2>1, <2>3, <4>1, <4>2 DEF StopRace, MissingThread
    <3>3. CASE pc[hCur[t]] # "unborn"
      <4>1. BeingAssigned(hCur[t]) \/ (taken = hCur[t] /\ pc[hCur[t]] = "dead")
        BY <2>3, <3>1, <3>3 DEF JoinInv
      <4> QED BY <2>1, <2>3, <4>1 DEF StopRace, MissingThread, BeingAssigned
    <3> QED BY <3>2, <3>3
  <2> QED BY <1>1, <2>2, <2>3 DEF StopMissing, CancelMissing
<1>2. CASE StopDeleted(t)
  <2>1. /\ UNCHANGED <<pc, hPc, hOn, hCur, connections>>
        /\ fault' = "stopped a deleted worker"
        /\ life[hCur[t]] = "deleted" /\ hPc[t] \in Walking
    BY <1>2 DEF StopDeleted, Fail, Handling, HandlerStep, StopClear, HandlerGoto, Walking,
       handlerVars
  <2>2. hCur[t] \in Conns /\ owner[hCur[t]] = hOn[t] /\ HandedOver(hCur[t])
    BY <2>1 DEF WalkInv, LifeInv
  <2>3. hCur[t] \notin connections[hOn[t]] /\ pc[hCur[t]] \in {"enqueue", "unlock", "dead"}
    BY <2>2 DEF SetsInv, HandedOver, HandlerTyped
  <2> QED BY <2>1, <2>3 DEF StopRace, MissingThread
<1>3. CASE StopNext(t) /\ fault' # "none"
  <2>1. /\ UNCHANGED <<pc, hPc, hOn, hCur, connections, signals>>
        /\ fault' = "advanced a dangling iterator"
        /\ hPc[t] = "next" /\ hCur[t] \notin connections[hOn[t]]
    BY <1>3 DEF StopNext, Fail, Handling, HandlerStep, StopClear, HandlerGoto, Alive
  <2>2. pc[hCur[t]] \in Gone \/ signals > 1
    BY <2>1 DEF WalkInv, Walking
  <2> QED BY <2>1, <2>2 DEF StopRace, MissingThread, Gone, Walking
<1>4. CASE fault' \in {"none", "used a destroyed server", "raced for a connection set"}
  BY <1>4 DEF StopRace, MissingThread
<1> QED
  BY <1>1, <1>2, <1>3, <1>4
     DEF Handling, HandlerStep, StopStep, StopFlag, StopClose, StopCancel, StopConnFlag,
         StopConnClose, StopConnCancel, StopClear, StopRaces, StopOnDestroyed, Fail, Alive,
         workerVars

FInv == CInv /\ WalkInv /\ ActiveInv /\ StopRace /\ MissingThread

LEMMA FInvNext == FInv /\ [Next]_vars => FInv'
<1> SUFFICES ASSUME FInv, [Next]_vars PROVE FInv'
  OBVIOUS
<1>1. CInv /\ CInv' /\ WalkInv /\ ActiveInv
  BY CInvNext DEF FInv
<1>2. CASE UNCHANGED vars
  BY <1>1, <1>2
     DEF FInv, vars, WalkInv, ActiveInv, StopRace, MissingThread, workerVars, deleterVars,
         baseVars, connVars, mainVars, handlerVars
<1>3. CASE WalkFrame
  <2>1. WalkInv' /\ ActiveInv'
    BY <1>1, <1>3, FrameWalk DEF CInv, TInv
  <2>2. StopRace' /\ MissingThread'
    BY <1>3 DEF WalkFrame, HandlerFaults, StopRace, MissingThread
  <2> QED BY <1>1, <2>1, <2>2 DEF FInv
<1>4. CASE \E t \in Threads : Handling(t)
  BY <1>1, <1>4, HandlerWalk, HandlerFaultsNamed DEF FInv
<1> QED
  BY <1>1, <1>2, <1>3, <1>4, ConnectionWalk, AcceptorWalk, DeleterWalk, MainWalk,
     EnvironmentWalk DEF Next, Over

LEMMA FInvInit == Init => FInv
<1>1. Init => (\A t \in Threads : hPc[t] = "idle") /\ fault = "none"
  BY DEF Init, WorkerInit
<1> QED BY <1>1, CInvInit DEF FInv, WalkInv, ActiveInv, Walking, StopRace, MissingThread

(* stopConnections meets a deleted connection or a dangling iterator only  *)
(* if the connection being stopped deregisters at the same time or another *)
(* handler empties the set.                                                *)
THEOREM StopFailsInNamedRaces == Spec => []StopRace
<1>1. FInv => StopRace
  BY DEF FInv
<1> QED BY <1>1, FInvInit, FInvNext, PTL DEF Spec

(* cancelIO finds no thread behind the handle only if the worker is being  *)
(* started or has just been joined.                                        *)
THEOREM SignalsMissOnlyThen == Spec => []MissingThread
<1>1. FInv => MissingThread
  BY DEF FInv
<1> QED BY <1>1, FInvInit, FInvNext, PTL DEF Spec
=============================================================================
