----------------------------- MODULE QuietProofs -----------------------------
(***************************************************************************)
(* Proof that the process comes to no harm before a SIGINT, the named      *)
(* races apart, for any number of clients, numbers and connections.        *)
(***************************************************************************)
EXTENDS DescriptorProofs

(* A server that has accepted a client is in its accept loop and stays in  *)
(* it, since only a SIGINT clears its flag; so that main, which waits for  *)
(* both servers, destroys nothing that a connection uses.                  *)
InLoop == ServerPcs \ {"unborn", "setup", "configure", "dead"}

ServingInv ==
    /\ destroyed => mainPc \in {"exit", "exited"}
    /\ signals = 0 =>
         /\ \A s \in Servers :
              pc[s] # "unborn" \/ (mainPc = "spawn" /\ mainOn = s) => bRunning[s]
         /\ \A c \in Conns : life[c] # "absent" => pc[owner[c]] \in InLoop
         /\ pc[Tcp] = "configure" => fd[Tcp] # NoConn

(* Steps that change nothing ServingInv is about. *)
ServingSame ==
    /\ UNCHANGED <<signals, mainPc, mainOn, destroyed, life, owner>>
    /\ \A s \in Servers : pc'[s] = pc[s] /\ bRunning'[s] = bRunning[s]
    /\ fd'[Tcp] = fd[Tcp]

LEMMA SameKeeps ==
    ASSUME CInv, ServingInv, ServingSame
    PROVE  ServingInv'
<1>1. \A c \in Conns : life[c] # "absent" => owner[c] \in Servers
  BY DEF CInv, LifeInv
<1> QED BY <1>1, WorkersDiffer DEF ServingInv, ServingSame

LEMMA ConnectionSame ==
    ASSUME CInv, NEW c \in Conns, Connecting(c)
    PROVE  ServingSame
<1>1. UNCHANGED <<signals, mainPc, mainOn, fd>>
  BY DEF Connecting, ConnectionStep, TcpStart, Check, ReadCmd, ReadArg, Serve, Select,
     Receive, Waits, SleepOn, PeerGoneWakes, ModbusStart, SelectEof, HandleOnDestroyed,
     Handle, ReceiveEof, ReceiveEnds, DeregisterOnDestroyed, DeregisterConnection,
     fileVars, mainVars, handlerVars
<1>2. UNCHANGED <<destroyed, life, owner, bRunning>> /\ \A s \in Servers : pc'[s] = pc[s]
  <2>1. CASE Roams(c) \/ Fails({"uncaught exception", "used a destroyed server"})
    BY <2>1, WorkersDiffer DEF Roams, Fails, sharedVars, baseVars, connVars,
       CInv, TInv, TypeOK, ThreadsTyped
  <2>2. CASE DeregisterConnection(c)
    BY <2>2, WorkersDiffer
       DEF DeregisterConnection, DeregisterErase, DeregisterUnlock, Goto, baseVars, connVars,
           CInv, TInv, TypeOK, ThreadsTyped
  <2> QED BY <2>1, <2>2, ConnectionKinds DEF Connecting, CInv, TInv, TypeOK
<1> QED BY <1>1, <1>2 DEF ServingSame

LEMMA DeleterServing ==
    ASSUME CInv, ServingInv, Deleting
    PROVE  ServingInv'
<1> USE WorkersDiffer DEF CInv, TInv, TypeOK
<1>1. UNCHANGED <<signals, mainPc, mainOn, destroyed, owner, bRunning>>
  BY DEF Deleting, DeleterStep, DeleterTop, DeleterTake, DeleterWait, DeleterDelete,
     baseVars, connVars, mainVars, handlerVars
<1>2. \A s \in Servers : pc'[s] = pc[s]
  BY DEF Deleting, DeleterStep, DeleterTop, DeleterTake, DeleterWait, DeleterDelete, Goto,
     ThreadsTyped
<1>3. CASE UNCHANGED <<life, fd>>
  BY <1>1, <1>2, <1>3, SameKeeps DEF ServingSame
<1>4. ASSUME NEW c \in Conns, taken = c, DeleterDelete(owner[c] = Tcp), ~UNCHANGED <<life, fd>>
      PROVE  ServingInv'
  <2>1. /\ life' = [life EXCEPT ![c] = "deleted"] /\ pc[Deleter] = "delete"
        /\ CloseSocket(c, TRUE) \/ fd' = fd
    BY <1>4 DEF DeleterDelete, fileVars
  <2>2. life[c] = "live"
    BY <1>4, <2>1 DEF HandsInv, ReapedOnce
  <2>3. fd'[Tcp] = fd[Tcp]
    BY <2>1, SocketsAre DEF CloseSocket, FilesTyped, SocketsDiffer
  <2>4. \A d \in Conns : life'[d] # "absent" => life[d] # "absent" /\ owner[d] \in Servers
    BY <2>1, <2>2 DEF LifeInv, ObjectsTyped
  <2> QED BY <1>1, <1>2, <2>3, <2>4 DEF ServingInv
<1> QED
  BY <1>3, <1>4 DEF Deleting, DeleterStep, DeleterTop, DeleterTake, DeleterWait, fileVars

LEMMA MainServing ==
    ASSUME CInv, ServingInv, Maining
    PROVE  ServingInv'
<1> USE WorkersDiffer DEF CInv, TInv, TypeOK
<1>1. UNCHANGED <<signals, owner, life, fd>>
  BY DEF Maining, MainStep, MainRun, MainSpawn, MainAssign, MainWait, MainStop,
     MainReturn, MainExit, fileVars, connVars, handlerVars, workerVars
<1>2. destroyed' => mainPc' \in {"exit", "exited"}
  BY DEF Maining, MainStep, MainRun, MainSpawn, MainAssign, MainWait, MainStop,
     MainReturn, MainExit, MainGoto, ServingInv
<1> SUFFICES ASSUME signals = 0 PROVE ServingInv'
  BY <1>1, <1>2 DEF ServingInv
<1>3. /\ \A s \in Servers : pc[s] # "unborn" \/ (mainPc = "spawn" /\ mainOn = s) => bRunning[s]
      /\ \A c \in Conns : life[c] # "absent" => pc[owner[c]] \in InLoop
      /\ \A c \in Conns : life[c] # "absent" => owner[c] \in Servers
      /\ pc[Tcp] = "configure" => fd[Tcp] # NoConn
  BY DEF ServingInv, LifeInv
<1>4. CASE MainRun
  BY <1>1, <1>2, <1>3, <1>4
     DEF MainRun, MainGoto, SetRunning, ServingInv, ObjectsTyped, MainTyped
<1>5. CASE MainSpawn
  <2>1. /\ mainPc = "spawn" /\ mainPc' = "assign" /\ bRunning' = bRunning
        /\ pc' = [pc EXCEPT ![mainOn] = IF mainOn = Deleter THEN "top" ELSE "setup"]
        /\ pc[mainOn] = "unborn" /\ mainOn \in Servers \cup {Deleter}
    BY <1>5 DEF MainSpawn, MainGoto, MainInv, MainTyped
  <2>2. \A s \in Servers : pc'[s] # "unborn" => bRunning'[s]
    BY <1>3, <2>1
  <2>3. \A c \in Conns : life[c] # "absent" => pc'[owner[c]] \in InLoop
    BY <1>3, <2>1 DEF InLoop
  <2>4. pc'[Tcp] = "configure" => pc[Tcp] = "configure"
    BY <2>1 DEF ThreadsTyped
  <2> QED BY <1>1, <1>2, <1>3, <2>1, <2>2, <2>3, <2>4 DEF ServingInv
<1>6. CASE UNCHANGED pc /\ (\A s \in Servers : bRunning'[s] = bRunning[s]) /\ mainPc' # "spawn"
  BY <1>1, <1>2, <1>3, <1>6 DEF ServingInv
<1> QED
  BY <1>4, <1>5, <1>6
     DEF Maining, MainStep, MainAssign, MainWait, MainStop, StopDeleter, ClearRunning,
         MainReturn, MainExit, MainGoto, workerVars, ObjectsTyped

LEMMA AcceptorServing ==
    ASSUME CInv, ServingInv, NEW s \in Servers, Accepting(s)
    PROVE  ServingInv'
<1> USE WorkersDiffer DEF CInv, TInv, TypeOK, ThreadsTyped
<1>1. UNCHANGED <<signals, mainPc, mainOn, destroyed, owner, life>>
  BY DEF Accepting, AcceptorStep, Setup, Configure, AcceptTop, AcceptEnter, Register,
     RunFlag, RunSpawn, RunAssign, RegisterConnection, Quiet, baseVars, connVars,
     mainVars, handlerVars
<1> SUFFICES ASSUME signals = 0 PROVE ServingInv'
  BY <1>1 DEF ServingInv
<1>2. /\ \A w \in Servers : pc[w] # "unborn" \/ (mainPc = "spawn" /\ mainOn = w) => bRunning[w]
      /\ \A c \in Conns : life[c] # "absent" => pc[owner[c]] \in InLoop
      /\ \A c \in Conns : life[c] # "absent" => owner[c] \in Servers
      /\ pc[Tcp] = "configure" => fd[Tcp] # NoConn
  BY DEF ServingInv, LifeInv
<1>3. /\ pc[s] # "unborn"
      /\ \A w \in Servers \ {s} : pc'[w] = pc[w]
      /\ pc[s] \in InLoop => pc'[s] \in InLoop
  <2>1. CASE Register(s) \/ RunFlag(s) \/ RunAssign(s)
    BY <2>1 DEF Register, RunFlag, RunAssign, Goto, InLoop, ServerPcs
  <2>2. CASE RunSpawn(s)
    BY <2>2 DEF RunSpawn, NewConnTyped, Starting, InLoop, ServerPcs
  <2>3. CASE Setup(s) \/ (s = Tcp /\ Configure) \/ AcceptEnter(s)
    BY <2>3 DEF Setup, Configure, AcceptEnter, Goto, InLoop, ServerPcs
  <2>4. CASE AcceptTop(s)
    BY <1>2, <2>4 DEF AcceptTop, Goto, InLoop, ServerPcs
  <2> QED BY <2>1, <2>2, <2>3, <2>4 DEF Accepting, AcceptorStep
<1>4. \A w \in Servers : bRunning'[w] = bRunning[w]
  <2>1. CASE RunFlag(s)
    <3>1. newConn[s] \in Conns /\ bRunning' = [bRunning EXCEPT ![newConn[s]] = TRUE]
      BY <2>1 DEF RunFlag, SetRunning, Goto, NewConnTyped, Starting
    <3> QED BY <3>1 DEF ObjectsTyped
  <2> QED
    BY <2>1 DEF Accepting, AcceptorStep, Setup, Configure, AcceptTop, AcceptEnter, Register,
       RunSpawn, RunAssign
<1>5. pc'[Tcp] = "configure" => fd'[Tcp] # NoConn
  <2>1. CASE Setup(s)
    <3>1. CASE OpenSocket(s)
      <4>1. PICK n \in FreeNumbers : fd' = [fd EXCEPT ![s] = n]
        BY <3>1, NewAreFree DEF OpenSocket
      <4>2. n # NoConn
        BY NumbersAssumption DEF FreeNumbers
      <4> QED BY <1>2, <1>3, <4>1, <4>2, SocketsAre DEF FilesTyped, SocketsDiffer
    <3>2. CASE Goto(s, "setup", "dead") /\ UNCHANGED fileVars
      BY <1>2, <1>3, <3>2 DEF Goto, fileVars
    <3> QED BY <2>1, <3>1, <3>2 DEF Setup
  <2>2. CASE UNCHANGED fd /\ (pc'[Tcp] = "configure" => pc[Tcp] = "configure")
    BY <1>2, <2>2
  <2> QED
    BY <1>3, <2>1, <2>2 DEF Accepting, AcceptorStep, Configure, AcceptTop, AcceptEnter, Register,
       RunFlag, RunSpawn, RunAssign, NewConnTyped, Starting, Goto, SleepOn, fileVars
<1>6. \A c \in Conns : life[c] # "absent" => pc'[owner[c]] \in InLoop
  BY <1>2, <1>3
<1> QED BY <1>1, <1>2, <1>3, <1>4, <1>5, <1>6 DEF ServingInv

LEMMA EnvironmentServing ==
    ASSUME CInv, ServingInv, Environment
    PROVE  ServingInv'
<1> USE WorkersDiffer DEF CInv, TInv, TypeOK
<1>1. ASSUME NEW c \in Conns, ClientStep(c), UNCHANGED <<newConn, mainVars, handlerVars>>
      PROVE  ServingSame
  <2>1. UNCHANGED <<signals, mainPc, mainOn, fd>>
    BY <1>1 DEF ClientStep, PeerServes, SelectReadable, ReceiveData, ReceiveEnds, fileVars,
       mainVars, handlerVars
  <2>2. UNCHANGED <<destroyed, life, owner, bRunning>> /\ \A s \in Servers : pc'[s] = pc[s]
    BY <1>1, ClientKinds DEF Roams, Fails, sharedVars, baseVars, connVars, workerVars,
       ThreadsTyped
  <2> QED BY <2>1, <2>2 DEF ServingSame
<1>2. ASSUME NEW s \in Servers, NEW c \in Conns, Accept(s, c), UNCHANGED <<mainVars, handlerVars>>
      PROVE  ServingInv'
  <2>1. /\ life' = [life EXCEPT ![c] = "live"] /\ owner' = [owner EXCEPT ![c] = s]
        /\ pc[s] = "accepting" /\ pc' = [pc EXCEPT ![s] = "register"]
        /\ UNCHANGED <<bRunning, destroyed, mainPc, mainOn, signals>> /\ OpenSocket(c)
    BY <1>2 DEF Accept, Goto, baseVars, mainVars, handlerVars
  <2>2. fd'[Tcp] = fd[Tcp]
    BY <2>1 DEF OpenSocket, FilesTyped
  <2>3. \A d \in Conns : life[d] # "absent" => owner[d] \in Servers
    BY DEF LifeInv
  <2>4. signals = 0 => \A d \in Conns : life'[d] # "absent" => pc'[owner'[d]] \in InLoop
    BY <2>1, <2>3 DEF ServingInv, InLoop, ServerPcs, ThreadsTyped, ObjectsTyped, ServersTyped
  <2>5. \A w \in Servers : /\ pc'[w] # "unborn" => pc[w] # "unborn"
                           /\ pc'[w] = "configure" => pc[w] = "configure"
    BY <2>1 DEF ThreadsTyped
  <2> QED BY <2>1, <2>2, <2>4, <2>5 DEF ServingInv
<1>3. ASSUME NEW t \in SignalThreads, Interrupt(t),
             UNCHANGED <<deleterVars, baseVars, connVars, newConn, mainVars>>
      PROVE  ServingInv'
  BY <1>3 DEF Interrupt, ServingInv, baseVars, mainVars, HandlerTyped
<1> QED BY <1>1, <1>2, <1>3, SameKeeps DEF Environment

LEMMA HandlerSignals ==
    ASSUME FInv, NEW t \in Threads, Handling(t)
    PROVE  signals' = signals /\ signals # 0 /\ UNCHANGED <<destroyed, mainPc>>
<1>1. UNCHANGED <<signals, destroyed, mainPc>> /\ hPc[t] # "idle"
  BY DEF Handling, HandlerStep, StopStep, StopFlag, StopClose, StopCancel, StopNext,
     StopDeleted, StopConnFlag, StopConnClose, StopConnCancel, StopMissing, StopRaces,
     StopClear, StopOnDestroyed, HandlerGoto, handlerVars, mainVars
<1> QED BY <1>1 DEF FInv, ActiveInv, CInv, TInv, TypeOK, HandlerTyped

LEMMA ServingNext == FInv /\ ServingInv /\ [Next]_vars => ServingInv'
<1> SUFFICES ASSUME FInv, ServingInv, [Next]_vars PROVE ServingInv'
  OBVIOUS
<1>1. CInv
  BY DEF FInv
<1>2. CASE UNCHANGED vars \/ Over
  BY <1>1, <1>2, SameKeeps DEF ServingSame, Over, vars, workerVars, fileVars, baseVars, connVars,
     mainVars, handlerVars
<1>3. ASSUME NEW t \in Threads, Handling(t) PROVE ServingInv'
  BY <1>3, HandlerSignals DEF ServingInv
<1> QED
  BY <1>1, <1>2, <1>3, SameKeeps, ConnectionSame, AcceptorServing, DeleterServing,
     MainServing, EnvironmentServing DEF Next

LEMMA ServingInit == Init => ServingInv
BY WorkersDiffer DEF Init, WorkerInit, BaseInit, ServingInv

-----------------------------------------------------------------------------
(* The faults, one thread at a time.                                       *)

(* Nobody uses a destroyed server: both have ended by then, and those that *)
(* have connections do not end.                                            *)
LEMMA NothingDestroyed ==
    ASSUME CInv, ServingInv, signals = 0, NEW c \in Conns, pc[c] # "unborn"
    PROVE  ~destroyed
<1>1. life[c] # "absent" /\ owner[c] \in Servers
  BY DEF CInv, LifeInv
<1>2. pc[owner[c]] # "dead"
  BY <1>1 DEF ServingInv, InLoop
<1> QED BY <1>1, <1>2 DEF ServingInv, CInv, MainInv

LEMMA ConnectionFaults ==
    ASSUME CInv, AccountInv, ServingInv, signals = 0,
           NEW c \in Conns, Connecting(c), fault' # fault
    PROVE  QuietProcess'
<1> USE DEF CInv, TInv, TypeOK
<1>1. CASE c \in TcpConns /\ TcpStart(c)
  <2>1. /\ fault' = "uncaught exception" /\ pc[c] = "start" /\ ~ClientThere(SocketOf(c))
        /\ UNCHANGED <<pc, owner, peer>>
    BY <1>1 DEF TcpStart, Goto, Fail, sharedVars, connVars
  <2>2. c \in Sockets /\ c \notin Servers /\ life[c] = "live"
    BY <2>1, SocketsAre, WorkersDiffer DEF LifeInv, HandedOver, ObjectsTyped, SocketsDiffer
  <2>3. fd[c] # NoConn /\ fd[c] \in Numbers
    BY <2>2 DEF AccountInv, Closed, FilesTyped
  <2>4. SocketOf(c) = c
    BY <2>2, <2>3 DEF AccountInv, Matched, SocketOf
  <2>5. peer[c] = "gone"
    BY <2>1, <2>4 DEF ClientThere, ServersTyped
  <2> QED BY <1>1, <2>1, <2>5 DEF QuietProcess, TcpConns
<1>2. CASE Serve(c) \/ HandleOnDestroyed(c) \/ DeregisterOnDestroyed(c) \/ ReceiveEof(c)
  <2>1. destroyed /\ pc[c] # "unborn"
    BY <1>2 DEF Serve, HandleOnDestroyed, DeregisterOnDestroyed, InDeregister, ReceiveEof,
       ReceiveEnds
  <2> QED BY <2>1, NothingDestroyed
<1> QED
  BY <1>1, <1>2
     DEF Connecting, ConnectionStep, Check, ReadCmd, ReadArg, PeerGoneWakes, ModbusStart, Select,
         SelectEof, Handle, Receive, DeregisterConnection

LEMMA AcceptorFaults ==
    ASSUME CInv, AccountInv, ServingInv, signals = 0,
           NEW s \in Servers, Accepting(s), fault' # fault
    PROVE  QuietProcess'
<1> USE DEF CInv, TInv, TypeOK
<1>1. CASE Configure
  <2>1. pc[Tcp] = "configure" /\ SocketOf(Tcp) = NoConn
    BY <1>1 DEF Configure
  <2>2. Tcp \in Sockets /\ fd[Tcp] # NoConn /\ fd[Tcp] \in Numbers
    BY <2>1, SocketsAre, WorkersDiffer DEF ServingInv, FilesTyped, SocketsDiffer
  <2>3. SocketOf(Tcp) = Tcp
    BY <2>2 DEF AccountInv, Matched, SocketOf
  <2> QED BY <2>1, <2>3, WorkersDiffer
<1>2. CASE RunAssign(s)
  BY <1>2 DEF RunAssign, Goto, Fail, QuietProcess
<1> QED
  BY <1>1, <1>2
     DEF Accepting, AcceptorStep, Setup, AcceptTop, AcceptEnter, Register, RunFlag, RunSpawn

LEMMA DeleterFaults ==
    ASSUME Deleting, fault' # fault
    PROVE  QuietProcess'
BY DEF Deleting, DeleterStep, DeleterTop, DeleterTake, DeleterWait, DeleterDelete, Fail,
   QuietProcess

LEMMA EnvironmentFaults ==
    ASSUME CInv, ServingInv, signals = 0, Environment, fault' # fault
    PROVE  QuietProcess'
<1> PICK c \in Conns : ReceiveData(c) /\ destroyed /\ pc[c] # "unborn"
  BY DEF Environment, ClientStep, PeerServes, SelectReadable, ReceiveData, ReceiveEnds,
     Accept, Interrupt
<1> QED BY NothingDestroyed

QInv == FInv /\ AccountInv /\ ServingInv /\ QuietProcess

LEMMA QuietNext == QInv /\ [Next]_vars => QuietProcess'
<1> SUFFICES ASSUME QInv, [Next]_vars PROVE QuietProcess'
  OBVIOUS
<1> FInv /\ CInv /\ AccountInv /\ ServingInv /\ QuietProcess /\ signals \in Nat
  BY DEF QInv, FInv, CInv, TInv, TypeOK, HandlerTyped
<1>1. CASE UNCHANGED vars \/ Over
  <2>1. UNCHANGED <<fault, signals, pc, peer, owner, life, newConn, joinable, taken>>
    BY <1>1 DEF Over, vars, workerVars, deleterVars, connVars, handlerVars
  <2> QED BY <2>1 DEF QuietProcess, TcpConns
<1>2. CASE Alive /\ fault' = fault
  BY <1>2 DEF Alive, QuietProcess
<1>3. CASE signals' # 0
  BY <1>3 DEF QuietProcess
<1>4. ASSUME NEW t \in Threads, Handling(t) PROVE QuietProcess'
  BY <1>4, HandlerSignals DEF QuietProcess
<1>5. CASE Environment /\ signals # 0
  <2>1. signals' = signals \/ signals' = signals + 1
    BY <1>5 DEF Environment, Interrupt, handlerVars
  <2> QED BY <1>3, <1>5, <2>1
<1>6. CASE /\ signals # 0
           /\ \/ \E c \in Conns : Connecting(c)
              \/ \E s \in Servers : Accepting(s)
              \/ Deleting \/ Maining
  <2>1. signals' = signals
    BY <1>6 DEF Connecting, Accepting, Deleting, DeleterStep, Maining, MainStep, handlerVars
  <2> QED BY <1>3, <1>6, <2>1
<1>7. CASE signals = 0 /\ Maining
  <2>1. Alive /\ fault' = fault
    BY <1>7 DEF Maining, MainStep, MainRun, MainSpawn, MainAssign, MainWait, MainStop,
       MainReturn, MainExit, workerVars
  <2> QED BY <1>2, <2>1
<1>8. CASE /\ signals = 0
           /\ \/ \E c \in Conns : Connecting(c)
              \/ \E s \in Servers : Accepting(s)
              \/ Deleting \/ Environment
  <2>1. Alive
    BY <1>8 DEF Connecting, Accepting, Deleting, Environment
  <2> QED
    BY <1>2, <1>8, <2>1, ConnectionFaults, AcceptorFaults, DeleterFaults, EnvironmentFaults
<1> QED BY <1>1, <1>4, <1>5, <1>6, <1>7, <1>8 DEF Next

LEMMA QInvInit == Init => QInv
<1>1. Init => QuietProcess
  BY DEF Init, WorkerInit, QuietProcess
<1> QED BY <1>1, FInvInit, AccountInit, ServingInit DEF QInv

(* Before any SIGINT the process fails only in a race with the start of a  *)
(* connection, or at a client that resets one as it starts.                *)
THEOREM QuietUntilInterrupted == Spec => []QuietProcess
<1>1. QInv /\ [Next]_vars => QInv'
  BY FInvNext, AccountNext, ServingNext, QuietNext DEF QInv
<1>2. QInv => QuietProcess
  BY DEF QInv
<1> QED BY <1>1, <1>2, QInvInit, PTL DEF Spec
=============================================================================
