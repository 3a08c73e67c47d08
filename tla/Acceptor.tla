------------------------------ MODULE Acceptor ------------------------------
(***************************************************************************)
(* The threads of the two servers, TcpServer::run__ and                    *)
(* ModbusServer::run__: open the listening socket, then accept clients and *)
(* start a connection for each until bRunning is false.                    *)
(***************************************************************************)
EXTENDS Connection

VARIABLE newConn    \* the local variable newConn of each server's run__

acceptorVars == <<newConn>>

Quiet == UNCHANGED <<deleterVars, baseVars, connVars>>

(* ModbusServer: the context, the mapping and the listening socket, whose  *)
(* descriptor is assigned once it listens; any failure makes run__ return. *)
(* TcpServer: acceptor_.open, after which stop__ can close the acceptor.   *)
Setup(s) ==
    /\ \/ /\ Goto(s, "setup", IF s = Modbus THEN "check" ELSE "configure")
          /\ OpenSocket(s)
       \/ /\ Goto(s, "setup", "dead")
          /\ UNCHANGED fileVars
    /\ UNCHANGED <<life, bRunning, joinable, fault, newConn>> /\ Quiet

(* The TcpServer's set_option, which throws, and then bind and listen,     *)
(* which make run__ return; all of them fail on a closed acceptor.         *)
Configure ==
    /\ pc[Tcp] = "configure"
    /\ \/ /\ SocketOf(Tcp) = NoConn
          /\ Fail("uncaught exception")
          /\ UNCHANGED pc
       \/ /\ Goto(Tcp, "configure", "dead")
          /\ UNCHANGED fault
       \/ /\ SocketOf(Tcp) = Tcp
          /\ Goto(Tcp, "configure", "check")
          /\ UNCHANGED fault
    /\ UNCHANGED <<life, bRunning, joinable, fileVars, newConn>> /\ Quiet

(* while(bRunning) *)
AcceptTop(s) ==
    /\ Goto(s, "check", IF bRunning[s] THEN "accept" ELSE "dead")
    /\ UNCHANGED <<life, bRunning, joinable, fileVars, fault, newConn>> /\ Quiet

(* accept fails at once if the number denotes no listening socket, or if   *)
(* no number is left for the new socket, and the loop goes on.             *)
AcceptEnter(s) ==
    /\ pc[s] = "accept"
    /\ \/ /\ SocketOf(s) \in Servers /\ FreeNumbers # {}
          /\ Goto(s, "accept", "accepting")
          /\ SleepOn(s, SocketOf(s))
       \/ /\ SocketOf(s) \notin Servers \/ FreeNumbers = {}
          /\ Goto(s, "accept", "check")
          /\ UNCHANGED fileVars
    /\ UNCHANGED <<life, bRunning, joinable, fault, newConn>> /\ Quiet

(* A client connects while the thread sleeps in accept, which keeps the    *)
(* listening socket alive even if it has just been closed: a connection    *)
(* object is allocated for it.                                             *)
Accept(s, c) ==
    /\ life[c] = "absent"
    /\ Goto(s, "accepting", "register")
    /\ life' = [life EXCEPT ![c] = "live"]
    /\ OpenSocket(c)
    /\ owner' = [owner EXCEPT ![c] = s]
    /\ newConn' = [newConn EXCEPT ![s] = c]
    /\ UNCHANGED <<bRunning, joinable, fault, deleterVars, baseVars, peer>>

(* registerConnection(newConn) *)
Register(s) ==
    /\ Goto(s, "register", "run")
    /\ RegisterConnection(s, newConn[s])
    /\ UNCHANGED <<life, bRunning, joinable, fileVars, fault, newConn,
                   deleterVars, connVars>>

(* newConn->run(): the flag, the thread, and the assignment to thread_, by *)
(* which time the new thread may have run to its end and the deleter may   *)
(* have deleted the object assigned to.                                    *)
RunFlag(s) ==
    /\ Goto(s, "run", "spawn")
    /\ SetRunning(newConn[s])
    /\ UNCHANGED <<life, joinable, fileVars, fault, newConn>> /\ Quiet

RunSpawn(s) ==
    /\ pc[s] = "spawn"
    /\ pc' = [pc EXCEPT ![s] = "assign", ![newConn[s]] = "start"]
    /\ UNCHANGED <<life, bRunning, joinable, fileVars, fault, newConn>> /\ Quiet

RunAssign(s) ==
    /\ pc[s] = "assign"
    /\ \/ /\ life[newConn[s]] = "deleted"
          /\ Fail("assigned to a deleted worker")
          /\ UNCHANGED <<pc, joinable, newConn>>
       \/ /\ life[newConn[s]] = "live"
          /\ Goto(s, "assign", "check")
          /\ AssignThread(newConn[s])
          /\ newConn' = [newConn EXCEPT ![s] = NoConn]
          /\ UNCHANGED fault
    /\ UNCHANGED <<life, bRunning, fileVars>> /\ Quiet

AcceptorStep(s) ==
    \/ Setup(s)
    \/ s = Tcp /\ Configure
    \/ AcceptTop(s)
    \/ AcceptEnter(s)
    \/ Register(s)
    \/ RunFlag(s)
    \/ RunSpawn(s)
    \/ RunAssign(s)

AcceptorInit == newConn = [s \in Servers |-> NoConn]
=============================================================================
