----------------------------- MODULE Connection -----------------------------
(***************************************************************************)
(* The thread of a connection, one per client: TcpConnection::run__ for    *)
(* the connections of the TcpServer, ModbusConnection::run__ for those of  *)
(* the ModbusServer.  What the requests compute is not modelled here, only *)
(* where the thread can sleep, which errors it notices and how it leaves.  *)
(***************************************************************************)
EXTENDS BaseServer

VARIABLES
    owner,  \* the server that accepted the connection (server1_)
    peer    \* the client's end: "up" or "gone"

connVars == <<owner, peer>>

TcpConns    == {c \in Conns : owner[c] = Tcp}
ModbusConns == {c \in Conns : owner[c] = Modbus}

sharedVars == <<life, bRunning, joinable, deleterVars, baseVars, connVars>>

(* One context serves all Modbus connections, and ctxMutex is held while   *)
(* libmodbus waits for a request.  Elsewhere it is held for a step only.   *)
BankBusy == \E c \in Conns : pc[c] \in {"receiving", "retry"}

(* A call on c's number waits for a client: whichever the number denotes.  *)
Waits(c, to) == Goto(c, pc[c], to) /\ SleepOn(c, SocketOf(c))

ClientThere(socket) == socket \in Conns /\ peer[socket] = "up"

-----------------------------------------------------------------------------
(* TcpConnection::run__ starts by asking for the remote endpoint with the  *)
(* overload that throws, and nothing catches it: the call fails on a       *)
(* closed socket, and on one whose client has gone by a reset rather than  *)
(* by an orderly close.                                                    *)
TcpStart(c) ==
    /\ pc[c] = "start"
    /\ \/ /\ ~ClientThere(SocketOf(c))
          /\ Fail("uncaught exception")
          /\ UNCHANGED pc
       \/ /\ SocketOf(c) \in Conns
          /\ Goto(c, "start", "check")
          /\ UNCHANGED fault
    /\ UNCHANGED <<fileVars, sharedVars>>

(* ModbusConnection::run__ makes the socket nonblocking. *)
ModbusStart(c) ==
    /\ Goto(c, "start", "check")
    /\ UNCHANGED <<fault, fileVars, sharedVars>>

(* while(bRunning) *)
Check(c, body) ==
    /\ Goto(c, "check", IF bRunning[c] THEN body ELSE "deregister")
    /\ UNCHANGED <<fault, fileVars, sharedVars>>

(* The read of the command byte fails at once without a connected socket,  *)
(* but its error code is overwritten by the read that follows.             *)
ReadCmd(c) ==
    /\ pc[c] = "cmd"
    /\ \/ SocketOf(c) \in Conns /\ Waits(c, "readingCmd")
       \/ SocketOf(c) \notin Conns /\ Goto(c, "cmd", "arg") /\ UNCHANGED fileVars
    /\ UNCHANGED <<fault, sharedVars>>

(* Mutation: the second error code is not looked at either. *)
ReadArgUnchecked(c) ==
    /\ pc[c] = "arg"
    /\ \/ SocketOf(c) \in Conns /\ Waits(c, "readingArg")
       \/ SocketOf(c) \notin Conns /\ Goto(c, "arg", "serve") /\ UNCHANGED fileVars
    /\ UNCHANGED <<fault, sharedVars>>

(* if (ec) break; *)
ReadArg(c) ==
    /\ pc[c] = "arg"
    /\ \/ SocketOf(c) \in Conns /\ Waits(c, "readingArg")
       \/ SocketOf(c) \notin Conns /\ Goto(c, "arg", "deregister") /\ UNCHANGED fileVars
    /\ UNCHANGED <<fault, sharedVars>>

(* A client that has gone makes a sleeping read or write return an error.  *)
PeerGoneWakes(c) ==
    /\ ~ClientThere(waitsOn[c])
    /\ \/ Goto(c, "readingCmd", ResumeAt.readingCmd)
       \/ Goto(c, "readingArg", ResumeAt.readingArg)
       \/ Goto(c, "writing", ResumeAt.writing)
    /\ UNCHANGED <<fault, fileVars, sharedVars>>

(* A client that is there sends its bytes, and reads the response, or not. *)
PeerServes(c) ==
    /\ ClientThere(waitsOn[c])
    /\ \/ Goto(c, "readingCmd", "arg")
       \/ Goto(c, "readingArg", "serve")
       \/ Goto(c, "writing", "check")
    /\ UNCHANGED <<fault, fileVars, sharedVars>>

(* The switch over the command.  An unknown one is answered by nothing at  *)
(* all; the handlers of the others lock the ModbusServer's bank, and write *)
(* the response, dropping every error.                                     *)
Serve(c) ==
    /\ pc[c] = "serve"
    /\ \/ Goto(c, "serve", "check") /\ UNCHANGED <<fault, fileVars>>
       \/ destroyed /\ Fail("used a destroyed server") /\ UNCHANGED <<pc, fileVars>>
       \/ /\ ~destroyed /\ ~BankBusy
          /\ SocketOf(c) \in Conns /\ Waits(c, "writing")
          /\ UNCHANGED fault
    /\ UNCHANGED sharedVars

-----------------------------------------------------------------------------
(* ModbusConnection sleeps in select.  On a number that denotes nothing    *)
(* select fails at once, and FD_ISSET is still true.                       *)
Select(c) ==
    /\ pc[c] = "select"
    /\ \/ SocketOf(c) # NoConn /\ Waits(c, "selecting")
       \/ SocketOf(c) = NoConn /\ Goto(c, "select", "handle") /\ UNCHANGED fileVars
    /\ UNCHANGED <<fault, sharedVars>>

(* The end of the stream. *)
SelectEof(c) ==
    /\ waitsOn[c] \in Conns /\ peer[waitsOn[c]] = "gone"
    /\ Goto(c, "selecting", "handle")
    /\ UNCHANGED <<fault, fileVars, sharedVars>>

(* Data from the client, or a client for a listening socket. *)
SelectReadable(c) ==
    /\ waitsOn[c] \in Conns => peer[waitsOn[c]] = "up"
    /\ Goto(c, "selecting", "handle")
    /\ UNCHANGED <<fault, fileVars, sharedVars>>

(* handleModbusRequest on a member of the ModbusServer. *)
HandleOnDestroyed(c) ==
    /\ pc[c] \in {"handle", "blind", "retry"} /\ destroyed
    /\ Fail("used a destroyed server")
    /\ UNCHANGED <<pc, fileVars, sharedVars>>

(* With something to receive: it fails without a client, and may fail on   *)
(* an incomplete frame, which libmodbus gives up after a timeout.  If the  *)
(* number has come to denote the socket of another worker since select,    *)
(* there may be nothing to receive.                                        *)
Handle(c) ==
    /\ ~destroyed /\ ~BankBusy
    /\ \/ Goto(c, "handle", "deregister") /\ UNCHANGED fileVars
       \/ ClientThere(SocketOf(c)) /\ Goto(c, "handle", "check") /\ UNCHANGED fileVars
       \/ /\ pc[c] = "handle" /\ SocketOf(c) \notin {c, NoConn}
          /\ Waits(c, "receiving")
    /\ UNCHANGED <<fault, sharedVars>>

(* With nothing to receive, after a signal: modbus_receive waits for the   *)
(* first byte without a timeout, and waits again after the next signal.    *)
(* There may be a client that has sent something all the same, or left.    *)
Receive(c) ==
    /\ ~destroyed
    /\ \/ pc[c] = "blind" /\ ~BankBusy
       \/ pc[c] = "retry"
    /\ \/ SocketOf(c) # NoConn /\ Waits(c, "receiving")
       \/ SocketOf(c) = NoConn /\ Goto(c, pc[c], "deregister") /\ UNCHANGED fileVars
    /\ UNCHANGED <<fault, sharedVars>>

ReceiveEnds(c, to) ==
    /\ \/ destroyed /\ pc[c] = "receiving" /\ Fail("used a destroyed server") /\ UNCHANGED pc
       \/ ~destroyed /\ Goto(c, "receiving", to) /\ UNCHANGED fault
    /\ UNCHANGED <<fileVars, sharedVars>>

ReceiveEof(c) ==
    /\ waitsOn[c] \in Conns /\ peer[waitsOn[c]] = "gone"
    /\ ReceiveEnds(c, "deregister")

(* A request, an incomplete one, or a client for a listening socket. *)
ReceiveData(c) ==
    \/ ClientThere(waitsOn[c]) /\ ReceiveEnds(c, "check")
    \/ (waitsOn[c] \in Conns => peer[waitsOn[c]] = "up") /\ ReceiveEnds(c, "deregister")

-----------------------------------------------------------------------------
(* server1_->deregisterConnection(this), on a server that may already have *)
(* been destroyed by main.                                                 *)
InDeregister == {"deregister", "enqueue", "unlock"}

DeregisterOnDestroyed(c) ==
    /\ pc[c] \in InDeregister /\ destroyed
    /\ Fail("used a destroyed server")
    /\ UNCHANGED <<pc, fileVars, sharedVars>>

DeregisterConnection(c) ==
    /\ ~destroyed
    /\ \/ /\ Goto(c, "deregister", "enqueue")
          /\ DeregisterErase(owner[c], c)
          /\ UNCHANGED deleterVars
       \/ /\ Goto(c, "enqueue", "unlock")
          /\ DeleteWorker(c)
          /\ UNCHANGED <<completed, taken, baseVars>>
       \/ /\ Goto(c, "unlock", "dead")
          /\ DeregisterUnlock(owner[c])
          /\ UNCHANGED deleterVars
    /\ UNCHANGED <<life, bRunning, joinable, fileVars, fault, connVars>>

-----------------------------------------------------------------------------
(* The steps a thread takes without waiting for anybody's goodwill.        *)
ConnectionStep(c) ==
    \/ /\ c \in TcpConns
       /\ TcpStart(c) \/ Check(c, "cmd") \/ ReadCmd(c) \/ ReadArg(c)
            \/ PeerGoneWakes(c) \/ Serve(c)
    \/ /\ c \in ModbusConns
       /\ ModbusStart(c) \/ Check(c, "select") \/ Select(c) \/ SelectEof(c)
            \/ HandleOnDestroyed(c) \/ Handle(c) \/ Receive(c) \/ ReceiveEof(c)
    \/ DeregisterOnDestroyed(c)
    \/ DeregisterConnection(c)

(* A client acts when and if it likes; once gone it does not come back.    *)
ClientStep(c) ==
    \/ PeerServes(c)
    \/ SelectReadable(c)
    \/ ReceiveData(c)
    \/ /\ life[c] = "live" /\ peer[c] = "up"
       /\ peer' = [peer EXCEPT ![c] = "gone"]
       /\ UNCHANGED <<life, bRunning, joinable, fileVars, pc, fault,
                      deleterVars, baseVars, owner>>

ConnectionInit ==
    /\ owner = [c \in Conns |-> NoConn]
    /\ peer = [c \in Conns |-> "up"]
=============================================================================
