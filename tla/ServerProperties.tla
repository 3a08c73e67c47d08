-------------------------- MODULE ServerProperties --------------------------
(***************************************************************************)
(* What the server process does right, and exactly how far.                *)
(***************************************************************************)
EXTENDS MbServer

ServerPcs == {"unborn", "setup", "configure", "check", "accept", "accepting",
              "register", "run", "spawn", "assign", "dead"}
ConnPcs == {"unborn", "start", "check", "cmd", "readingCmd", "arg",
            "readingArg", "serve", "writing", "select", "selecting", "handle",
            "blind", "receiving", "retry", "deregister", "enqueue", "unlock", "dead"}
DeleterPcs == {"unborn", "top", "take", "wait", "delete", "dead"}
Faults == {"none", "signalled a missing thread", "destroyed a joinable thread",
           "uncaught exception", "used a destroyed server",
           "assigned to a deleted worker", "advanced a dangling iterator",
           "stopped a deleted worker", "raced for a connection set"}

ThreadsTyped ==
    /\ pc \in [Workers -> ServerPcs \cup ConnPcs \cup DeleterPcs]
    /\ \A c \in Conns : pc[c] \in ConnPcs
    /\ \A s \in Servers : pc[s] \in ServerPcs
    /\ pc[Deleter] \in DeleterPcs

ObjectsTyped ==
    /\ life \in [Conns -> {"absent", "live", "deleted"}]
    /\ bRunning \in [Workers -> BOOLEAN]
    /\ joinable \subseteq Workers
    /\ fault \in Faults

FilesTyped ==
    /\ fd \in [Sockets -> Numbers \cup {NoConn}]
    /\ file \in [Numbers -> Sockets \cup {NoConn}]
    /\ waitsOn \in [Sockets -> Sockets]

QueueTyped ==
    /\ queue \in Seq(Conns)
    /\ completed \in BOOLEAN
    /\ taken \in Conns \cup {NoConn}

ServersTyped ==
    /\ connections \in [Servers -> SUBSET Conns]
    /\ connsetMutex \in [Servers -> Conns \cup {NoConn}]
    /\ destroyed \in BOOLEAN
    /\ owner \in [Conns -> Servers \cup {NoConn}]
    /\ peer \in [Conns -> {"up", "gone"}]
    /\ newConn \in [Servers -> Conns \cup {NoConn}]

MainTyped ==
    /\ mainPc \in {"run", "spawn", "assign", "wait", "stop", "return", "exit", "exited"}
    /\ mainOn \in Servers \cup {Deleter}

HandlerPcs == {"idle", "flag", "close", "cancel", "begin", "next", "connFlag",
               "connClose", "connCancel", "clear"}

HandlerTyped ==
    /\ hPc \in [Threads -> HandlerPcs]
    /\ hOn \in [Threads -> Servers]
    /\ hCur \in [Threads -> Conns \cup {NoConn}]
    /\ signals \in Nat

(* Every variable has its type, and every thread is where it can be: main, *)
(* the handler, the deleter, the servers and the connections.              *)
TypeOK ==
    /\ ThreadsTyped
    /\ ObjectsTyped
    /\ FilesTyped
    /\ QueueTyped
    /\ ServersTyped
    /\ MainTyped
    /\ HandlerTyped

-----------------------------------------------------------------------------
(* A connection thread that has handed its worker to the deleter.          *)
HandedOver(c) == pc[c] \in {"unlock", "dead"}

Queued(c) == \E i \in DOMAIN queue : queue[i] = c

(* The deleter owns a worker from the moment its thread hands it over: it  *)
(* is never queued twice, never queued while the deleter holds it, and     *)
(* always still undeleted.  Otherwise ThreadDeleter::run__ would delete an *)
(* object twice.                                                           *)
ReapedOnce ==
    /\ \A i, j \in DOMAIN queue : queue[i] = queue[j] => i = j
    /\ taken # NoConn => ~Queued(taken)
    /\ \A c \in Conns : Queued(c) \/ taken = c => life[c] = "live" /\ HandedOver(c)

(* No thread runs in an object that has been deleted, and stopConnections  *)
(* finds no deleted object in the set: deregisterConnection erases a       *)
(* worker before it hands it over.                                         *)
DeletedIsUnused ==
    \A c \in Conns : life[c] = "deleted" =>
        /\ HandedOver(c)
        /\ \A s \in Servers : c \notin connections[s]

(* A worker outlives its thread, but for one race: the thread of a new     *)
(* connection gets as far as handing its worker over before run() has      *)
(* assigned thread_, so that wait() finds nothing to join.  The server is  *)
(* then about to assign to the deleted object.                             *)
OutlivesItsThread ==
    \A c \in Conns : life[c] = "deleted" /\ (pc[c] # "dead" \/ c \in joinable) =>
        pc[owner[c]] = "assign" /\ newConn[owner[c]] = c

(* Until main stops the deleter, no worker is lost: one that has been      *)
(* handed over is deleted, queued, or in the deleter's hands.              *)
NoneLost ==
    \A c \in Conns : HandedOver(c) /\ ~completed =>
        life[c] = "deleted" \/ taken = c \/ Queued(c)

(* The deleter is told to stop only when no server can accept any more, so *)
(* that no connection is registered, or started, after it.                 *)
StoppedLast ==
    completed => \A s \in Servers : pc[s] = "dead" /\ newConn[s] = NoConn

(* Before any SIGINT the process comes to harm in two ways only: the race  *)
(* of OutlivesItsThread, and a client that resets its connection before    *)
(* the first statement of TcpConnection::run__.                            *)
QuietProcess ==
    signals = 0 /\ fault # "none" =>
        \/ /\ fault = "uncaught exception"
           /\ \E c \in TcpConns : pc[c] = "start" /\ peer[c] = "gone"
        \/ /\ fault = "assigned to a deleted worker"
           /\ \E s \in Servers : pc[s] = "assign" /\ life[newConn[s]] = "deleted"
        \/ fault = "destroyed a joinable thread" /\ taken \in joinable

(* A handler signals a thread that is not there only while the worker is   *)
(* being started or after its thread has been joined; for a connection:    *)
(* its server has registered it and run() has not come to its end, or the  *)
(* deleter is about to delete it.                                          *)
MissingThread ==
    fault = "signalled a missing thread" => \E t \in Threads :
        \/ /\ hPc[t] = "cancel"
           /\ mainPc \in {"run", "spawn", "assign"} \/ pc[hOn[t]] = "dead"
        \/ /\ hPc[t] = "connCancel"
           /\ \/ /\ pc[owner[hCur[t]]] \in {"run", "spawn", "assign"}
                 /\ newConn[owner[hCur[t]]] = hCur[t]
              \/ pc[hCur[t]] = "dead" /\ taken = hCur[t]

Walking == {"next", "connFlag", "connClose", "connCancel"}

(* A handler comes to harm in stopConnections only when the connection it  *)
(* is stopping has left the set meanwhile: because its thread deregisters  *)
(* at the same time or, if two SIGINTs overlap, because the other handler  *)
(* has emptied the set.                                                    *)
StopRace ==
    fault \in {"stopped a deleted worker", "advanced a dangling iterator"} =>
        \E t \in Threads :
            /\ hPc[t] \in Walking /\ hCur[t] \notin connections[hOn[t]]
            /\ \/ pc[hCur[t]] \in {"enqueue", "unlock", "dead"}
               \/ fault = "advanced a dangling iterator" /\ signals > 1

-----------------------------------------------------------------------------
(* Before any SIGINT every open number denotes the socket of the one       *)
(* worker that keeps it, and a TcpConnection that has been deleted keeps   *)
(* none: no client of the TcpServer costs the process a descriptor.  (Each *)
(* of the ModbusServer does.)                                              *)
NumbersAccountedFor ==
    signals = 0 => \A w \in Sockets :
        /\ {n \in Numbers : file[n] = w} = {fd[w]} \ {NoConn}
        /\ w \in TcpConns /\ life[w] = "deleted" => fd[w] = NoConn

(* One SIGINT closes no socket but those of the workers it stops: what     *)
(* Boost believes to be open is open, and its own.  It takes a second one, *)
(* which closes the numbers of ModbusServer and ModbusConnection again.    *)
BoostKeepsItsSocket ==
    signals < 2 => \A w \in {Tcp} \cup TcpConns :
        fd[w] # NoConn => file[fd[w]] = w

-----------------------------------------------------------------------------
(* A client that leaves has its connection reaped, unless the process      *)
(* fails or has begun to shut down.                                        *)
DepartedIsReaped ==
    \A c \in Conns :
        peer[c] = "gone" ~> life[c] = "deleted" \/ completed \/ ~Alive

(* A number c keeps although it denotes the socket of another worker by now. *)
Reused(c) == SocketOf(c) \notin {c, NoConn}

(* A connection that a handler is stopping gets out of its loop, without   *)
(* waiting for main to end the process, wherever its thread is and whether *)
(* or not run() sets bRunning again: the socket is closed before the       *)
(* signal is sent, so that a thread the signal misses finds a closed       *)
(* socket -- unless the number has been given to another one by then.      *)
StoppedLeaves ==
    \A c \in Conns :
        (\E t \in Threads : hPc[t] = "connCancel" /\ hCur[t] = c)
            ~> pc[c] = "dead" \/ ~Alive \/ Reused(c)

(* SIGINT ends the process, if main is scheduled too. *)
InterruptEndsProcess == MainFairness => (signals > 0 ~> ~Alive)

-----------------------------------------------------------------------------
Stage(c) ==
    CASE life[c] = "absent"  -> "absent"
      [] life[c] = "deleted" -> "reaped"
      [] life[c] = "live" /\ ~HandedOver(c) -> "serving"
      [] life[c] = "live" /\ HandedOver(c) /\ (Queued(c) \/ taken = c) -> "retired"
      [] OTHER -> "abandoned"

Pool == INSTANCE WorkerPool WITH
    stage <- [c \in Conns |-> Stage(c)], closing <- completed

(* The threads, the queue and the locks implement the promise.             *)
ImplementsPool == Pool!PoolSpec

(* The deleter and those who hand workers to it use threads_ as a queue of *)
(* one consumer that is completed once, which is all that the collection   *)
(* ThreadDeleter instantiates is shown to be.                              *)
Handover == INSTANCE HandoverQueue WITH
    Items <- Conns, waiting <- pc[Deleter] = "take"

UsesHandover == Handover!HandoverSafety
=============================================================================
