------------------------------ MODULE MbServer ------------------------------
(***************************************************************************)
(* The server process (mbserver.cpp): main starts the two servers and the  *)
(* deleter and waits for them; SIGINT is handled on any thread the kernel  *)
(* chooses, which does nothing else meanwhile, and stops the two servers   *)
(* and their connections.  The specification composes all the threads.     *)
(***************************************************************************)
EXTENDS Acceptor, FiniteSets

(* The bounds of a model: how many SIGINTs are delivered, to which threads *)
(* they may be, and how many clients connect to each server.               *)
CONSTANTS Main, MaxSignals, SignalThreads, MaxClients

Threads == Workers \cup {Main}

ASSUME BoundsAssumption ==
    /\ Main \notin Workers
    /\ SignalThreads \subseteq Threads
    /\ MaxSignals \in Nat /\ MaxClients \in [Servers -> Nat]

VARIABLES
    mainPc, mainOn,     \* main, and the worker it is starting or waiting for
    hPc, hOn, hCur,     \* on each thread: the handler, the server it stops, and
                        \* the connection its range-for loop is at
    signals             \* how many SIGINTs have been delivered

mainVars    == <<mainPc, mainOn>>
handlerVars == <<hPc, hOn, hCur, signals>>
vars == <<workerVars, fileVars, deleterVars, baseVars, connVars, newConn,
          mainVars, handlerVars>>

(* Both main and the handler treat s1 before s2, and main treats td last.  *)
After(w) == IF w = Modbus THEN Tcp ELSE Deleter

(* A thread that runs the handler does not go on with what it was doing. *)
Undisturbed(t) == hPc[t] = "idle"

-----------------------------------------------------------------------------
(* s1.run(); s2.run(); td.run(); *)
MainGoto(from, to) == mainPc = from /\ mainPc' = to

MainRun ==
    /\ MainGoto("run", "spawn")
    /\ SetRunning(mainOn)
    /\ UNCHANGED <<life, joinable, pc, fileVars, fault, deleterVars, destroyed, mainOn>>

MainSpawn ==
    /\ MainGoto("spawn", "assign")
    /\ pc' = [pc EXCEPT ![mainOn] = IF mainOn = Deleter THEN "top" ELSE "setup"]
    /\ UNCHANGED <<life, bRunning, joinable, fileVars, fault, deleterVars, destroyed, mainOn>>

MainAssign ==
    /\ MainGoto("assign", IF mainOn = Deleter THEN "wait" ELSE "run")
    /\ AssignThread(mainOn)
    /\ mainOn' = IF mainOn = Deleter THEN Modbus ELSE After(mainOn)
    /\ UNCHANGED <<life, bRunning, pc, fileVars, fault, deleterVars, destroyed>>

(* Mutations: main does not wait for the servers; main waits for s1 only.  *)
MainNoWait ==
    /\ MainGoto("wait", IF mainOn = Deleter THEN "return" ELSE
                          IF mainOn = Tcp THEN "stop" ELSE "wait")
    /\ mainOn' = After(mainOn)
    /\ UNCHANGED <<life, bRunning, joinable, pc, fileVars, fault, deleterVars, destroyed>>

MainWaitFirst ==
    /\ MainGoto("wait", IF mainOn = Modbus THEN "stop" ELSE "return")
    /\ Wait(mainOn)
    /\ mainOn' = Deleter
    /\ UNCHANGED <<life, bRunning, pc, fileVars, fault, deleterVars, destroyed>>

(* s1.wait(); s2.wait(); and, after td.stop(), td.wait(); *)
MainWait ==
    /\ MainGoto("wait", CASE mainOn = Modbus -> "wait"
                          [] mainOn = Tcp -> "stop"
                          [] OTHER -> "return")
    /\ Wait(mainOn)
    /\ mainOn' = After(mainOn)
    /\ UNCHANGED <<life, bRunning, pc, fileVars, fault, deleterVars, destroyed>>

(* td.stop(); *)
MainStop ==
    /\ MainGoto("stop", "wait")
    /\ StopDeleter
    /\ UNCHANGED <<life, joinable, pc, fileVars, fault, queue, taken, destroyed, mainOn>>

(* return 0 destroys s2, s1 and td; the process ends a little later, with  *)
(* whatever connection threads it still has.                               *)
MainReturn ==
    /\ MainGoto("return", "exit")
    /\ destroyed' = TRUE
    /\ UNCHANGED <<workerVars, fileVars, deleterVars, mainOn>>

MainExit ==
    /\ MainGoto("exit", "exited")
    /\ UNCHANGED <<workerVars, fileVars, deleterVars, destroyed, mainOn>>

MainStep ==
    /\ \/ MainRun \/ MainSpawn \/ MainAssign \/ MainWait
       \/ MainStop \/ MainReturn \/ MainExit
    /\ UNCHANGED <<connections, connsetMutex, connVars, newConn, handlerVars>>

-----------------------------------------------------------------------------
(* SIGINT: signalHandler calls the lambda, s1.stop() and then s2.stop(),   *)
(* on any thread that does not handle a SIGINT already.  Only there it is  *)
(* blocked meanwhile, so that another SIGINT is handled by another thread. *)
(* A thread that sleeps in a system call comes back from it with EINTR.    *)
HandlerGoto(t, from, to) == hPc[t] = from /\ hPc' = [hPc EXCEPT ![t] = to]

Runs(t) == t # Main => pc[t] \notin {"unborn", "dead"}

Interrupt(t) ==
    /\ signals < MaxSignals
    /\ Runs(t)
    /\ HandlerGoto(t, "idle", "flag")
    /\ signals' = signals + 1
    /\ hOn' = [hOn EXCEPT ![t] = Modbus]
    /\ pc' = IF t = Main THEN pc ELSE [pc EXCEPT ![t] = Woken(t)]
    /\ UNCHANGED <<life, bRunning, joinable, fault, fileVars, hCur>>

(* Nothing of the handler is of any use once main has left its block. *)
StopOnDestroyed(t) ==
    /\ hPc[t] # "idle" /\ destroyed
    /\ Fail("used a destroyed server")
    /\ UNCHANGED <<life, bRunning, joinable, pc, fileVars, handlerVars>>

StopFlag(t) ==
    /\ HandlerGoto(t, "flag", "close")
    /\ ClearRunning(hOn[t])
    /\ UNCHANGED <<life, joinable, pc, fileVars, fault, hOn, hCur, signals>>

(* ModbusServer closes the number it keeps, the TcpServer its acceptor. *)
StopClose(t) ==
    /\ HandlerGoto(t, "close", "cancel")
    /\ CloseSocket(hOn[t], hOn[t] = Tcp)
    /\ UNCHANGED <<life, bRunning, joinable, pc, fault, hOn, hCur, signals>>

StopCancel(t) ==
    /\ HandlerGoto(t, "cancel", "begin")
    /\ CancelIO(hOn[t])
    /\ UNCHANGED <<life, bRunning, joinable, fileVars, fault, hOn, hCur, signals>>

(* stopConnections walks the set in the order of the addresses, without    *)
(* connsetMutex.                                                           *)
Following(t) == {c \in connections[hOn[t]] : c > hCur[t]}

(* The iterator moves on from the node of hCur.  If another thread has     *)
(* erased that node in the meantime, the iterator dangles.                 *)
StopNext(t) ==
    /\ hPc[t] \in {"begin", "next"}
    /\ \/ /\ hPc[t] = "next" /\ hCur[t] \notin connections[hOn[t]]
          /\ Fail("advanced a dangling iterator")
          /\ UNCHANGED <<hPc, hCur>>
       \/ /\ hPc[t] = "begin" \/ hCur[t] \in connections[hOn[t]]
          /\ \/ /\ Following(t) = {}
                /\ hPc' = [hPc EXCEPT ![t] = "clear"] /\ UNCHANGED hCur
             \/ \E c \in Following(t) :
                   /\ \A d \in Following(t) : c <= d
                   /\ hCur' = [hCur EXCEPT ![t] = c]
                   /\ hPc' = [hPc EXCEPT ![t] = "connFlag"]
          /\ UNCHANGED fault
    /\ UNCHANGED <<life, bRunning, joinable, pc, fileVars, hOn, signals>>

(* conn->stop(), on an object the deleter may have deleted since the loop  *)
(* read its address.                                                       *)
StopDeleted(t) ==
    /\ hPc[t] \in {"connFlag", "connClose", "connCancel"}
    /\ life[hCur[t]] = "deleted"
    /\ Fail("stopped a deleted worker")
    /\ UNCHANGED <<life, bRunning, joinable, pc, fileVars, handlerVars>>

StopConnFlag(t) ==
    /\ HandlerGoto(t, "connFlag", "connClose")
    /\ life[hCur[t]] # "deleted"
    /\ ClearRunning(hCur[t])
    /\ UNCHANGED <<life, joinable, pc, fileVars, fault, hOn, hCur, signals>>

(* ModbusConnection closes the number it keeps, TcpConnection its socket. *)
StopConnClose(t) ==
    /\ HandlerGoto(t, "connClose", "connCancel")
    /\ life[hCur[t]] # "deleted"
    /\ CloseSocket(hCur[t], owner[hCur[t]] = Tcp)
    /\ UNCHANGED <<life, bRunning, joinable, pc, fault, hOn, hCur, signals>>

StopConnCancel(t) ==
    /\ HandlerGoto(t, "connCancel", "next")
    /\ life[hCur[t]] # "deleted"
    /\ CancelIO(hCur[t])
    /\ UNCHANGED <<life, bRunning, joinable, fileVars, fault, hOn, hCur, signals>>

(* cancelIO of either kind of worker, when it has no thread to signal. *)
StopMissing(t) ==
    /\ \/ hPc[t] = "cancel" /\ CancelMissing(hOn[t])
       \/ /\ hPc[t] = "connCancel" /\ life[hCur[t]] # "deleted"
          /\ CancelMissing(hCur[t])
    /\ UNCHANGED <<life, bRunning, joinable, pc, fileVars, handlerVars>>

(* Mutation: the handler goes on from s2 to td. *)
StopClearThenDeleter(t) ==
    /\ HandlerGoto(t, "clear", IF hOn[t] = Modbus THEN "flag" ELSE "idle")
    /\ connections' = [connections EXCEPT ![hOn[t]] = {}]
    /\ hOn' = [hOn EXCEPT ![t] = After(@)]
    /\ hCur' = [hCur EXCEPT ![t] = NoConn]
    /\ UNCHANGED <<workerVars, fileVars, signals>>

(* connections_.clear(), the end of one server's stop. *)
StopClear(t) ==
    /\ HandlerGoto(t, "clear", IF hOn[t] = Modbus THEN "flag" ELSE "idle")
    /\ connections' = [connections EXCEPT ![hOn[t]] = {}]
    /\ hOn' = [hOn EXCEPT ![t] = IF @ = Modbus THEN Tcp ELSE Modbus]
    /\ hCur' = [hCur EXCEPT ![t] = NoConn]
    /\ UNCHANGED <<workerVars, fileVars, signals>>

(* The threads that are about to change the set of s: under its lock, or   *)
(* in another handler, without it.                                         *)
Editors(s) ==
    {t \in Threads : hPc[t] = "clear" /\ hOn[t] = s} \cup
    {w \in Workers : /\ Undisturbed(w) /\ connsetMutex[s] = NoConn
                     /\ \/ w = s /\ pc[w] = "register"
                        \/ w \in Conns /\ pc[w] = "deregister" /\ owner[w] = s}

(* Two threads in the set at once, one of them to change it: undefined.    *)
(* The steps above are what it comes to if either has it for itself.       *)
StopRaces(t) ==
    /\ hPc[t] \in {"begin", "next", "clear"}
    /\ Editors(hOn[t]) \ {t} # {}
    /\ Fail("raced for a connection set")
    /\ UNCHANGED <<life, bRunning, joinable, pc, fileVars, handlerVars>>

StopStep(t) ==
    \/ StopFlag(t) \/ StopClose(t) \/ StopCancel(t) \/ StopNext(t)
    \/ StopDeleted(t) \/ StopConnFlag(t) \/ StopConnClose(t)
    \/ StopConnCancel(t) \/ StopMissing(t) \/ StopRaces(t)

HandlerStep(t) ==
    /\ \/ ~destroyed /\ StopStep(t) /\ UNCHANGED connections
       \/ ~destroyed /\ StopClear(t)
       \/ StopOnDestroyed(t) /\ UNCHANGED connections
    /\ UNCHANGED <<deleterVars, connsetMutex, destroyed, connVars, newConn, mainVars>>

-----------------------------------------------------------------------------
DeleterStep ==
    /\ \/ DeleterTop \/ DeleterTake \/ DeleterWait
       \/ \E c \in Conns : taken = c /\ DeleterDelete(owner[c] = Tcp)
    /\ UNCHANGED <<baseVars, connVars, newConn, mainVars, handlerVars>>

Init ==
    /\ WorkerInit /\ DescriptorInit /\ DeleterInit /\ BaseInit
    /\ ConnectionInit /\ AcceptorInit
    /\ mainPc = "run" /\ mainOn = Modbus
    /\ hPc = [t \in Threads |-> "idle"]
    /\ hOn = [t \in Threads |-> Modbus]
    /\ hCur = [t \in Threads |-> NoConn]
    /\ signals = 0

Alive == fault = "none" /\ mainPc # "exited"

(* A thread's own steps, and what the world outside the process does.      *)
Connecting(c) ==
    /\ Alive /\ Undisturbed(c)
    /\ ConnectionStep(c) /\ UNCHANGED <<newConn, mainVars, handlerVars>>
Accepting(s) ==
    /\ Alive /\ Undisturbed(s)
    /\ AcceptorStep(s) /\ UNCHANGED <<mainVars, handlerVars>>
Deleting == Alive /\ Undisturbed(Deleter) /\ DeleterStep
Maining  == Alive /\ Undisturbed(Main) /\ MainStep
Handling(t) == Alive /\ ~Undisturbed(t) /\ HandlerStep(t)

Environment ==
    /\ Alive
    /\ \/ \E c \in Conns : ClientStep(c) /\ UNCHANGED <<newConn, mainVars, handlerVars>>
       \/ \E s \in Servers, c \in Conns :
            /\ Cardinality({d \in Conns : owner[d] = s}) < MaxClients[s]
            /\ Accept(s, c) /\ UNCHANGED <<mainVars, handlerVars>>
       \/ /\ \E t \in SignalThreads : Interrupt(t)
          /\ UNCHANGED <<deleterVars, baseVars, connVars, newConn, mainVars>>

(* The process is over: main has returned, or a fault has ended it.        *)
Over == ~Alive /\ UNCHANGED vars

Next ==
    \/ \E c \in Conns : Connecting(c)
    \/ \E s \in Servers : Accepting(s)
    \/ Deleting
    \/ Maining
    \/ \E t \in Threads : Handling(t)
    \/ Environment
    \/ Over

Spec == Init /\ [][Next]_vars

(* Every thread that main has started is scheduled again and again,        *)
(* whether it does its own work or runs a handler, and so is a handler on  *)
(* main.  Nothing is assumed of clients, of SIGINT, nor, here, of main's   *)
(* own work.                                                               *)
Fairness ==
    /\ \A c \in Conns : WF_vars(Connecting(c) \/ Handling(c))
    /\ \A s \in Servers : WF_vars(Accepting(s) \/ Handling(s))
    /\ WF_vars(Deleting \/ Handling(Deleter))
    /\ WF_vars(Handling(Main))

MainFairness == WF_vars(Maining)
=============================================================================
