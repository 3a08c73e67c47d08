------------------------------- MODULE Worker -------------------------------
(***************************************************************************)
(* The base class of every long-lived object of the server process         *)
(* (Worker.h, Worker.cpp): an object with a flag bRunning and one thread.  *)
(* ModbusServer, TcpServer, ThreadDeleter, TcpConnection and               *)
(* ModbusConnection all derive from it.                                    *)
(*                                                                         *)
(* A worker's thread is a program counter, pc[w]: "unborn" before          *)
(* std::thread is constructed, "dead" once run__ has returned.  The member *)
(* thread_ is a different thing: it becomes joinable only when the         *)
(* assignment in Worker::run is over, at a time when the new thread may    *)
(* already be running, and stops being joinable when it is joined.         *)
(*                                                                         *)
(* Undefined behaviour and uncaught exceptions put the reason in "fault"   *)
(* and end the behaviour: nothing is assumed of the process after that.    *)
(***************************************************************************)
EXTENDS Naturals

CONSTANTS
    Conns,      \* the addresses at which connection objects may be allocated
    Modbus,     \* the ModbusServer, s1 in main
    Tcp,        \* the TcpServer, s2 in main
    Deleter     \* the ThreadDeleter, td in main

Servers == {Modbus, Tcp}
Workers == Conns \cup Servers \cup {Deleter}
NoConn  == 0

ASSUME WorkerAssumption ==
    /\ Conns \subseteq Nat \ {NoConn}
    /\ Modbus # Tcp /\ Deleter \notin Servers
    /\ (Servers \cup {Deleter}) \cap Nat = {}

VARIABLES
    life,       \* of a connection object: "absent", "live" or "deleted"
    bRunning,   \* Worker::bRunning
    joinable,   \* the workers whose thread_ is joinable
    pc,         \* where each worker's thread is
    fault       \* "none", or what went irreparably wrong

workerVars == <<life, bRunning, joinable, pc, fault>>

(* Mutation: an error on the argument's read is ignored like the first. *)
ResumeAtIgnoringError ==
    [accepting |-> "check", selecting |-> "blind", receiving |-> "retry",
     readingCmd |-> "arg", readingArg |-> "serve", writing |-> "check"]

(* A thread in one of these places sleeps in a system call.  A signal makes *)
(* the call return EINTR, and the thread goes on at ResumeAt:              *)
(*  - accept: no new socket, the accept loop looks at bRunning again;      *)
(*  - select: the result is ignored and FD_ISSET, on a set that select     *)
(*    left as it was, is true: a request is handled that is not there;     *)
(*  - libmodbus, waiting for the first byte of a request: it waits again;  *)
(*  - the read of a command byte: its error code is overwritten by the     *)
(*    read of the argument, which is tried all the same;                   *)
(*  - the read of the argument: the connection loop ends;                  *)
(*  - a write: the error is dropped, the loop looks at bRunning.           *)
ResumeAt ==
    [accepting |-> "check", selecting |-> "blind", receiving |-> "retry",
     readingCmd |-> "arg", readingArg |-> "deregister", writing |-> "check"]

(* EINTR for the thread of w, if it sleeps in a system call. *)
Woken(w) == IF pc[w] \in DOMAIN ResumeAt THEN ResumeAt[pc[w]] ELSE pc[w]

Goto(w, from, to) == pc[w] = from /\ pc' = [pc EXCEPT ![w] = to]

(* An error the process does not survive, or undefined behaviour. *)
Fail(what) == fault' = what

-----------------------------------------------------------------------------
(* Worker::run sets bRunning, constructs the thread and then assigns it to *)
(* thread_; the two ends are here, the caller moves the new thread's pc.   *)
SetRunning(w) == bRunning' = [bRunning EXCEPT ![w] = TRUE]

AssignThread(w) == joinable' = joinable \cup {w}

(* Worker::stop: the flag first, then the class's own stop__. *)
ClearRunning(w) == bRunning' = [bRunning EXCEPT ![w] = FALSE]

(* Mutation: the signal is not sent. *)
CancelIOUnsent(w) == w \in joinable /\ UNCHANGED pc

(* Worker::cancelIO: pthread_kill on thread_'s native handle.  There is no *)
(* thread behind the handle before run has assigned it and after a join.   *)
(* The signal wakes the thread only if it sleeps in a system call; it      *)
(* leaves no trace in a thread that is about to enter one.                 *)
CancelIO(w) ==
    /\ w \in joinable
    /\ pc' = [pc EXCEPT ![w] = Woken(w)]

CancelMissing(w) ==
    /\ w \notin joinable
    /\ Fail("signalled a missing thread")

(* Worker::wait returns at once if thread_ is not joinable, and otherwise  *)
(* when the thread has ended.                                              *)
Wait(w) ==
    /\ w \in joinable => pc[w] = "dead"
    /\ joinable' = joinable \ {w}

WorkerInit ==
    /\ life = [c \in Conns |-> "absent"]
    /\ bRunning = [w \in Workers |-> FALSE]
    /\ joinable = {}
    /\ pc = [w \in Workers |-> "unborn"]
    /\ fault = "none"
=============================================================================
