---------------------------- MODULE ThreadDeleter ----------------------------
(***************************************************************************)
(* The reaper (ThreadDeleter.cpp): one thread that takes finished workers  *)
(* from a queue, joins their threads and deletes the objects.              *)
(*                                                                         *)
(* threads_ is a BlockingCollection without an upper bound, used by one    *)
(* consumer with no attached producers or consumers, and never             *)
(* deactivated: add appends unless adding is completed, take sleeps while  *)
(* the queue is empty and adding is not completed.                         *)
(***************************************************************************)
EXTENDS Descriptors, Sequences

VARIABLES
    queue,      \* threads_: the workers handed over and not yet taken
    completed,  \* threads_.is_adding_completed_
    taken       \* the local variable worker of ThreadDeleter::run__

deleterVars == <<queue, completed, taken>>

(* Mutations: a queue that keeps one worker only; a queue that goes on     *)
(* accepting workers.                                                      *)
DeleteWorkerIfEmpty(c) ==
    queue' = IF completed \/ queue # <<>> THEN queue ELSE Append(queue, c)

DeleteWorkerAlways(c) == queue' = Append(queue, c)

(* ThreadDeleter::deleteWorker: add refuses the worker, silently, once     *)
(* adding is completed.                                                    *)
DeleteWorker(c) ==
    queue' = IF completed THEN queue ELSE Append(queue, c)

(* ThreadDeleter::stop__, called through Worker::stop. *)
StopDeleter ==
    /\ ClearRunning(Deleter)
    /\ completed' = TRUE

-----------------------------------------------------------------------------
(* while(!threads_.is_completed()) *)
DeleterTop ==
    /\ Goto(Deleter, "top", IF completed /\ queue = <<>> THEN "dead" ELSE "take")
    /\ UNCHANGED <<life, bRunning, joinable, fileVars, fault, deleterVars>>

(* Mutation: the item is looked at and left in the queue. *)
DeleterPeek ==
    /\ queue # <<>>
    /\ Goto(Deleter, "take", "wait")
    /\ taken' = Head(queue)
    /\ UNCHANGED <<life, bRunning, joinable, fileVars, fault, queue, completed>>

(* threads_.take: an item, or, when there is none and there will be none,  *)
(* the status Completed, which sends the loop back to its condition.       *)
DeleterTake ==
    /\ \/ /\ queue # <<>>
          /\ Goto(Deleter, "take", "wait")
          /\ taken' = Head(queue)
          /\ queue' = Tail(queue)
       \/ /\ queue = <<>> /\ completed
          /\ Goto(Deleter, "take", "top")
          /\ UNCHANGED <<queue, taken>>
    /\ UNCHANGED <<life, bRunning, joinable, fileVars, fault, completed>>

(* Mutation: the thread is detached instead of joined. *)
DeleterDetach ==
    /\ Goto(Deleter, "wait", "delete")
    /\ joinable' = joinable \ {taken}
    /\ UNCHANGED <<life, bRunning, fileVars, fault, deleterVars>>

(* worker->wait() *)
DeleterWait ==
    /\ Goto(Deleter, "wait", "delete")
    /\ Wait(taken)
    /\ UNCHANGED <<life, bRunning, fileVars, fault, deleterVars>>

(* Mutation: the worker is joined and forgotten. *)
DeleterLeak(closesSocket) ==
    /\ Goto(Deleter, "delete", "top")
    /\ taken' = NoConn
    /\ UNCHANGED <<life, bRunning, joinable, fileVars, fault, queue, completed>>

(* Mutation: the destructor of Worker is not virtual, so that no socket is *)
(* closed.                                                                 *)
DeleterDeletePlain(closesSocket) ==
    /\ Goto(Deleter, "delete", "top")
    /\ taken \notin joinable
    /\ life' = [life EXCEPT ![taken] = "deleted"]
    /\ taken' = NoConn
    /\ UNCHANGED <<bRunning, joinable, fileVars, fault, queue, completed>>

(* Destroying a std::thread that is joinable calls std::terminate.         *)
(* Otherwise the object is gone.  Only ~TcpConnection closes the socket;   *)
(* the number a ModbusConnection keeps is lost, open or not.               *)
DeleterDelete(closesSocket) ==
    /\ pc[Deleter] = "delete"
    /\ \/ /\ taken \in joinable
          /\ Fail("destroyed a joinable thread")
          /\ UNCHANGED <<life, pc, fileVars, taken>>
       \/ /\ taken \notin joinable
          /\ life' = [life EXCEPT ![taken] = "deleted"]
          /\ IF closesSocket THEN CloseSocket(taken, TRUE) ELSE UNCHANGED fileVars
          /\ Goto(Deleter, "delete", "top")
          /\ taken' = NoConn
          /\ UNCHANGED fault
    /\ UNCHANGED <<bRunning, joinable, queue, completed>>

DeleterInit ==
    /\ queue = <<>>
    /\ completed = FALSE
    /\ taken = NoConn
=============================================================================
