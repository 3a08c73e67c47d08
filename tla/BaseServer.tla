----------------------------- MODULE BaseServer -----------------------------
(***************************************************************************)
(* The set of connections each server keeps (BaseServer.cpp).  Its two     *)
(* editing operations run under connsetMutex; stopConnections, which the   *)
(* signal handler runs, does not take it, and is in MbServer.              *)
(***************************************************************************)
EXTENDS ThreadDeleter

VARIABLES
    connections,    \* connections_ of each server
    connsetMutex,   \* the connection thread holding it, or NoConn
    destroyed       \* main has left its block: td, s1 and s2 are destroyed

baseVars == <<connections, connsetMutex, destroyed>>

(* registerConnection: insert under the lock, in one step since the only   *)
(* access to the set that takes no lock is the handler's.                  *)
RegisterConnection(s, c) ==
    /\ connsetMutex[s] = NoConn
    /\ connections' = [connections EXCEPT ![s] = @ \cup {c}]
    /\ UNCHANGED <<connsetMutex, destroyed>>

(* Mutation: the connection is left in the set. *)
DeregisterKeep(s, c) ==
    /\ connsetMutex[s] = NoConn
    /\ connsetMutex' = [connsetMutex EXCEPT ![s] = c]
    /\ UNCHANGED <<connections, destroyed>>

(* deregisterConnection takes the lock and erases, hands the worker to the *)
(* deleter with the lock held, and releases the lock.                      *)
DeregisterErase(s, c) ==
    /\ connsetMutex[s] = NoConn
    /\ connsetMutex' = [connsetMutex EXCEPT ![s] = c]
    /\ connections' = [connections EXCEPT ![s] = @ \ {c}]
    /\ UNCHANGED destroyed

DeregisterUnlock(s) ==
    /\ connsetMutex' = [connsetMutex EXCEPT ![s] = NoConn]
    /\ UNCHANGED <<connections, destroyed>>

BaseInit ==
    /\ connections = [s \in Servers |-> {}]
    /\ connsetMutex = [s \in Servers |-> NoConn]
    /\ destroyed = FALSE
=============================================================================
