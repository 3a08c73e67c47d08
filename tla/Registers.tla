------------------------------ MODULE Registers ------------------------------
(***************************************************************************)
(* The register bank of ModbusServer: four tables, shared under ctxMutex   *)
(* by the threads of the Modbus connections, which write two of them, and  *)
(* by those of the TCP connections, which only read.  ModbusServer::run__  *)
(* creates the bank without the lock, while TCP clients may already ask.   *)
(*                                                                         *)
(* A register holds the number of the write that last set it, and every    *)
(* write sets a whole table, register by register, as a write-multiple     *)
(* request does; the writes are done by libmodbus.                         *)
(***************************************************************************)
EXTENDS Integers, Sequences

CONSTANTS
    ModbusThreads,  \* the threads of the Modbus connections
    TcpThreads,     \* the threads of the TCP connections
    Size,           \* the registers of a table
    MaxWrites       \* bound: the write requests that Modbus clients send

Threads == ModbusThreads \cup TcpThreads
Nobody  == "nobody"

ASSUME RegistersAssumption ==
    /\ ModbusThreads \cap TcpThreads = {} /\ Nobody \notin Threads
    /\ Size \in Nat \ {0} /\ MaxWrites \in Nat

Tables   == {"coil", "input", "discrete", "holding"}
Writable == {"coil", "holding"}
Cells    == 1 .. Size

VARIABLES
    setup,      \* where ModbusServer::run__ is: "context", "mapping",
                \* "listen", "serving" or "failed"
    created,    \* mb_mapping_ is not null
    bank,       \* the tables behind mb_mapping_
    writes,     \* auxiliary: the table of each write so far
    ctxMutex,   \* its owner, or Nobody
    ctxSocket,  \* the thread whose socket ctx_ has, or Nobody
    at,         \* where each thread is
    table,      \* the table a Modbus thread writes
    number,     \* the number of that write
    todo,       \* the tables a TCP thread has yet to copy
    copied,     \* what it has copied of each table
    fault       \* "none", or "null mapping" after a null pointer was read

bankVars   == <<setup, created, bank, writes>>
lockVars   == <<ctxMutex, ctxSocket>>
modbusVars == <<table, number>>
tcpVars    == <<todo, copied>>
regVars    == <<bankVars, lockVars, at, modbusVars, tcpVars, fault>>

NothingCopied == [x \in Tables |-> <<>>]

Step(t, from, to) == at[t] = from /\ at' = [at EXCEPT ![t] = to]

Lock(t) == ctxMutex = Nobody /\ ctxMutex' = t
Unlock  == ctxMutex' = Nobody

-----------------------------------------------------------------------------
(* Mutation: the result of modbus_mapping_new is not checked. *)
CreateUnchecked ==
    /\ setup = "context" /\ setup' = "listen"
    /\ created' \in BOOLEAN
    /\ UNCHANGED <<bank, writes>>

(* modbus_mapping_new returns zeroed tables, or nothing. *)
Create ==
    /\ setup = "context"
    /\ \/ setup' = "mapping" /\ created' = TRUE
       \/ setup' = "failed" /\ UNCHANGED created
    /\ UNCHANGED <<bank, writes>>

(* iota and fill set the registers of the read-only tables; another thread *)
(* may see these writes in any order.                                      *)
Fill ==
    /\ setup = "mapping"
    /\ \E x \in Tables \ Writable, i \in Cells :
         /\ bank[x][i] = 0
         /\ bank' = [bank EXCEPT ![x][i] = 1]
    /\ setup' = IF \E x \in Tables \ Writable : \E i \in Cells : bank'[x][i] = 0
                THEN "mapping" ELSE "listen"
    /\ UNCHANGED <<created, writes>>

Listen ==
    /\ setup = "listen" /\ setup' \in {"serving", "failed"}
    /\ UNCHANGED <<created, bank, writes>>

SetupStep ==
    /\ Create \/ Fill \/ Listen
    /\ UNCHANGED <<lockVars, at, modbusVars, tcpVars, fault>>

-----------------------------------------------------------------------------
(* Mutation: the socket is set before the lock is taken. *)
AcquireLate(t) ==
    /\ setup = "serving"
    /\ \/ Step(t, "idle", "lock") /\ ctxSocket' = t /\ UNCHANGED ctxMutex
       \/ Step(t, "lock", "receive") /\ Lock(t) /\ UNCHANGED ctxSocket
    /\ UNCHANGED <<bankVars, modbusVars, tcpVars, fault>>

(* handleModbusRequest: the lock, and modbus_set_socket under it.  There   *)
(* are Modbus connections only once the server listens.                    *)
Acquire(t) ==
    /\ setup = "serving"
    /\ Step(t, "idle", "receive")
    /\ Lock(t)
    /\ ctxSocket' = t
    /\ UNCHANGED <<bankVars, modbusVars, tcpVars, fault>>

(* modbus_receive returns a request that reads, or one that writes a table;*)
Receive(t) ==
    /\ \/ /\ Step(t, "receive", "reply")
          /\ UNCHANGED <<writes, modbusVars>>
       \/ /\ Step(t, "receive", "write")
          /\ Len(writes) < MaxWrites
          /\ \E x \in Writable :
               /\ table' = [table EXCEPT ![t] = x]
               /\ writes' = Append(writes, x)
               /\ number' = [number EXCEPT ![t] = Len(writes) + 1]
    /\ UNCHANGED <<setup, created, bank, lockVars, tcpVars, fault>>

(* Mutation: an incomplete request is waited for. *)
ReceiveFailsNever(t) ==
    /\ Step(t, "receive", "receive")
    /\ UNCHANGED <<bankVars, lockVars, modbusVars, tcpVars, fault>>

(* or it fails: on a closed connection, or after the time an incomplete    *)
(* request is given.                                                       *)
ReceiveFails(t) ==
    /\ Step(t, "receive", "idle")
    /\ Unlock
    /\ UNCHANGED <<bankVars, ctxSocket, modbusVars, tcpVars, fault>>

(* modbus_reply, a register at a time. *)
Write(t) ==
    /\ at[t] = "write"
    /\ \E i \in Cells :
         /\ bank[table[t]][i] # number[t]
         /\ \A j \in 1 .. i - 1 : bank[table[t]][j] = number[t]
         /\ bank' = [bank EXCEPT ![table[t]][i] = number[t]]
         /\ at' = [at EXCEPT ![t] = IF i = Size THEN "reply" ELSE "write"]
    /\ UNCHANGED <<setup, created, writes, lockVars, modbusVars, tcpVars, fault>>

(* The response goes to the socket ctx_ has; the lock is released. *)
Reply(t) ==
    /\ Step(t, "reply", "idle")
    /\ Unlock
    /\ UNCHANGED <<bankVars, ctxSocket, modbusVars, tcpVars, fault>>

ModbusStep(t) == Acquire(t) \/ Receive(t) \/ ReceiveFails(t) \/ Write(t) \/ Reply(t)

-----------------------------------------------------------------------------
(* Mutation: the four tables in another order. *)
ReadAllOrderHoldingFirst == <<"holding", "input", "discrete", "coil">>

(* readAll copies table after table, with a lock of its own for each. *)
ReadAllOrder == <<"coil", "input", "discrete", "holding">>

(* A client asks for one table, or for all. *)
Ask(t) ==
    /\ Step(t, "idle", "lock")
    /\ \E order \in {<<x>> : x \in Tables} \cup {ReadAllOrder} :
         todo' = [todo EXCEPT ![t] = order]
    /\ copied' = [copied EXCEPT ![t] = NothingCopied]
    /\ UNCHANGED <<bankVars, lockVars, modbusVars, fault>>

(* Mutation: a read takes no lock. *)
LockTableNot(t) ==
    /\ Step(t, "lock", "copy")
    /\ UNCHANGED <<bankVars, lockVars, modbusVars, tcpVars, fault>>

LockTable(t) ==
    /\ Step(t, "lock", "copy")
    /\ Lock(t)
    /\ UNCHANGED <<bankVars, ctxSocket, modbusVars, tcpVars, fault>>

(* readCoilAll and its like do not look whether there is a mapping. *)
ReadNull(t) ==
    /\ at[t] = "copy" /\ ~created
    /\ fault' = "null mapping"
    /\ UNCHANGED <<bankVars, lockVars, at, modbusVars, tcpVars>>

(* std::copy, a register at a time; the lock is released after the last.   *)
Copy(t) ==
    LET x == Head(todo[t])
        i == Len(copied[t][x]) + 1
    IN  /\ at[t] = "copy" /\ created
        /\ copied' = [copied EXCEPT ![t][x] = Append(@, bank[x][i])]
        /\ IF i < Size
           THEN UNCHANGED <<ctxMutex, at, todo>>
           ELSE /\ Unlock
                /\ todo' = [todo EXCEPT ![t] = Tail(@)]
                /\ at' = [at EXCEPT ![t] = IF Len(todo[t]) > 1 THEN "lock" ELSE "respond"]
        /\ UNCHANGED <<bankVars, ctxSocket, modbusVars, fault>>

(* The response has been written to the client. *)
Respond(t) ==
    /\ Step(t, "respond", "idle")
    /\ copied' = [copied EXCEPT ![t] = NothingCopied]
    /\ UNCHANGED <<bankVars, lockVars, modbusVars, todo, fault>>

TcpStep(t) == LockTable(t) \/ ReadNull(t) \/ Copy(t) \/ Respond(t)

(* readCoil and its like look at the number of the register before they    *)
(* look at the mapping; a number out of range is answered without it.      *)
ReadOneNull(t) ==
    /\ at[t] = "idle" /\ ctxMutex = Nobody /\ ~created
    /\ fault' = "null mapping"
    /\ UNCHANGED <<bankVars, lockVars, at, modbusVars, tcpVars>>

-----------------------------------------------------------------------------
RegInit ==
    /\ setup = "context" /\ created = FALSE
    /\ bank = [x \in Tables |-> [i \in Cells |-> 0]]
    /\ writes = <<>>
    /\ ctxMutex = Nobody /\ ctxSocket = Nobody
    /\ at = [t \in Threads |-> "idle"]
    /\ table = [t \in ModbusThreads |-> "coil"]
    /\ number = [t \in ModbusThreads |-> 0]
    /\ todo = [t \in TcpThreads |-> <<>>]
    /\ copied = [t \in TcpThreads |-> NothingCopied]
    /\ fault = "none"

RegNext ==
    \/ /\ fault = "none"
       /\ \/ SetupStep
          \/ \E t \in ModbusThreads : ModbusStep(t)
          \/ \E t \in TcpThreads : Ask(t) \/ TcpStep(t) \/ ReadOneNull(t)
    \/ fault # "none" /\ UNCHANGED regVars

RegSpec == RegInit /\ [][RegNext]_regVars

(* The threads go on with what they have begun.  That a request arrives is *)
(* up to the client; that modbus_receive gives up on one is not.           *)
FairRegSpec ==
    /\ RegSpec
    /\ \A t \in ModbusThreads :
         /\ WF_regVars(fault = "none" /\ ReceiveFails(t))
         /\ WF_regVars(fault = "none" /\ (Write(t) \/ Reply(t)))
    /\ \A t \in TcpThreads : WF_regVars(fault = "none" /\ TcpStep(t))
=============================================================================
