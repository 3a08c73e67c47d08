------------------------- MODULE RegisterProperties -------------------------
(***************************************************************************)
(* What the lock around the register bank achieves, and what it does not.  *)
(***************************************************************************)
EXTENDS Registers, FiniteSets

InRequest(t) == at[t] \in {"receive", "write", "reply"}

(* Every variable has its type, and whoever serves a request or copies a   *)
(* table has the lock.                                                     *)
RegTypeOK ==
    /\ setup \in {"context", "mapping", "listen", "serving", "failed"}
    /\ created \in BOOLEAN
    /\ bank \in [Tables -> [Cells -> Nat]]
    /\ writes \in Seq(Writable)
    /\ ctxMutex \in Threads \cup {Nobody}
    /\ ctxSocket \in ModbusThreads \cup {Nobody}
    /\ at \in [Threads -> {"idle", "receive", "write", "reply", "lock", "copy", "respond"}]
    /\ table \in [ModbusThreads -> Writable]
    /\ number \in [ModbusThreads -> Nat]
    /\ todo \in [TcpThreads -> Seq(Tables)]
    /\ copied \in [TcpThreads -> [Tables -> Seq(Nat)]]
    /\ fault \in {"none", "null mapping"}
    /\ \A t \in Threads : InRequest(t) \/ at[t] = "copy" => ctxMutex = t

(* The single libmodbus context serves all connections: whoever is between *)
(* modbus_set_socket and the end of modbus_reply has its own socket in it, *)
(* so that no request is read from, and no response sent to, another       *)
(* client's connection.                                                    *)
OwnSocket == \A t \in ModbusThreads : InRequest(t) => ctxSocket = t

(* readAll is not a snapshot, since it takes the lock once per table, but  *)
(* it does not run backwards: a client that sees a write to the coils also *)
(* sees every earlier write to the holding registers.                      *)
NeverBackwards ==
    \A t \in TcpThreads :
        at[t] = "respond" /\ copied[t]["coil"] # <<>> /\ copied[t]["holding"] # <<>> =>
            \A k \in 1 .. copied[t]["coil"][1] :
                writes[k] = "holding" => k <= copied[t]["holding"][1]

(* A TCP client brings the process down by asking before the mapping       *)
(* exists, or after it could not be created, and at no other time.         *)
BankFound == fault # "none" => setup \in {"context", "failed"}

(* A request does not hold the lock for ever: modbus_receive gives up on a *)
(* client that stops in the middle of a request.                           *)
LockReleased ==
    \A t \in Threads : ctxMutex = t ~> ctxMutex # t \/ fault # "none"

-----------------------------------------------------------------------------
(* A write shows when its last register is set, and the write under way is *)
(* not counted before.                                                     *)
UnderWay == Cardinality({t \in ModbusThreads : at[t] = "write"})

(* The numbers in a table that has been copied to its end: one, if it is   *)
(* as one write left it.                                                   *)
Whole(cells) == IF Len(cells) < Size THEN {} ELSE {cells[i] : i \in Cells}

Atomic == INSTANCE AtomicBank WITH
    Readers <- TcpThreads,
    tables <- [x \in Writable |-> bank[x][Size]],
    count <- Len(writes) - UnderWay,
    view <- [t \in TcpThreads |-> [x \in Writable |-> Whole(copied[t][x])]]

(* Writing register by register and copying register by register, on any   *)
(* number of threads, comes to atomic writes and atomic reads of tables.   *)
ImplementsAtomicBank == Atomic!AtomicSpec
=============================================================================
