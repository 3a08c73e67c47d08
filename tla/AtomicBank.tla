------------------------------ MODULE AtomicBank ------------------------------
(***************************************************************************)
(* What the register bank promises of the tables that Modbus clients       *)
(* write: a write sets a whole table at one instant, writes are numbered   *)
(* in the order of these instants, and a reader gets each table as it was  *)
(* at one instant between its question and the answer.                     *)
(***************************************************************************)
EXTENDS Naturals

CONSTANTS Writable, Readers

VARIABLES
    tables,     \* the number of the write each table holds
    count,      \* the writes so far
    view        \* what each reader has got of each table: nothing, {}, or
                \* the number of a write

bankPromise == <<tables, count, view>>

BankInit ==
    /\ tables = [x \in Writable |-> 0]
    /\ count = 0
    /\ view = [r \in Readers |-> [x \in Writable |-> {}]]

WriteTable(x) ==
    /\ count' = count + 1
    /\ tables' = [tables EXCEPT ![x] = count']
    /\ UNCHANGED view

ReadTable(r, x) ==
    /\ view[r][x] = {}
    /\ view' = [view EXCEPT ![r][x] = {tables[x]}]
    /\ UNCHANGED <<tables, count>>

Answer(r) ==
    /\ view' = [view EXCEPT ![r] = [x \in Writable |-> {}]]
    /\ UNCHANGED <<tables, count>>

BankNext ==
    \/ \E x \in Writable : WriteTable(x)
    \/ \E r \in Readers : Answer(r) \/ \E x \in Writable : ReadTable(r, x)

AtomicSpec == BankInit /\ [][BankNext]_bankPromise
=============================================================================
