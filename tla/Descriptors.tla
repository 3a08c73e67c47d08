---------------------------- MODULE Descriptors ----------------------------
(***************************************************************************)
(* The file descriptors of the process.  A worker keeps the number of its  *)
(* socket; the kernel keeps, for every number, the socket it denotes.      *)
(* The two come apart: ModbusServer and ModbusConnection call close and    *)
(* keep the number, which the kernel then gives to the next socket that is *)
(* opened.  Boost's sockets forget the number when they are closed.        *)
(***************************************************************************)
EXTENDS Worker

CONSTANT Numbers    \* the numbers the process may use for sockets at a time

ASSUME NumbersAssumption == NoConn \notin Numbers

Sockets == Conns \cup Servers   \* a socket is named after whom it was made for

VARIABLES
    fd,         \* the number each worker keeps, or NoConn
    file,       \* the socket each number denotes, or NoConn
    waitsOn     \* the socket on which each thread sleeps or slept last, its
                \* own to begin with

fileVars == <<fd, file, waitsOn>>

(* The socket that a system call of w is on: mostly its own. *)
SocketOf(w) == IF fd[w] = NoConn THEN NoConn ELSE file[fd[w]]

FreeNumbers == {n \in Numbers : file[n] = NoConn}

(* socket() and accept() return the lowest free number.  Which one that is *)
(* depends on files and calls that are not modelled, so it may be any free *)
(* number; of those that no worker keeps any more, one stands for all.     *)
NewNumbers ==
    LET kept == {fd[w] : w \in Sockets}
        unkept == FreeNumbers \ kept
    IN  (FreeNumbers \cap kept) \cup
        (IF unkept = {} THEN {} ELSE {CHOOSE n \in unkept : TRUE})

OpenSocket(w) ==
    \E n \in NewNumbers :
        /\ fd' = [fd EXCEPT ![w] = n]
        /\ file' = [file EXCEPT ![n] = w]
        /\ UNCHANGED waitsOn

(* Mutation: a closed Boost socket remembers its number. *)
CloseSocketKept(w, forgets) ==
    /\ file' = [n \in Numbers |-> IF n = fd[w] THEN NoConn ELSE file[n]]
    /\ UNCHANGED <<fd, waitsOn>>

(* close() of the number w keeps, whatever it denotes by now.  A thread    *)
(* that sleeps on the socket sleeps on.                                    *)
CloseSocket(w, forgets) ==
    /\ file' = [n \in Numbers |-> IF n = fd[w] THEN NoConn ELSE file[n]]
    /\ fd' = [fd EXCEPT ![w] = IF forgets THEN NoConn ELSE @]
    /\ UNCHANGED waitsOn

SleepOn(w, socket) ==
    /\ waitsOn' = [waitsOn EXCEPT ![w] = socket]
    /\ UNCHANGED <<fd, file>>

DescriptorInit ==
    /\ fd = [w \in Sockets |-> NoConn]
    /\ file = [n \in Numbers |-> NoConn]
    /\ waitsOn = [w \in Sockets |-> w]
=============================================================================
