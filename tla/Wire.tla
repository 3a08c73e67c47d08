-------------------------------- MODULE Wire --------------------------------
(***************************************************************************)
(* The protocol between mbclient and a TcpConnection: a request is one     *)
(* byte of command and two of argument, a response four bytes of size and  *)
(* that many of payload.  Numbers are sent high byte first.  The response  *)
(* to READ_ALL holds the four tables, each with a size of its own.         *)
(*                                                                         *)
(* The registers have the values that ModbusServer::run__ gives them.      *)
(***************************************************************************)
EXTENDS Integers, Sequences

CONSTANT Size   \* the registers of a table

ASSUME WireAssumption == Size \in 1 .. 255

Tables  == {"coil", "discrete", "input", "holding"}
Words   == {"input", "holding"}     \* tables of two-byte registers

READ_ALL == 9

(* The code of a table's commands: one register, or all of them. *)
Code(x, all) ==
    (IF all THEN 4 ELSE 0)
      + (CHOOSE k \in 1 .. 4 : <<"coil", "discrete", "input", "holding">>[k] = x)

(* The handler that the server's switch finds for a code. *)
TableOf(cmd) == <<"coil", "discrete", "input", "holding">>[((cmd - 1) % 4) + 1]

Value(x, n) ==
    CASE x = "input"    -> n + 1
      [] x = "discrete" -> IF n < Size \div 2 THEN 1 ELSE 0
      [] OTHER          -> 0

-----------------------------------------------------------------------------
(* htons and htonl, on a machine that stores the low byte first. *)
Bytes16(n) == <<(n \div 256) % 256, n % 256>>
Bytes32(n) == Bytes16(n \div 65536) \o Bytes16(n)

(* ntohs and ntohl *)
Number16(bytes) == 256 * bytes[1] + bytes[2]
Number32(bytes) == 65536 * Number16(bytes) + 256 * bytes[3] + bytes[4]

(* A response is the sequence of the writes that send it. *)
NoResponse == <<Bytes32(0)>>

(* Mutation: the number after the last is taken for a register. *)
OneRegisterMore(x, n) ==
    LET bytes == IF x \in Words THEN Bytes16(Value(x, n)) ELSE <<Value(x, n)>>
    IN  IF n <= Size THEN <<Bytes32(Len(bytes)), bytes>> ELSE NoResponse

OneRegister(x, n) ==
    LET bytes == IF x \in Words THEN Bytes16(Value(x, n)) ELSE <<Value(x, n)>>
    IN  IF n < Size THEN <<Bytes32(Len(bytes)), bytes>> ELSE NoResponse

WholeTable(x) ==
    IF x \in Words
    THEN <<Bytes32(2 * Size)>> \o [i \in 1 .. Size |-> Bytes16(Value(x, i - 1))]
    ELSE <<Bytes32(Size), [i \in 1 .. Size |-> Value(x, i - 1)]>>

(* Mutation: the sizes of the tables are not counted. *)
GetSizeBare == 2 * Size + 2 * (2 * Size)

GetSize == 2 * (Size + 4) + 2 * (2 * Size + 4)

Everything ==
    <<Bytes32(GetSize)>>
      \o WholeTable("coil") \o WholeTable("discrete")
      \o WholeTable("input") \o WholeTable("holding")

(* Mutation: nothing is sent for a register that does not exist. *)
ResponseSilent(cmd, arg) ==
    CASE cmd \in 1 .. 4   -> IF arg < Size THEN OneRegister(TableOf(cmd), arg) ELSE <<>>
      [] cmd \in 5 .. 8   -> WholeTable(TableOf(cmd))
      [] cmd = READ_ALL   -> Everything
      [] OTHER            -> <<>>

(* An unknown command has no response at all. *)
Response(cmd, arg) ==
    CASE cmd \in 1 .. 4   -> OneRegister(TableOf(cmd), arg)
      [] cmd \in 5 .. 8   -> WholeTable(TableOf(cmd))
      [] cmd = READ_ALL   -> Everything
      [] OTHER            -> <<>>

-----------------------------------------------------------------------------
(* What the client makes of a response of the given size, of which it got  *)
(* the given bytes; the buffer was zeroed.                                 *)
Buffer(size, got) == [i \in 1 .. size |-> IF i <= Len(got) THEN got[i] ELSE 0]

Pairs(bytes) == [i \in 1 .. Len(bytes) \div 2 |-> Number16(SubSeq(bytes, 2 * i - 1, 2 * i))]

(* decodeResponse: the values shown, none of them for "no values". *)
Decode(x, all, size, got) ==
    LET bytes  == Buffer(size, got)
        values == IF x \in Words THEN Pairs(bytes) ELSE bytes
    IN  IF all \/ values = <<>> THEN values ELSE <<Head(values)>>
=============================================================================
