-------------------------- MODULE ClientProperties --------------------------
(***************************************************************************)
(* What mbclient keeps, and what it does not keep of what its documents    *)
(* say (the last section).                                                 *)
(***************************************************************************)
EXTENDS Client

(* Every variable has its type. *)
ClientTypeOK ==
    /\ link \in {"closed", "up", "lost", "closing"}
    /\ up \in Seq(0 .. 255) /\ down \in Seq(0 .. 255) /\ outbox \in Seq(Seq(0 .. 255))
    /\ at["main"] \in {"prompt", "cmd", "arg", "size", "data", "join", "exit"}
    /\ at["loop"] \in {"none", "begin", "check", "cmd", "arg", "size", "data", "done"}
    /\ request \in [Threads -> [cmd : 0 .. READ_ALL, table : Tables, number : Int]]
    /\ need \in [Threads -> Nat] /\ got \in [Threads -> Seq(0 .. 255)]
    /\ \A t \in Threads : at[t] \in {"size", "data"} => Len(got[t]) < need[t]
    /\ running \in BOOLEAN /\ joinable \in BOOLEAN /\ mixed \in BOOLEAN
    /\ stray \in 0 .. MaxStray
    /\ commands \in 0 .. MaxCommands
    /\ fault \in {"none", "uncaught exception", "joinable thread", "invalid memory"}

(* As long as calls do not overlap, the two ends agree where a message     *)
(* begins: between calls no byte is left over in either direction, the     *)
(* nested sizes of READ_ALL included.                                      *)
InStep ==
    link = "up" /\ ~mixed /\ ~InCall("main") /\ ~InCall("loop") =>
        up = <<>> /\ down = <<>> /\ outbox = <<>>

Registers(r) ==
    IF r.cmd > 4 THEN [i \in 1 .. Size |-> Value(r.table, i - 1)]
    ELSE IF r.number \in 0 .. Size - 1 THEN <<Value(r.table, r.number)>> ELSE <<>>

(* The numbers that the two bytes of an argument hold, with a sign or not. *)
IsSent(n) == n >= -32768 /\ n < 65536

Asked(r, s) == Decode(r.table, r.cmd > 4, s.size, s.got) = Registers(r)

(* A read that received a whole response shows the registers asked for,    *)
(* and no value for a number that no register has.                         *)
ShownIsAsked ==
    shown["main"].whole /\ ~shown["main"].mixed /\ IsSent(request["main"].number)
        => Asked(request["main"], shown["main"])

(* A command that reads comes to its end, whatever becomes of the server,  *)
(* unless it shares the connection with the loop.                          *)
CallsEnd == InCall("main") ~> at["main"] = "prompt" \/ fault # "none" \/ mixed

(* A "stop" that comes after the loop has set its flag ends the loop.      *)
StopStops ==
    at["main"] = "join" /\ at["loop"] # "begin" /\ ~running
        ~> at["main"] # "join" \/ fault # "none" \/ mixed

-----------------------------------------------------------------------------
(* readme.txt:18, "stop - stops the reading": the stop command returns.    *)
StopReturns == at["main"] = "join" ~> at["main"] # "join" \/ fault # "none" \/ mixed

(* readme.txt:17, "Reports number of bytes read": the size that the loop   *)
(* prints is the number of bytes it has read.                              *)
ReportIsBytesRead ==
    shown["loop"] # Nothing => shown["loop"].size = Len(shown["loop"].got)

(* readme.txt:7, "read discrete n": also while the loop runs, a read that  *)
(* receives a response shows the registers that were asked for.            *)
ReadWhileLooping == shown["main"].whole => Asked(request["main"], shown["main"])

(* mbclient.cpp:316, "only 0...9 are supported": a number that no register *)
(* has shows no value.                                                     *)
OnlyRegistersShown ==
    shown["main"].whole /\ ~shown["main"].mixed => Asked(request["main"], shown["main"])
=============================================================================
