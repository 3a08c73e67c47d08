------------------------------- MODULE Client -------------------------------
(***************************************************************************)
(* mbclient and the TcpConnection it talks to.  The main thread obeys the  *)
(* user's commands; "start" makes a second thread that sends READ_ALL over *)
(* and over, until "stop".  Both threads use the one global socket, with   *)
(* no lock.  The two directions of the connection are sequences of bytes.  *)
(***************************************************************************)
EXTENDS Wire

CONSTANTS
    Named,          \* bound: the tables the user may name
    Numbers,        \* the numbers the user may type
    MaxCommands,    \* bound: the commands typed, not counting the last
    MaxStray,       \* bound: what the loop requests and the server answers
                    \* after calls have overlapped
    Window          \* the bytes one direction of the connection can hold

ASSUME ClientAssumption ==
    /\ Named \subseteq Tables /\ Numbers \subseteq Int /\ MaxCommands \in Nat
    /\ MaxStray \in Nat /\ Window \in Nat \ {0}

Threads == {"main", "loop"}
Other(t) == IF t = "main" THEN "loop" ELSE "main"

VARIABLES
    link,       \* "closed", "up", "lost" (the server's end is gone) or
                \* "closing" (closed while the loop sleeps in a read)
    up, down,   \* the bytes under way to the server, and from it
    outbox,     \* the writes of the response that the server is sending
    at,         \* where each thread is
    request,    \* what each thread asks: command, table, number
    need,       \* the bytes that the present read is to return
    got,        \* those it has
    shown,      \* the response each thread printed last, whether all of it
                \* came and (auxiliary) whether calls had overlapped by then
    running, joinable,  \* the globals running and loopThread.joinable()
    commands,   \* the commands typed so far
    mixed,      \* auxiliary: two calls have overlapped on this connection
    stray,      \* auxiliary: the loop's requests and the answers since then
    fault       \* "none", or why the process was terminated

streams == <<up, down, outbox>>
calls   == <<request, need, got, shown>>
overlap == <<mixed, stray>>
globals == <<running, joinable>>
vars    == <<link, streams, at, calls, globals, commands, overlap, fault>>

NoRequest == [cmd |-> 0, table |-> "coil", number |-> 0]
Nothing   == [size |-> -1, got |-> <<>>, whole |-> FALSE, mixed |-> FALSE]

Goto(t, from, to) == at[t] = from /\ at' = [at EXCEPT ![t] = to]
InCall(t)  == at[t] \in {"arg", "size", "data"}
Reading(t) == at[t] \in {"size", "data"}

-----------------------------------------------------------------------------
(* TcpConnection::run__: a command and its argument are read, and answered *)
(* write by write.                                                         *)
Serve ==
    /\ link \in {"up", "closing"}
    /\ outbox = <<>> /\ Len(up) >= 3
    /\ mixed => stray < MaxStray
    /\ stray' = IF mixed THEN stray + 1 ELSE stray
    /\ outbox' = Response(up[1], Number16(SubSeq(up, 2, 3)))
    /\ up' = SubSeq(up, 4, Len(up))
    /\ UNCHANGED <<link, down, at, calls, globals, commands, mixed, fault>>

(* The pieces in which a write may arrive.  Bound: it arrives whole after  *)
(* calls have overlapped, when any thread may get any piece.               *)
Pieces(write) == IF mixed THEN {Len(write)} ELSE 1 .. Len(write)

Deliver ==
    LET write == Head(outbox)
    IN  /\ link \in {"up", "closing"}
        /\ outbox # <<>>
        /\ \E k \in Pieces(write) :
             /\ Len(down) + k <= Window
             /\ down' = down \o SubSeq(write, 1, k)
             /\ outbox' = (IF k = Len(write) THEN <<>> ELSE <<SubSeq(write, k + 1, Len(write))>>)
                             \o Tail(outbox)
        /\ UNCHANGED <<link, up, at, calls, globals, commands, overlap, fault>>

(* The server's end goes; a reset discards what the client has not read.   *)
ServerGone ==
    /\ \/ link = "up" /\ link' = "lost" /\ down' \in {down, <<>>}
       \/ link = "closing" /\ link' = "closed" /\ down' = <<>>
    /\ up' = <<>> /\ outbox' = <<>>
    /\ UNCHANGED <<at, calls, globals, commands, overlap, fault>>

-----------------------------------------------------------------------------
(* boost::asio::write, with the overload that throws, and no one catches.  *)
(* What is written after the server has gone may be lost without an error. *)
Send(bytes) ==
    \/ /\ link = "up" /\ Len(up) + Len(bytes) <= Window
       /\ up' = up \o bytes
       /\ UNCHANGED fault
    \/ link = "lost" /\ UNCHANGED <<up, fault>>
    \/ link # "up" /\ fault' = "uncaught exception" /\ UNCHANGED up

SendCmd(t) ==
    /\ Goto(t, "cmd", "arg")
    /\ Send(<<request[t].cmd>>)
    /\ mixed' = (mixed \/ InCall(Other(t)))
    /\ UNCHANGED <<link, down, outbox, calls, globals, commands, stray>>

(* Mutation: the read of the size keeps the length of the last read. *)
SendArgStale(t) ==
    /\ Goto(t, "arg", "size")
    /\ Send(Bytes16(request[t].number))
    /\ got' = [got EXCEPT ![t] = <<>>]
    /\ UNCHANGED <<link, down, outbox, need, request, shown, globals, commands, overlap>>

SendArg(t) ==
    /\ Goto(t, "arg", "size")
    /\ Send(Bytes16(request[t].number))
    /\ need' = [need EXCEPT ![t] = 4]
    /\ got' = [got EXCEPT ![t] = <<>>]
    /\ UNCHANGED <<link, down, outbox, request, shown, globals, commands, overlap>>

(* The call is over: the values are printed. *)
Finish(t, size, bytes, whole) ==
    /\ shown' = [shown EXCEPT ![t] = [size |-> size, got |-> bytes, whole |-> whole,
                                            mixed |-> mixed]]
    /\ at' = [at EXCEPT ![t] = IF t = "main" THEN "prompt" ELSE "check"]

(* readResponse: one read_some of the read in progress.  A read that has   *)
(* its socket closed under it still returns what arrives.                  *)
ReadSome(t) ==
    LET k     == IF Len(down) < need[t] - Len(got[t]) THEN Len(down) ELSE need[t] - Len(got[t])
        bytes == got[t] \o SubSeq(down, 1, k)
        size  == Number32(bytes)
    IN  /\ Reading(t) /\ down # <<>>
        /\ link # "closing" \/ t = "loop"
        /\ IF link = "closing"
           THEN link' = "closed" /\ up' = <<>> /\ down' = <<>> /\ outbox' = <<>>
           ELSE down' = SubSeq(down, k + 1, Len(down)) /\ UNCHANGED <<link, up, outbox>>
        /\ IF Len(bytes) < need[t]
           THEN got' = [got EXCEPT ![t] = bytes] /\ UNCHANGED <<at, need, shown>>
           ELSE /\ got' = [got EXCEPT ![t] = <<>>]
                /\ IF at[t] = "data"
                   THEN Finish(t, need[t], bytes, TRUE) /\ UNCHANGED need
                   ELSE IF size = 0
                   THEN Finish(t, 0, <<>>, TRUE) /\ UNCHANGED need
                   ELSE /\ need' = [need EXCEPT ![t] = size]
                        /\ at' = [at EXCEPT ![t] = "data"]
                        /\ UNCHANGED shown
        /\ UNCHANGED <<request, globals, commands, overlap, fault>>

(* Mutation: a failed read is tried again. *)
ReadFailsAgain(t) ==
    /\ Reading(t)
    /\ link = "closed" \/ (link = "lost" /\ down = <<>>)
    /\ UNCHANGED vars

(* An error in the read of the size leaves the response empty; one in the  *)
(* read of the payload is not looked at, and the response has its size.    *)
ReadFails(t) ==
    /\ Reading(t)
    /\ link = "closed" \/ (link = "lost" /\ down = <<>>)
    /\ IF at[t] = "size" THEN Finish(t, 0, <<>>, FALSE) ELSE Finish(t, need[t], got[t], FALSE)
    /\ got' = [got EXCEPT ![t] = <<>>]
    /\ UNCHANGED <<link, streams, request, need, globals, commands, overlap, fault>>

CallStep(t) == SendCmd(t) \/ SendArg(t) \/ ReadSome(t) \/ ReadFails(t)

-----------------------------------------------------------------------------
(* loopFunc *)
LoopBegin ==
    /\ Goto("loop", "begin", "check")
    /\ running' = TRUE
    /\ UNCHANGED <<link, streams, calls, joinable, commands, overlap, fault>>

LoopCheck ==
    /\ Goto("loop", "check", IF running THEN "cmd" ELSE "done")
    /\ request' = [request EXCEPT !["loop"] = [NoRequest EXCEPT !.cmd = READ_ALL]]
    /\ mixed /\ running => stray < MaxStray
    /\ stray' = IF mixed /\ running THEN stray + 1 ELSE stray
    /\ UNCHANGED <<link, streams, need, got, shown, globals, commands, mixed, fault>>

LoopStep == LoopBegin \/ LoopCheck \/ CallStep("loop")

-----------------------------------------------------------------------------
Typed ==
    /\ at["main"] = "prompt" /\ commands < MaxCommands
    /\ commands' = commands + 1

(* The socket is opened anew; the request that the loop may be sending is  *)
(* torn between two connections.                                           *)
Connect ==
    /\ Typed
    /\ ~Reading("loop")
    /\ link' \in {"up", "closed"}
    /\ up' = <<>> /\ down' = <<>> /\ outbox' = <<>>
    /\ mixed' = InCall("loop") /\ stray' = 0
    /\ UNCHANGED <<at, calls, globals, fault>>

(* A name that does not resolve: resolve throws, and no one catches. *)
ConnectUnresolved ==
    /\ Typed
    /\ fault' = "uncaught exception"
    /\ UNCHANGED <<link, streams, at, calls, globals, overlap>>

(* "connect" without both its words reads past the end of args: the memory *)
(* there may fault, name nothing, or name a service no one offers.         *)
ConnectTooShort ==
    /\ Typed
    /\ \/ /\ fault' \in {"uncaught exception", "invalid memory"}
          /\ UNCHANGED <<link, streams, mixed, stray>>
       \/ /\ ~Reading("loop")
          /\ link' = "closed" /\ up' = <<>> /\ down' = <<>> /\ outbox' = <<>>
          /\ mixed' = InCall("loop") /\ stray' = 0
          /\ UNCHANGED fault
    /\ UNCHANGED <<at, calls, globals>>

(* A read that sleeps on the socket is not woken by its being closed. *)
Disconnect ==
    /\ Typed
    /\ \/ /\ link # "closing" /\ link' = "closed"
          /\ up' = <<>> /\ down' = <<>> /\ outbox' = <<>>
       \/ /\ link = "up" /\ Reading("loop") /\ down = <<>>
          /\ link' = "closing" /\ UNCHANGED streams
    /\ UNCHANGED <<at, calls, globals, overlap, fault>>

Ask(cmd, x, n) ==
    /\ Goto("main", "prompt", "cmd")
    /\ request' = [request EXCEPT !["main"] = [cmd |-> cmd, table |-> x, number |-> n]]
    /\ shown' = [shown EXCEPT !["main"] = Nothing]
    /\ UNCHANGED <<link, streams, need, got, globals, overlap, fault>>

(* "read <table> <number>" and "read <table> all" *)
Read ==
    /\ Typed
    /\ \E x \in Named :
         \/ \E n \in Numbers : Ask(Code(x, FALSE), x, n)
         \/ Ask(Code(x, TRUE), x, 0)

(* A read of two words, "read all" among them, is told "too few args", a   *)
(* table that there is not "invalid argument", any other word "Invalid     *)
(* command".                                                               *)
Refuse ==
    /\ Typed
    /\ UNCHANGED <<link, streams, at, calls, globals, overlap, fault>>

(* std::stoi throws at a word that is not the number of an int, and no one *)
(* catches, whether the table exists or not.                               *)
ReadNoNumber ==
    /\ Typed
    /\ fault' = "uncaught exception"
    /\ UNCHANGED <<link, streams, at, calls, globals, overlap>>

(* The assignment to loopThread terminates the process if a thread of an   *)
(* earlier start has not been joined.                                      *)
Start ==
    /\ Typed
    /\ IF joinable
       THEN fault' = "joinable thread" /\ UNCHANGED <<at, joinable>>
       ELSE /\ at' = [at EXCEPT !["loop"] = "begin"]
            /\ joinable' = TRUE
            /\ UNCHANGED fault
    /\ UNCHANGED <<link, streams, calls, running, overlap>>

Stop ==
    /\ Typed
    /\ running' = FALSE
    /\ at' = [at EXCEPT !["main"] = IF joinable THEN "join" ELSE "prompt"]
    /\ UNCHANGED <<link, streams, calls, joinable, overlap, fault>>

Join ==
    /\ at["loop"] = "done"
    /\ Goto("main", "join", "prompt")
    /\ joinable' = FALSE
    /\ UNCHANGED <<link, streams, calls, running, commands, overlap, fault>>

(* An empty command: main returns, and loopThread is destroyed. *)
Quit ==
    /\ Goto("main", "prompt", "exit")
    /\ fault' = IF joinable THEN "joinable thread" ELSE "none"
    /\ UNCHANGED <<link, streams, calls, globals, commands, overlap>>

UserStep ==
    \/ Connect \/ ConnectUnresolved \/ ConnectTooShort \/ Disconnect
    \/ Read \/ ReadNoNumber \/ Refuse \/ Start \/ Stop \/ Quit
MainStep == CallStep("main") \/ Join

-----------------------------------------------------------------------------
Init ==
    /\ link = "closed" /\ up = <<>> /\ down = <<>> /\ outbox = <<>>
    /\ at = [t \in Threads |-> IF t = "main" THEN "prompt" ELSE "none"]
    /\ request = [t \in Threads |-> NoRequest]
    /\ need = [t \in Threads |-> 0]
    /\ got = [t \in Threads |-> <<>>]
    /\ shown = [t \in Threads |-> Nothing]
    /\ running = FALSE /\ joinable = FALSE
    /\ commands = 0 /\ mixed = FALSE /\ stray = 0 /\ fault = "none"

Ended == fault # "none" \/ at["main"] = "exit"

Next ==
    \/ /\ ~Ended
       /\ UserStep \/ MainStep \/ LoopStep \/ Serve \/ Deliver \/ ServerGone
    \/ Ended /\ UNCHANGED vars

Spec == Init /\ [][Next]_vars

(* Every thread and the server go on; the user need not, and the server    *)
(* need not go.                                                            *)
FairSpec ==
    /\ Spec
    /\ WF_vars(~Ended /\ MainStep) /\ WF_vars(~Ended /\ LoopStep)
    /\ WF_vars(~Ended /\ Serve) /\ WF_vars(~Ended /\ Deliver)
=============================================================================
