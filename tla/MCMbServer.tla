----------------------------- MODULE MCMbServer -----------------------------
EXTENDS ServerProperties, TLC

OneEach   == (Modbus :> 1 @@ Tcp :> 1)
TwoModbus == (Modbus :> 2 @@ Tcp :> 0)

JustMain        == {Main}
ClientAndModbus == Conns \cup {Modbus}

(* No number is special.  Where NewNumbers chooses one of several that     *)
(* nobody keeps, the others would lead to the same states but for names.   *)
AnyNumbers == Permutations(Numbers)

(* Both servers listen, the deleter waits for work, and main waits for the *)
(* first server: where the process is when nothing has gone wrong so far.  *)
Serving ==
    /\ life = [c \in Conns |-> "absent"]
    /\ bRunning = [w \in Workers |-> w \notin Conns]
    /\ joinable = Servers \cup {Deleter}
    /\ pc = [w \in Workers |-> CASE w \in Conns -> "unborn"
                                 [] w \in Servers -> "accepting"
                                 [] w = Deleter -> "take"]
    /\ fault = "none"
    /\ fd = CHOOSE f \in [Sockets -> Numbers \cup {NoConn}] :
                /\ \A c \in Conns : f[c] = NoConn
                /\ f[Modbus] # f[Tcp] /\ NoConn \notin {f[Modbus], f[Tcp]}
    /\ file = [n \in Numbers |-> IF n = fd[Modbus] THEN Modbus ELSE
                                 IF n = fd[Tcp] THEN Tcp ELSE NoConn]
    /\ waitsOn = [w \in Sockets |-> w]
    /\ DeleterInit /\ BaseInit /\ ConnectionInit /\ AcceptorInit
    /\ mainPc = "wait" /\ mainOn = Modbus
    /\ hPc = [t \in Threads |-> "idle"]
    /\ hOn = [t \in Threads |-> Modbus]
    /\ hCur = [t \in Threads |-> NoConn]
    /\ signals = 0

ServingSpec == Serving /\ [][Next]_vars

ServingFairSpec == ServingSpec /\ Fairness
=============================================================================
