--------------------------- MODULE RegisterProofs ---------------------------
(***************************************************************************)
(* Proofs about the register bank, for any number of threads, registers    *)
(* and writes.                                                             *)
(***************************************************************************)
EXTENDS RegisterProperties, FiniteSetTheorems, SequenceTheorems, TLAPS

(* A thread of either kind is at a place of its own function. *)
PlacesInv ==
    /\ \A t \in ModbusThreads : at[t] \in {"idle", "receive", "write", "reply"}
    /\ \A t \in TcpThreads : at[t] \in {"idle", "lock", "copy", "respond"}

SetupInv ==
    /\ setup \in {"mapping", "listen", "serving"} => created
    /\ fault # "none" => setup \in {"context", "failed"}

(* The write under way is the last one that was numbered. *)
RequestInv ==
    /\ OwnSocket
    /\ \A t \in ModbusThreads : at[t] = "write" =>
         /\ Len(writes) > 0
         /\ number[t] = Len(writes)
         /\ table[t] = writes[Len(writes)]

Settled(x) == \A t \in ModbusThreads : at[t] = "write" => table[t] # x

(* A table nobody writes is as one write left it, and as late as the last. *)
TableInv(x) ==
    /\ \A i \in Cells : bank[x][i] <= Len(writes)
    /\ Settled(x) => \A i \in Cells : bank[x][i] = bank[x][Size]
    /\ \A k \in 1 .. Len(writes) : writes[k] = x =>
         (~Settled(x) /\ k = Len(writes)) \/ \A i \in Cells : k <= bank[x][i]

Plans == {<<x>> : x \in Tables} \cup
           {ReadAllOrder, <<"input", "discrete", "holding">>, <<"discrete", "holding">>}

(* What has been copied of a table is what it holds, and nothing has been  *)
(* copied of those that follow.                                            *)
CopyInv(t) ==
    at[t] \in {"lock", "copy"} =>
        /\ todo[t] \in Plans
        /\ \A j \in 2 .. Len(todo[t]) : copied[t][todo[t][j]] = <<>>
        /\ Head(todo[t]) = "coil" => copied[t]["holding"] = <<>>
        /\ at[t] = "lock" => copied[t][Head(todo[t])] = <<>>
        /\ Len(copied[t][Head(todo[t])]) < Size
        /\ Head(todo[t]) \in Writable =>
             \A i \in 1 .. Len(copied[t][Head(todo[t])]) :
                 copied[t][Head(todo[t])][i] = bank[Head(todo[t])][i]

(* The holding registers, copied or not yet, are as late as the coils that *)
(* have been copied.                                                       *)
SeenInv(t) ==
    copied[t]["coil"] # <<>> =>
        /\ copied[t]["coil"][1] <= Len(writes)
        /\ \A k \in 1 .. copied[t]["coil"][1] : writes[k] = "holding" =>
             k <= IF copied[t]["holding"] = <<>> THEN bank["holding"][1]
                                                  ELSE copied[t]["holding"][1]

TcpInv   == \A t \in TcpThreads : CopyInv(t) /\ SeenInv(t)
TableInvs == \A x \in Writable : TableInv(x)

RegInv ==
    /\ RegTypeOK
    /\ PlacesInv
    /\ SetupInv
    /\ RequestInv
    /\ TableInvs
    /\ TcpInv

-----------------------------------------------------------------------------
LEMMA OneHolder ==
    ASSUME RegTypeOK, NEW t \in Threads, NEW u \in Threads,
           InRequest(t) \/ at[t] = "copy", InRequest(u) \/ at[u] = "copy"
    PROVE  t = u
BY DEF RegTypeOK

LEMMA LockFree ==
    ASSUME RegTypeOK, ctxMutex = Nobody, NEW t \in Threads
    PROVE  ~InRequest(t) /\ at[t] # "copy"
BY RegistersAssumption DEF RegTypeOK, Threads

LEMMA FirstCells ==
    ASSUME RegTypeOK
    PROVE  /\ \A x \in Tables : bank[x][1] \in Nat
           /\ Len(writes) \in Nat
           /\ \A t \in TcpThreads, x \in Tables :
                /\ copied[t][x] \in Seq(Nat)
                /\ copied[t][x] # <<>> => copied[t][x][1] \in Nat
<1>1. 1 \in Cells
  BY RegistersAssumption DEF Cells
<1>2. \A x \in Tables : bank[x] \in [Cells -> Nat]
  BY DEF RegTypeOK
<1>3. Len(writes) \in Nat
  <2>1. writes \in Seq(Writable)
    BY DEF RegTypeOK
  <2> QED BY <2>1, LenProperties
<1>4. \A t \in TcpThreads : copied[t] \in [Tables -> Seq(Nat)]
  BY DEF RegTypeOK
<1>5. \A q \in Seq(Nat) : q # <<>> => q[1] \in Nat
  <2> SUFFICES ASSUME NEW q \in Seq(Nat), q # <<>> PROVE q[1] \in Nat
    OBVIOUS
  <2>1. Len(q) \in Nat \ {0}
    BY EmptySeq
  <2>2. 1 \in 1 .. Len(q)
    BY <2>1
  <2> QED BY <2>2, ElementOfSeq
<1> QED BY <1>1, <1>2, <1>3, <1>4, <1>5

LEMMA RegInitially == RegInit => RegInv
<1> SUFFICES ASSUME RegInit PROVE RegInv
  OBVIOUS
<1> USE RegistersAssumption DEF RegInit
<1>1. RegTypeOK
  <2>1. bank \in [Tables -> [Cells -> Nat]]
    OBVIOUS
  <2>2. todo \in [TcpThreads -> Seq(Tables)]
    OBVIOUS
  <2>3. NothingCopied \in [Tables -> Seq(Nat)]
    BY DEF NothingCopied
  <2>4. writes \in Seq(Writable)
    OBVIOUS
  <2>5. "coil" \in Writable
    BY DEF Writable
  <2> QED BY <2>1, <2>2, <2>3, <2>4, <2>5 DEF RegTypeOK, InRequest
<1>2. PlacesInv /\ SetupInv
  BY DEF PlacesInv, SetupInv, Threads
<1>3. RequestInv
  BY DEF RequestInv, OwnSocket, InRequest, Threads
<1>4. TableInvs
  BY DEF TableInvs, TableInv, Settled, Cells, Tables, Writable, Threads
<1>5. TcpInv
  BY DEF TcpInv, CopyInv, SeenInv, Threads, NothingCopied, Tables
<1> QED BY <1>1, <1>2, <1>3, <1>4, <1>5 DEF RegInv

(* What a reader has copied stays right as long as the tables it copies    *)
(* stay, and the holding registers only go forward.                        *)
LEMMA ReaderFrame ==
    ASSUME RegTypeOK, NEW t \in TcpThreads, CopyInv(t), SeenInv(t),
           at'[t] = at[t], todo'[t] = todo[t], copied'[t] = copied[t],
           at[t] = "copy" => \A x \in Writable : bank'[x] = bank[x],
           bank'["holding"][1] \in Nat, bank["holding"][1] <= bank'["holding"][1],
           Len(writes) \in Nat, Len(writes') \in Nat, Len(writes) <= Len(writes'),
           \A k \in 1 .. Len(writes) : writes'[k] = writes[k]
    PROVE  CopyInv(t)' /\ SeenInv(t)'
<1>1. CopyInv(t)'
  <2> SUFFICES ASSUME at[t] \in {"lock", "copy"} PROVE CopyInv(t)'
    BY DEF CopyInv
  <2>1. CASE at[t] = "copy"
    BY <2>1 DEF CopyInv
  <2>2. CASE at[t] = "lock"
    BY <2>2 DEF CopyInv
  <2> QED BY <2>1, <2>2
<1>2. SeenInv(t)'
  <2> SUFFICES ASSUME copied[t]["coil"] # <<>> PROVE SeenInv(t)'
    BY DEF SeenInv
  <2>1. copied[t]["coil"][1] \in Nat
    BY FirstCells DEF Tables
  <2>2. bank["holding"][1] \in Nat
    BY FirstCells DEF Tables
  <2> QED BY <2>1, <2>2 DEF SeenInv
<1> QED BY <1>1, <1>2

LEMMA ReadersFrame ==
    ASSUME RegInv, UNCHANGED <<at, tcpVars>>, UNCHANGED writes,
           \A x \in Writable : bank'[x] = bank[x]
    PROVE  TcpInv'
<1>1. bank["holding"][1] \in Nat /\ Len(writes) \in Nat
  BY FirstCells DEF RegInv, Tables
<1>2. bank'["holding"] = bank["holding"]
  BY DEF Writable
<1> QED BY <1>1, <1>2, ReaderFrame DEF RegInv, TcpInv, tcpVars

-----------------------------------------------------------------------------
LEMMA SetupKeeps ==
    ASSUME RegInv, fault = "none", SetupStep
    PROVE  RegInv'
<1> USE DEF RegInv
<1>1. /\ UNCHANGED <<lockVars, at, modbusVars, tcpVars, fault, writes>>
      /\ \A x \in Writable : bank'[x] = bank[x]
  BY DEF SetupStep, Create, Fill, Listen, RegTypeOK, Tables, Writable
<1>2. setup' \in {"context", "mapping", "listen", "serving", "failed"}
      /\ created' \in BOOLEAN /\ bank' \in [Tables -> [Cells -> Nat]]
  <2>1. CASE Fill
    <3>1. PICK x \in Tables, i \in Cells : bank' = [bank EXCEPT ![x][i] = 1]
      BY <2>1 DEF Fill
    <3>2. bank[x] \in [Cells -> Nat] /\ bank \in [Tables -> [Cells -> Nat]]
      BY DEF RegTypeOK
    <3>3. bank' \in [Tables -> [Cells -> Nat]]
      BY <3>1, <3>2
    <3> QED BY <2>1, <3>3 DEF Fill, RegTypeOK
  <2>2. CASE Create \/ Listen
    BY <2>2 DEF Create, Listen, RegTypeOK
  <2> QED BY <2>1, <2>2 DEF SetupStep
<1>3. RegTypeOK'
  BY <1>1, <1>2 DEF RegTypeOK, InRequest, lockVars, modbusVars, tcpVars
<1>4. PlacesInv'
  BY <1>1 DEF PlacesInv
<1>5. SetupInv'
  BY <1>1 DEF SetupInv, SetupStep, Create, Fill, Listen
<1>6. RequestInv'
  BY <1>1 DEF RequestInv, OwnSocket, InRequest, lockVars, modbusVars
<1>7. TableInvs'
  BY <1>1 DEF TableInvs, TableInv, Settled, modbusVars
<1>8. TcpInv'
  BY <1>1, ReadersFrame
<1> QED BY <1>3, <1>4, <1>5, <1>6, <1>7, <1>8

(* Steps of a Modbus thread that write nothing. *)
LEMMA ModbusQuietKeeps ==
    ASSUME RegInv, fault = "none", NEW t \in ModbusThreads,
           Acquire(t) \/ ReceiveFails(t) \/ Reply(t)
                \/ (Step(t, "receive", "reply") /\ UNCHANGED <<bankVars, lockVars, modbusVars, tcpVars, fault>>)
    PROVE  RegInv'
<1> USE DEF RegInv
<1>a. t \in Threads /\ at \in [Threads -> {"idle", "receive", "write", "reply", "lock", "copy", "respond"}]
  BY DEF Threads, RegTypeOK
<1>b. \A u \in TcpThreads : u # t /\ u \in Threads
  BY RegistersAssumption DEF Threads
<1>1. /\ UNCHANGED <<bankVars, modbusVars, tcpVars, fault>>
      /\ at[t] # "write" /\ at'[t] \in {"idle", "receive", "reply"}
      /\ \A u \in Threads \ {t} : at'[u] = at[u]
      /\ at' \in [Threads -> {"idle", "receive", "write", "reply", "lock", "copy", "respond"}]
  BY <1>a DEF Acquire, ReceiveFails, Reply, Step
<1>2. \/ ctxMutex' = t /\ ctxSocket' = t /\ (ctxMutex = Nobody \/ ctxMutex = t) /\ InRequest(t)'
      \/ ctxMutex' = Nobody /\ at'[t] = "idle" /\ ctxMutex = t /\ UNCHANGED ctxSocket
  BY <1>a DEF Acquire, ReceiveFails, Reply, Step, Lock, Unlock, InRequest, RegTypeOK,
     RequestInv, OwnSocket, lockVars
<1>3. \A u \in Threads \ {t} : ~InRequest(u) /\ at[u] # "copy"
  <2>1. CASE ctxMutex = Nobody
    BY <2>1, LockFree
  <2>2. CASE ctxMutex = t
    BY <2>2, RegistersAssumption DEF RegTypeOK, Threads
  <2> QED BY <1>2, <2>1, <2>2
<1>4. RegTypeOK'
  <2>1. ctxMutex' \in Threads \cup {Nobody} /\ ctxSocket' \in ModbusThreads \cup {Nobody}
    BY <1>2, <1>a DEF RegTypeOK
  <2>2. \A u \in Threads : InRequest(u)' \/ at'[u] = "copy" => ctxMutex' = u
    BY <1>1, <1>2, <1>3 DEF InRequest
  <2> QED BY <1>1, <2>1, <2>2 DEF RegTypeOK, bankVars, modbusVars, tcpVars
<1>5. PlacesInv'
  BY <1>1, <1>a, <1>b DEF PlacesInv, Threads
<1>6. SetupInv'
  BY <1>1 DEF SetupInv, bankVars
<1>7. \A u \in ModbusThreads : at'[u] # "write"
  BY <1>1, <1>3 DEF InRequest, Threads
<1>8. RequestInv'
  <2>1. OwnSocket'
    BY <1>1, <1>2, <1>3 DEF OwnSocket, InRequest, Threads
  <2> QED BY <2>1, <1>7 DEF RequestInv
<1>9. TableInvs'
  <2>1. \A u \in ModbusThreads : at[u] # "write"
    BY <1>1, <1>3 DEF InRequest, Threads
  <2> QED BY <1>1, <1>7, <2>1 DEF TableInvs, TableInv, Settled, bankVars
<1>10. TcpInv'
  <2>1. bank["holding"][1] \in Nat /\ Len(writes) \in Nat
    BY RegistersAssumption DEF RegTypeOK, Tables, Cells
  <2>2. \A u \in TcpThreads : at'[u] = at[u]
    BY <1>1, <1>b
  <2> QED BY <1>1, <2>1, <2>2, ReaderFrame DEF TcpInv, tcpVars, bankVars
<1> QED BY <1>4, <1>5, <1>6, <1>8, <1>9, <1>10

(* modbus_receive returns a request that writes: it gets the next number. *)
ReceiveWrite(t) ==
    /\ Step(t, "receive", "write")
    /\ \E x \in Writable :
         /\ table' = [table EXCEPT ![t] = x]
         /\ writes' = Append(writes, x)
         /\ number' = [number EXCEPT ![t] = Len(writes) + 1]
    /\ UNCHANGED <<setup, created, bank, lockVars, tcpVars, fault>>

LEMMA ReceiveKinds ==
    ASSUME NEW t, Receive(t)
    PROVE  \/ ReceiveWrite(t)
           \/ /\ Step(t, "receive", "reply")
              /\ UNCHANGED <<bankVars, lockVars, modbusVars, tcpVars, fault>>
BY DEF Receive, ReceiveWrite, bankVars

LEMMA ReceiveWriteKeeps ==
    ASSUME RegInv, NEW t \in ModbusThreads, ReceiveWrite(t)
    PROVE  RegInv'
<1> USE DEF RegInv
<1>1. t \in Threads /\ at \in [Threads -> {"idle", "receive", "write", "reply", "lock", "copy", "respond"}]
  BY DEF Threads, RegTypeOK
<1>2. PICK x \in Writable :
        /\ table' = [table EXCEPT ![t] = x]
        /\ writes' = Append(writes, x)
        /\ number' = [number EXCEPT ![t] = Len(writes) + 1]
  BY DEF ReceiveWrite
<1>3. /\ UNCHANGED <<setup, created, bank, lockVars, tcpVars, fault>>
      /\ at[t] = "receive" /\ at' = [at EXCEPT ![t] = "write"]
  BY DEF ReceiveWrite, Step
<1>4. /\ writes' \in Seq(Writable) /\ Len(writes') = Len(writes) + 1 /\ Len(writes) \in Nat
      /\ \A k \in 1 .. Len(writes) : writes'[k] = writes[k]
      /\ writes'[Len(writes')] = x
  <2>1. writes \in Seq(Writable)
    BY DEF RegTypeOK
  <2> QED BY <1>2, <2>1, AppendProperties, LenProperties
<1>5. \A u \in Threads \ {t} : ~InRequest(u) /\ at[u] # "copy"
  BY <1>1, <1>3, OneHolder DEF InRequest
<1>6. RegTypeOK'
  <2>1. table' \in [ModbusThreads -> Writable] /\ number' \in [ModbusThreads -> Nat]
    <3>1. table \in [ModbusThreads -> Writable] /\ number \in [ModbusThreads -> Nat]
      BY DEF RegTypeOK
    <3>2. PICK n \in Nat : n = Len(writes) + 1
      BY <1>4
    <3>3. number' = [number EXCEPT ![t] = n]
      BY <1>2, <3>2
    <3> QED BY <1>2, <3>1, <3>3
  <2>2. at' \in [Threads -> {"idle", "receive", "write", "reply", "lock", "copy", "respond"}]
    BY <1>1, <1>3
  <2>3. \A u \in Threads : InRequest(u)' \/ at'[u] = "copy" => ctxMutex' = u
    BY <1>1, <1>3 DEF RegTypeOK, InRequest, lockVars
  <2> QED BY <1>3, <1>4, <2>1, <2>2, <2>3 DEF RegTypeOK, lockVars, tcpVars
<1>7. PlacesInv'
  BY <1>1, <1>3, RegistersAssumption DEF PlacesInv, Threads
<1>8. SetupInv'
  BY <1>3 DEF SetupInv
<1>9. \A u \in ModbusThreads : at'[u] = "write" <=> u = t
  BY <1>1, <1>3, <1>5 DEF InRequest, Threads
<1>10. RequestInv'
  <2>1. OwnSocket'
    BY <1>1, <1>3, <1>5 DEF OwnSocket, InRequest, Threads, RequestInv, lockVars
  <2>2. number'[t] = Len(writes') /\ table'[t] = writes'[Len(writes')] /\ Len(writes') > 0
    <3>1. table \in [ModbusThreads -> Writable] /\ number \in [ModbusThreads -> Nat]
      BY DEF RegTypeOK
    <3> QED BY <1>2, <1>4, <3>1
  <2> QED BY <2>1, <2>2, <1>9 DEF RequestInv
<1>11. TableInvs'
  <2> SUFFICES ASSUME NEW y \in Writable PROVE TableInv(y)'
    BY DEF TableInvs
  <2>1. Settled(y)
    BY <1>1, <1>3, <1>5 DEF Settled, InRequest, Threads
  <2>2. Settled(y)' <=> y # x
    <3>1. table'[t] = x
      BY <1>2 DEF RegTypeOK
    <3> QED BY <3>1, <1>9 DEF Settled
  <2>3. TableInv(y) /\ bank' = bank
    BY <1>3 DEF TableInvs
  <2>4. \A i \in Cells : bank[y][i] \in Nat
    BY DEF RegTypeOK, Tables, Writable
  <2>5. \A k \in 1 .. Len(writes') : k \in 1 .. Len(writes) \/ (k = Len(writes') /\ writes'[k] = x)
    BY <1>4
  <2> QED BY <2>1, <2>2, <2>3, <2>4, <2>5, <1>4 DEF TableInv
<1>12. TcpInv'
  <2>1. \A u \in TcpThreads : at'[u] = at[u] /\ u \in Threads
    BY <1>1, <1>3, RegistersAssumption DEF Threads
  <2> QED BY <1>3, <1>4, <2>1, FirstCells, ReaderFrame DEF TcpInv, tcpVars, Tables
<1> QED BY <1>6, <1>7, <1>8, <1>10, <1>11, <1>12

LEMMA WriteKeeps ==
    ASSUME RegInv, NEW t \in ModbusThreads, Write(t)
    PROVE  RegInv'
<1> USE DEF RegInv
<1>1. t \in Threads /\ at \in [Threads -> {"idle", "receive", "write", "reply", "lock", "copy", "respond"}]
  BY DEF Threads, RegTypeOK
<1>2. PICK i \in Cells :
        /\ \A j \in 1 .. i - 1 : bank[table[t]][j] = number[t]
        /\ bank' = [bank EXCEPT ![table[t]][i] = number[t]]
        /\ at' = [at EXCEPT ![t] = IF i = Size THEN "reply" ELSE "write"]
  BY DEF Write
<1> PICK x : x = table[t]
  OBVIOUS
<1>3. at[t] = "write" /\ UNCHANGED <<setup, created, writes, lockVars, modbusVars, tcpVars, fault>>
  BY DEF Write
<1>4. /\ x \in Writable /\ x \in Tables /\ number[t] \in Nat
      /\ number[t] = Len(writes) /\ x = writes[Len(writes)] /\ Len(writes) > 0
  BY <1>3 DEF RegTypeOK, RequestInv, Writable, Tables
<1>5. \A u \in Threads \ {t} : ~InRequest(u) /\ at[u] # "copy"
  BY <1>1, <1>3, OneHolder DEF InRequest
<1>6. /\ bank \in [Tables -> [Cells -> Nat]]
      /\ bank' \in [Tables -> [Cells -> Nat]]
      /\ \A y \in Tables \ {x} : bank'[y] = bank[y]
      /\ \A j \in Cells : bank'[x][j] = IF j = i THEN number[t] ELSE bank[x][j]
  BY <1>2, <1>4 DEF RegTypeOK
<1>7. \A u \in Threads : at'[u] = IF u = t THEN (IF i = Size THEN "reply" ELSE "write") ELSE at[u]
  BY <1>1, <1>2
<1>8. RegTypeOK'
  <2>1. at' \in [Threads -> {"idle", "receive", "write", "reply", "lock", "copy", "respond"}]
    BY <1>1, <1>2
  <2>2. \A u \in Threads : InRequest(u)' \/ at'[u] = "copy" => ctxMutex' = u
    BY <1>3, <1>5, <1>7 DEF RegTypeOK, InRequest, lockVars
  <2> QED BY <1>3, <1>6, <2>1, <2>2 DEF RegTypeOK, lockVars, tcpVars, modbusVars
<1>9. PlacesInv'
  BY <1>1, <1>7, RegistersAssumption DEF PlacesInv, Threads
<1>10. SetupInv'
  BY <1>3 DEF SetupInv
<1>11. RequestInv'
  BY <1>3, <1>4, <1>5, <1>7 DEF RequestInv, OwnSocket, InRequest, Threads, lockVars, modbusVars
<1>12. TableInvs'
  <2> SUFFICES ASSUME NEW y \in Writable PROVE TableInv(y)'
    BY DEF TableInvs
  <2>1. y \in Tables /\ TableInv(y) /\ Len(writes) \in Nat
    BY FirstCells DEF Tables, Writable, TableInvs
  <2>2. CASE y # x
    <3>1. Settled(y) /\ Settled(y)'
      BY <2>2, <1>3, <1>5, <1>7 DEF Settled, InRequest, Threads, modbusVars
    <3> QED BY <2>1, <2>2, <3>1, <1>3, <1>6 DEF TableInv
  <2>3. CASE y = x
    <3>1. \A j \in Cells : bank[x][j] \in Nat /\ bank[x][j] <= Len(writes)
      BY <2>1, <2>3, <1>6 DEF TableInv
    <3>2. \A j \in Cells : bank'[x][j] <= Len(writes) /\ bank[x][j] <= bank'[x][j]
      <4> SUFFICES ASSUME NEW j \in Cells
                   PROVE  bank'[x][j] <= Len(writes) /\ bank[x][j] <= bank'[x][j]
        OBVIOUS
      <4>1. bank'[x][j] = Len(writes) \/ bank'[x][j] = bank[x][j]
        BY <1>4, <1>6
      <4> QED BY <4>1, <3>1, <2>1
    <3>3. Settled(x)' <=> i = Size
      BY <1>1, <1>3, <1>5, <1>7 DEF Settled, InRequest, Threads, modbusVars
    <3>4. i = Size => \A j \in Cells : bank'[x][j] = Len(writes)
      BY <1>2, <1>4, <1>6, RegistersAssumption DEF Cells
    <3>5. Size \in Cells
      BY RegistersAssumption DEF Cells
    <3>6. ~Settled(x)
      BY <1>3 DEF Settled
    <3>7. ASSUME NEW k \in 1 .. Len(writes), writes[k] = x, k # Len(writes) \/ Settled(x)'
          PROVE  \A j \in Cells : k <= bank'[x][j]
      <4>1. CASE i = Size
        BY <3>4, <4>1, <2>1
      <4>2. CASE i # Size
        <5>1. \A j \in Cells : k <= bank[x][j]
          BY <3>3, <3>7, <4>2, <2>1, <2>3 DEF TableInv
        <5> QED BY <5>1, <3>1, <3>2, <1>6
      <4> QED BY <4>1, <4>2
    <3>8. writes' = writes
      BY <1>3
    <3>9. Settled(x)' => \A j \in Cells : bank'[x][j] = bank'[x][Size]
      BY <3>3, <3>4, <3>5
    <3>10. TableInv(x)'
      BY <3>2, <3>7, <3>8, <3>9 DEF TableInv
    <3> QED BY <2>3, <3>10
  <2> QED BY <2>2, <2>3
<1>13. TcpInv'
  <2>1. \A u \in TcpThreads : at'[u] = at[u] /\ at[u] # "copy"
    BY <1>1, <1>5, <1>7, RegistersAssumption DEF Threads
  <2>2. bank'["holding"][1] \in Nat /\ bank["holding"][1] <= bank'["holding"][1]
    <3>1. 1 \in Cells /\ "holding" \in Tables /\ "holding" \in Writable
      BY RegistersAssumption DEF Cells, Tables, Writable
    <3>2. bank["holding"][1] \in Nat /\ bank["holding"][1] <= Len(writes)
      BY <3>1, <1>6 DEF TableInvs, TableInv
    <3>3. CASE x = "holding"
      <4>1. bank'["holding"][1] \in {Len(writes), bank["holding"][1]} /\ Len(writes) \in Nat
        BY <3>1, <3>3, <1>4, <1>6
      <4> QED BY <3>2, <4>1
    <3>4. CASE x # "holding"
      BY <3>1, <3>2, <3>4, <1>6
    <3> QED BY <3>3, <3>4
  <2>3. Len(writes) \in Nat /\ writes' = writes /\ todo' = todo /\ copied' = copied
    BY <1>3, FirstCells DEF tcpVars
  <2> SUFFICES ASSUME NEW u \in TcpThreads PROVE CopyInv(u)' /\ SeenInv(u)'
    BY DEF TcpInv
  <2>4. CopyInv(u) /\ SeenInv(u)
    BY DEF TcpInv
  <2>5. Len(writes') = Len(writes) /\ \A k \in 1 .. Len(writes) : writes'[k] = writes[k]
    BY <2>3
  <2>6. Len(writes) <= Len(writes')
    BY <2>3, <2>5
  <2>7. at'[u] = at[u] /\ todo'[u] = todo[u] /\ copied'[u] = copied[u] /\ at[u] # "copy"
    BY <2>1, <2>3
  <2> QED BY <2>2, <2>3, <2>4, <2>5, <2>6, <2>7, ReaderFrame
<1> QED BY <1>8, <1>9, <1>10, <1>11, <1>12, <1>13
-----------------------------------------------------------------------------
(* What every sequence of tables yet to be copied looks like. *)
LEMMA PlanFacts ==
    ASSUME NEW p \in Plans
    PROVE  /\ p \in Seq(Tables) /\ p # <<>> /\ Head(p) \in Tables
           /\ \A j \in 2 .. Len(p) : p[j] \in Tables \ {Head(p), "coil"}
           /\ Len(p) \in Nat
           /\ Len(p) > 1 =>
                /\ Tail(p) \in Plans
                /\ Len(Tail(p)) = Len(p) - 1
                /\ Head(Tail(p)) = p[2]
                /\ \A j \in 1 .. Len(Tail(p)) : Tail(p)[j] = p[j + 1]
<1> USE DEF Tables
<1>1. CASE \E x \in Tables : p = <<x>>
  BY <1>1
<1>2. CASE p = ReadAllOrder
  BY <1>2 DEF ReadAllOrder, Plans
<1>3. CASE p = <<"input", "discrete", "holding">>
  BY <1>3 DEF Plans
<1>4. CASE p = <<"discrete", "holding">>
  BY <1>4 DEF Plans
<1> QED BY <1>1, <1>2, <1>3, <1>4 DEF Plans

(* A step of a reader leaves the bank and the other threads alone. *)
ReaderOnly(t) ==
    /\ t \in TcpThreads
    /\ UNCHANGED <<bankVars, ctxSocket, modbusVars, fault>>
    /\ \A u \in Threads \ {t} : at'[u] = at[u]
    /\ \A u \in TcpThreads \ {t} : todo'[u] = todo[u] /\ copied'[u] = copied[u]
    /\ at'[t] \in {"idle", "lock", "copy", "respond"}
    /\ ctxMutex' \in Threads \cup {Nobody}
    /\ at' \in [Threads -> {"idle", "receive", "write", "reply", "lock", "copy", "respond"}]
    /\ todo' \in [TcpThreads -> Seq(Tables)]
    /\ copied' \in [TcpThreads -> [Tables -> Seq(Nat)]]
    /\ \/ UNCHANGED ctxMutex /\ (at'[t] = "copy" => at[t] = "copy")
       \/ ctxMutex = Nobody /\ ctxMutex' = t
       \/ ctxMutex = t /\ ctxMutex' = Nobody /\ at'[t] # "copy"
    /\ CopyInv(t)' /\ SeenInv(t)'

LEMMA ReaderKeeps ==
    ASSUME RegInv, NEW t, ReaderOnly(t)
    PROVE  RegInv'
<1> USE DEF RegInv, ReaderOnly
<1>1. t \in Threads /\ t \notin ModbusThreads
  BY RegistersAssumption DEF Threads
<1>2. \A u \in ModbusThreads : at'[u] = at[u] /\ u \in Threads /\ u # t
  BY <1>1 DEF Threads
<1>3. RegTypeOK'
  <2>1. \A u \in Threads : InRequest(u)' \/ at'[u] = "copy" => ctxMutex' = u
    <3> SUFFICES ASSUME NEW u \in Threads, InRequest(u)' \/ at'[u] = "copy" PROVE ctxMutex' = u
      OBVIOUS
    <3>1. CASE u # t
      <4>1. InRequest(u) \/ at[u] = "copy"
        BY <3>1 DEF InRequest
      <4>2. ctxMutex = u
        BY <4>1 DEF RegTypeOK
      <4> QED BY <3>1, <4>2, RegistersAssumption DEF Threads
    <3>2. CASE u = t
      <4>1. at'[t] = "copy"
        BY <3>2 DEF InRequest
      <4> QED BY <3>2, <4>1, <1>1 DEF RegTypeOK
    <3> QED BY <3>1, <3>2
  <2> QED BY <2>1 DEF RegTypeOK, bankVars, modbusVars
<1>4. PlacesInv'
  BY <1>2 DEF PlacesInv, Threads
<1>5. SetupInv'
  BY DEF SetupInv, bankVars
<1>6. RequestInv'
  BY <1>2 DEF RequestInv, OwnSocket, InRequest, bankVars, modbusVars
<1>7. TableInvs'
  BY <1>2 DEF TableInvs, TableInv, Settled, bankVars, modbusVars
<1>8. TcpInv'
  <2> SUFFICES ASSUME NEW u \in TcpThreads \ {t} PROVE CopyInv(u)' /\ SeenInv(u)'
    BY DEF TcpInv
  <2>1. CopyInv(u) /\ SeenInv(u)
    BY DEF TcpInv
  <2>2. at'[u] = at[u] /\ todo'[u] = todo[u] /\ copied'[u] = copied[u] /\ bank' = bank /\ writes' = writes
    BY DEF Threads, bankVars
  <2>3. bank'["holding"][1] \in Nat /\ bank["holding"][1] <= bank'["holding"][1]
    <3>1. bank["holding"][1] \in Nat
      BY FirstCells DEF Tables
    <3> QED BY <2>2, <3>1
  <2>4. Len(writes) \in Nat /\ Len(writes') = Len(writes)
    BY <2>2, FirstCells
  <2>5. Len(writes) <= Len(writes') /\ \A k \in 1 .. Len(writes) : writes'[k] = writes[k]
    BY <2>2, <2>4
  <2>6. u \in TcpThreads
    OBVIOUS
  <2> QED BY <2>1, <2>2, <2>3, <2>4, <2>5, <2>6, ReaderFrame
<1> QED BY <1>3, <1>4, <1>5, <1>6, <1>7, <1>8

LEMMA TypesOf ==
    ASSUME RegTypeOK
    PROVE  /\ at \in [Threads -> {"idle", "receive", "write", "reply", "lock", "copy", "respond"}]
           /\ todo \in [TcpThreads -> Seq(Tables)]
           /\ copied \in [TcpThreads -> [Tables -> Seq(Nat)]]
           /\ ctxMutex \in Threads \cup {Nobody}
           /\ TcpThreads \subseteq Threads
           /\ NothingCopied \in [Tables -> Seq(Nat)]
           /\ \A x \in Tables : NothingCopied[x] = <<>>
<1>1. <<>> \in Seq(Nat)
  OBVIOUS
<1>2. NothingCopied \in [Tables -> Seq(Nat)] /\ \A x \in Tables : NothingCopied[x] = <<>>
  BY <1>1 DEF NothingCopied
<1>3. TcpThreads \subseteq Threads
  BY DEF Threads
<1> QED BY <1>2, <1>3 DEF RegTypeOK

LEMMA AskKeeps ==
    ASSUME RegInv, NEW t \in TcpThreads, Ask(t)
    PROVE  ReaderOnly(t)
<1> USE TypesOf DEF RegInv
<1>1. PICK order \in {<<x>> : x \in Tables} \cup {ReadAllOrder} :
        todo' = [todo EXCEPT ![t] = order]
  BY DEF Ask
<1>2. order \in Plans
  BY DEF Plans
<1>3. /\ at' = [at EXCEPT ![t] = "lock"] /\ copied' = [copied EXCEPT ![t] = NothingCopied]
      /\ UNCHANGED <<bankVars, lockVars, modbusVars, fault>>
  BY DEF Ask, Step
<1>4. order \in Seq(Tables) /\ Head(order) \in Tables
      /\ \A j \in 2 .. Len(order) : order[j] \in Tables
  BY <1>2, PlanFacts
<1>5. at'[t] = "lock" /\ todo'[t] = order /\ copied'[t] = NothingCopied
  BY <1>1, <1>3
<1>6. CopyInv(t)'
  <2>1. NothingCopied[Head(order)] = <<>> /\ Len(NothingCopied[Head(order)]) = 0
    BY <1>4
  <2>2. 0 < Size /\ "holding" \in Tables
    BY RegistersAssumption DEF Tables
  <2> QED BY <1>2, <1>4, <1>5, <2>1, <2>2 DEF CopyInv
<1>7. SeenInv(t)'
  BY <1>5 DEF SeenInv, Tables
<1>8. todo' \in [TcpThreads -> Seq(Tables)] /\ copied' \in [TcpThreads -> [Tables -> Seq(Nat)]]
  BY <1>1, <1>3, <1>4
<1> QED BY <1>1, <1>3, <1>5, <1>6, <1>7, <1>8 DEF ReaderOnly, lockVars

LEMMA LockTableKeeps ==
    ASSUME RegInv, NEW t \in TcpThreads, LockTable(t)
    PROVE  ReaderOnly(t)
<1> USE TypesOf DEF RegInv
<1>1. /\ at[t] = "lock" /\ at' = [at EXCEPT ![t] = "copy"]
      /\ ctxMutex = Nobody /\ ctxMutex' = t
      /\ UNCHANGED <<bankVars, ctxSocket, modbusVars, tcpVars, fault>>
  BY DEF LockTable, Lock, Step
<1>2. CopyInv(t) /\ SeenInv(t)
  BY DEF TcpInv
<1>3. CopyInv(t)'
  <2>1. at'[t] = "copy" /\ todo' = todo /\ copied' = copied /\ bank' = bank
    BY <1>1 DEF tcpVars, bankVars
  <2>2. copied[t][Head(todo[t])] = <<>> /\ Len(copied[t][Head(todo[t])]) = 0
    BY <1>1, <1>2 DEF CopyInv
  <2>3. \A i : i \notin 1 .. 0
    OBVIOUS
  <2> QED BY <1>1, <1>2, <2>1, <2>2, <2>3 DEF CopyInv
<1>4. SeenInv(t)'
  BY <1>1, <1>2 DEF SeenInv, tcpVars, bankVars
<1> QED BY <1>1, <1>3, <1>4 DEF ReaderOnly, tcpVars

LEMMA RespondKeeps ==
    ASSUME RegInv, NEW t \in TcpThreads, Respond(t)
    PROVE  ReaderOnly(t)
<1> USE TypesOf DEF RegInv
<1>1. /\ at' = [at EXCEPT ![t] = "idle"] /\ copied' = [copied EXCEPT ![t] = NothingCopied]
      /\ UNCHANGED <<bankVars, lockVars, modbusVars, todo, fault>>
  BY DEF Respond, Step
<1>2. at'[t] = "idle" /\ copied'[t] = NothingCopied
  BY <1>1
<1>3. CopyInv(t)' /\ SeenInv(t)'
  BY <1>2 DEF CopyInv, SeenInv, Tables
<1> QED BY <1>1, <1>2, <1>3 DEF ReaderOnly, lockVars

(* A sequence of numbers that is longer by one. *)
Extends(more, q, n) ==
    /\ more \in Seq(Nat) /\ more # <<>>
    /\ Len(more) = Len(q) + 1
    /\ \A j \in 1 .. Len(q) : more[j] = q[j]
    /\ more[Len(q) + 1] = n

LEMMA AppendExtends ==
    ASSUME NEW q \in Seq(Nat), NEW n \in Nat
    PROVE  Extends(Append(q, n), q, n)
<1>1. Append(q, n) \in Seq(Nat)
  OBVIOUS
<1>2. Append(q, n) # <<>>
  OBVIOUS
<1>3. Len(Append(q, n)) = Len(q) + 1
  OBVIOUS
<1>4. \A j \in 1 .. Len(q) : Append(q, n)[j] = q[j]
  OBVIOUS
<1>5. Append(q, n)[Len(q) + 1] = n
  OBVIOUS
<1> QED BY <1>1, <1>2, <1>3, <1>4, <1>5 DEF Extends

(* A step of Copy: register i of table x is copied, and more is then what  *)
(* has been copied of x.                                                   *)
Copied(t, x, i, more) ==
    /\ at[t] = "copy"
    /\ IF i < Size
       THEN UNCHANGED <<ctxMutex, at, todo>>
       ELSE /\ ctxMutex' = Nobody
            /\ todo' = [todo EXCEPT ![t] = Tail(@)]
            /\ at' = [at EXCEPT ![t] = IF Len(todo[t]) > 1 THEN "lock" ELSE "respond"]
    /\ UNCHANGED <<bankVars, ctxSocket, modbusVars, fault>>
    /\ CopyInv(t) /\ SeenInv(t) /\ ctxMutex = t
    /\ todo[t] \in Plans /\ x \in Tables /\ Len(copied[t][x]) < Size /\ copied[t][x] \in Seq(Nat)
    /\ Len(copied[t][x]) \in Nat /\ i \in Cells /\ bank[x][i] \in Nat
    /\ more \in Seq(Nat) /\ Len(more) = i /\ more # <<>> /\ more[i] = bank[x][i]
    /\ \A j \in 1 .. i - 1 : more[j] = copied[t][x][j]
    /\ copied' \in [TcpThreads -> [Tables -> Seq(Nat)]]
    /\ copied'[t][x] = more
    /\ \A y \in Tables \ {x} : copied'[t][y] = copied[t][y]
    /\ \A u \in TcpThreads \ {t} : copied'[u] = copied[u]
    /\ x \in Writable => \A j \in 1 .. i : more[j] = bank[x][j]
    /\ \A u \in ModbusThreads : at[u] # "write"

LEMMA CopyFacts ==
    ASSUME RegInv, NEW t \in TcpThreads, Copy(t),
           NEW x, x = Head(todo[t]), NEW i, i = Len(copied[t][x]) + 1,
           NEW more, more = Append(copied[t][x], bank[x][i])
    PROVE  Copied(t, x, i, more)
<1> USE TypesOf DEF RegInv
<1>1. /\ at[t] = "copy"
      /\ copied' = [copied EXCEPT ![t][x] = Append(@, bank[x][i])]
      /\ IF i < Size
         THEN UNCHANGED <<ctxMutex, at, todo>>
         ELSE /\ ctxMutex' = Nobody
              /\ todo' = [todo EXCEPT ![t] = Tail(@)]
              /\ at' = [at EXCEPT ![t] = IF Len(todo[t]) > 1 THEN "lock" ELSE "respond"]
      /\ UNCHANGED <<bankVars, ctxSocket, modbusVars, fault>>
  BY DEF Copy, Unlock
<1>2. CopyInv(t) /\ SeenInv(t) /\ ctxMutex = t
  BY <1>1, TypesOf DEF TcpInv, RegTypeOK
<1>3. todo[t] \in Plans /\ x \in Tables /\ Len(copied[t][x]) < Size /\ copied[t][x] \in Seq(Nat)
  BY <1>1, <1>2, PlanFacts, FirstCells DEF CopyInv
<1>4. Len(copied[t][x]) \in Nat /\ i \in Cells /\ bank[x][i] \in Nat
  <2>1. Len(copied[t][x]) \in Nat
    BY <1>3, LenProperties
  <2>2. i \in Cells
    BY <2>1, <1>3, RegistersAssumption DEF Cells
  <2>3. bank \in [Tables -> [Cells -> Nat]]
    BY DEF RegTypeOK
  <2> QED BY <2>1, <2>2, <2>3, <1>3
<1>5. /\ more \in Seq(Nat) /\ Len(more) = i /\ more # <<>> /\ more[i] = bank[x][i]
      /\ \A j \in 1 .. i - 1 : more[j] = copied[t][x][j]
  <2>1. i - 1 = Len(copied[t][x])
    BY <1>4
  <2>2. Extends(more, copied[t][x], bank[x][i])
    BY <1>3, <1>4, AppendExtends
  <2>3. /\ more \in Seq(Nat) /\ more # <<>> /\ Len(more) = i
        /\ more[i] = bank[x][i]
    BY <2>2 DEF Extends
  <2> QED BY <2>1, <2>2, <2>3 DEF Extends
<1>6. /\ copied' \in [TcpThreads -> [Tables -> Seq(Nat)]]
      /\ copied'[t][x] = more
      /\ \A y \in Tables \ {x} : copied'[t][y] = copied[t][y]
      /\ \A u \in TcpThreads \ {t} : copied'[u] = copied[u]
  BY <1>1, <1>3, <1>5
<1>7. x \in Writable => \A j \in 1 .. i : more[j] = bank[x][j]
  <2> SUFFICES ASSUME x \in Writable, NEW j \in 1 .. i PROVE more[j] = bank[x][j]
    OBVIOUS
  <2>1. CASE j = i
    BY <2>1, <1>5
  <2>2. CASE j # i
    <3>1. j \in 1 .. i - 1 /\ j \in 1 .. Len(copied[t][x])
      <4> PICK n \in Nat : n = Len(copied[t][x])
        BY <1>4
      <4>1. i = n + 1
        OBVIOUS
      <4>2. j \in 1 .. n /\ i - 1 = n
        BY <4>1, <2>2
      <4> QED BY <4>2
    <3>2. copied[t][x][j] = bank[x][j]
      BY <3>1, <1>1, <1>2 DEF CopyInv
    <3> QED BY <3>1, <3>2, <1>5
  <2> QED BY <2>1, <2>2
<1>8. \A u \in ModbusThreads : at[u] # "write"
  BY <1>1, OneHolder, RegistersAssumption DEF InRequest, Threads
<1> QED BY <1>1, <1>2, <1>3, <1>4, <1>5, <1>6, <1>7, <1>8 DEF Copied

(* Copying one register. *)
LEMMA CopyKeeps ==
    ASSUME RegInv, NEW t \in TcpThreads, Copy(t)
    PROVE  ReaderOnly(t)
<1> USE TypesOf DEF RegInv
<1> PICK x : x = Head(todo[t])
  OBVIOUS
<1> PICK i : i = Len(copied[t][x]) + 1
  OBVIOUS
<1> PICK more : more = Append(copied[t][x], bank[x][i])
  OBVIOUS
<1>1. Copied(t, x, i, more)
  BY CopyFacts
<1> USE DEF Copied
<1>2. /\ at[t] = "copy" /\ CopyInv(t)
      /\ \A y \in Tables \ {x} : copied'[t][y] = copied[t][y]
  BY <1>1
<1>3. Len(copied[t][x]) \in Nat
  BY <1>1
<1>4. bank' = bank /\ writes' = writes
  BY <1>1 DEF bankVars
<1>5. SeenInv(t)'
  <2>1. /\ "coil" \in Tables /\ "holding" \in Tables
        /\ Len(writes) \in Nat /\ bank["coil"][1] \in Nat /\ bank["holding"][1] \in Nat
    BY FirstCells DEF Tables
  <2>2. i # 1 => copied[t][x] # <<>> /\ more[1] = copied[t][x][1]
    <3> SUFFICES ASSUME i # 1 PROVE copied[t][x] # <<>> /\ more[1] = copied[t][x][1]
      OBVIOUS
    <3>1. Len(copied[t][x]) # 0 /\ 1 \in 1 .. i - 1
      BY <1>3
    <3> QED BY <3>1, <1>1, EmptySeq
  <2>3. i = 1 => copied[t][x] = <<>> /\ more[1] = bank[x][1]
    <3> SUFFICES ASSUME i = 1 PROVE copied[t][x] = <<>> /\ more[1] = bank[x][1]
      OBVIOUS
    <3>1. Len(copied[t][x]) \notin Nat \ {0}
      BY <1>3
    <3> QED BY <3>1, <1>1, EmptySeq
  <2>4. CASE x = "coil"
    <3>1. copied[t]["holding"] = <<>> /\ copied'[t]["holding"] = <<>>
      BY <1>1, <2>1, <2>4 DEF CopyInv
    <3>2. CASE i = 1
      <4>1. \A u \in ModbusThreads : at[u] # "write"
        BY <1>1, OneHolder, RegistersAssumption DEF InRequest, Threads
      <4>2. Settled("holding")
        BY <4>1 DEF Settled
      <4>3. 1 \in Cells /\ TableInv("holding") /\ TableInv("coil")
        BY RegistersAssumption DEF Cells, TableInvs, Writable
      <4>4. bank["coil"][1] <= Len(writes)
        BY <4>3 DEF TableInv
      <4>5. \A k \in 1 .. Len(writes) : writes[k] = "holding" => k <= bank["holding"][1]
        BY <4>2, <4>3 DEF TableInv
      <4>6. copied'[t]["coil"][1] = bank["coil"][1]
        BY <1>1, <2>3, <2>4, <3>2
      <4>7. \A k \in 1 .. bank["coil"][1] : k \in 1 .. Len(writes)
        BY <4>4, <2>1
      <4> QED BY <3>1, <4>4, <4>5, <4>6, <4>7, <1>4 DEF SeenInv
    <3>3. CASE i # 1
      <4>1. copied[t]["coil"] # <<>> /\ copied'[t]["coil"][1] = copied[t]["coil"][1]
        BY <3>3, <2>2, <2>4, <1>1
      <4> QED BY <4>1, <3>1, <1>1, <1>4 DEF SeenInv
    <3> QED BY <3>2, <3>3
  <2>5. CASE x = "holding"
    <3>1. copied'[t]["coil"] = copied[t]["coil"]
      BY <2>1, <2>5, <1>1
    <3>2. copied'[t]["holding"] # <<>>
            /\ copied'[t]["holding"][1] = IF copied[t]["holding"] = <<>> THEN bank["holding"][1]
                                                                       ELSE copied[t]["holding"][1]
      <4>1. i = 1 <=> copied[t]["holding"] = <<>>
        BY <2>2, <2>3, <2>5
      <4> QED BY <4>1, <2>2, <2>3, <2>5, <1>1
    <3> QED BY <3>1, <3>2, <1>1, <1>4 DEF SeenInv
  <2>6. CASE x \notin {"coil", "holding"}
    BY <2>1, <2>6, <1>1, <1>4 DEF SeenInv
  <2> QED BY <2>4, <2>5, <2>6
<1>6. CASE i < Size
  <2>1. UNCHANGED <<ctxMutex, at, todo>>
    BY <1>1, <1>6
  <2>2. CopyInv(t)'
    <3>1. \A j \in 2 .. Len(todo[t]) : todo[t][j] \in Tables \ {x}
      BY <1>1, PlanFacts
    <3>2. x = "coil" => copied'[t]["holding"] = copied[t]["holding"]
      BY <1>1 DEF Tables
    <3>3. \A j \in 2 .. Len(todo[t]) : copied'[t][todo[t][j]] = <<>>
      BY <1>2, <3>1 DEF CopyInv
    <3>4. x = "coil" => copied'[t]["holding"] = <<>>
      BY <1>1, <3>2 DEF CopyInv
    <3>5. copied'[t][x] = more /\ Len(more) = i /\ todo' = todo /\ at'[t] = "copy"
      BY <1>1, <2>1
    <3> QED BY <1>1, <1>4, <1>6, <3>3, <3>4, <3>5 DEF CopyInv
  <2> QED BY <1>1, <1>5, <2>1, <2>2 DEF ReaderOnly
<1>7. CASE ~(i < Size)
  <2>1. /\ ctxMutex' = Nobody
        /\ todo' = [todo EXCEPT ![t] = Tail(@)]
        /\ at' = [at EXCEPT ![t] = IF Len(todo[t]) > 1 THEN "lock" ELSE "respond"]
    BY <1>1, <1>7
  <2>2. Tail(todo[t]) \in Seq(Tables) /\ todo' \in [TcpThreads -> Seq(Tables)]
    <3>1. todo[t] \in Seq(Tables) /\ todo[t] # <<>>
      BY <1>1, PlanFacts
    <3>2. Tail(todo[t]) \in Seq(Tables)
      BY <3>1, HeadTailProperties
    <3> QED BY <3>2, <2>1
  <2>3. CopyInv(t)'
    <3>1. CASE Len(todo[t]) > 1
      <4> PICK rest : rest = Tail(todo[t])
        OBVIOUS
      <4>1. todo'[t] = rest /\ at'[t] = "lock"
        BY <2>1, <3>1
      <4>2. /\ rest \in Plans /\ Len(rest) = Len(todo[t]) - 1 /\ Len(todo[t]) \in Nat
            /\ Head(rest) = todo[t][2]
            /\ \A j \in 1 .. Len(rest) : rest[j] = todo[t][j + 1]
        BY <1>1, <3>1, PlanFacts
      <4>3. \A j \in 2 .. Len(todo[t]) :
              /\ todo[t][j] \in Tables \ {x, "coil"}
              /\ copied'[t][todo[t][j]] = <<>>
        <5>1. \A j \in 2 .. Len(todo[t]) : todo[t][j] \in Tables \ {x, "coil"}
          BY <1>1, PlanFacts
        <5> QED BY <5>1, <1>2 DEF CopyInv
      <4>4. copied'[t][Head(rest)] = <<>> /\ Head(rest) # "coil" /\ Len(copied'[t][Head(rest)]) = 0
        <5> HIDE DEF Copied, RegInv
        <5>1. 2 \in 2 .. Len(todo[t])
          BY <3>1, <4>2
        <5>2. copied'[t][todo[t][2]] = <<>> /\ todo[t][2] # "coil"
          BY <4>3, <5>1
        <5>3. Len(<<>>) = 0
          OBVIOUS
        <5>4. copied'[t][Head(rest)] = <<>> /\ Head(rest) # "coil"
          BY <4>2, <5>2
        <5> QED BY <5>3, <5>4
      <4>5. \A j \in 2 .. Len(rest) : copied'[t][rest[j]] = <<>>
        <5> SUFFICES ASSUME NEW j \in 2 .. Len(rest) PROVE copied'[t][rest[j]] = <<>>
          OBVIOUS
        <5>1. j \in 1 .. Len(rest) /\ j + 1 \in 2 .. Len(todo[t])
          BY <4>2
        <5> QED BY <5>1, <4>2, <4>3
      <4>6. 0 < Size /\ \A j : j \notin 1 .. 0
        BY RegistersAssumption
      <4> QED BY <4>1, <4>2, <4>4, <4>5, <4>6 DEF CopyInv
    <3>2. CASE ~(Len(todo[t]) > 1)
      BY <2>1, <3>2 DEF CopyInv
    <3> QED BY <3>1, <3>2
  <2> QED BY <1>1, <1>5, <2>1, <2>2, <2>3 DEF ReaderOnly
<1> QED BY <1>6, <1>7

(* Reading through the null pointer. *)
LEMMA NullKeeps ==
    ASSUME RegInv, ~created, fault' = "null mapping",
           UNCHANGED <<bankVars, lockVars, at, modbusVars, tcpVars>>
    PROVE  RegInv'
<1> USE DEF RegInv, bankVars, lockVars, modbusVars, tcpVars
<1>1. RegTypeOK'
  BY DEF RegTypeOK, InRequest
<1>2. PlacesInv' /\ SetupInv'
  BY DEF PlacesInv, SetupInv, RegTypeOK
<1>3. RequestInv'
  BY DEF RequestInv, OwnSocket, InRequest
<1>4. TableInvs'
  BY DEF TableInvs, TableInv, Settled
<1>5. TcpInv'
  BY ReadersFrame
<1> QED BY <1>1, <1>2, <1>3, <1>4, <1>5

(* What a step does, as far as the invariant and the promise can tell. *)
Quiet(t) ==
    \/ Acquire(t) \/ ReceiveFails(t) \/ Reply(t)
    \/ /\ Step(t, "receive", "reply")
       /\ UNCHANGED <<bankVars, lockVars, modbusVars, tcpVars, fault>>

LEMMA StepKinds ==
    ASSUME [RegNext]_regVars
    PROVE  \/ fault = "none" /\ SetupStep
           \/ \E t \in ModbusThreads :
                fault = "none" /\ (Quiet(t) \/ ReceiveWrite(t) \/ Write(t))
           \/ \E t \in TcpThreads : Ask(t) \/ LockTable(t) \/ Copy(t) \/ Respond(t)
           \/ ~created /\ fault' = "null mapping"
                /\ UNCHANGED <<bankVars, lockVars, at, modbusVars, tcpVars>>
           \/ UNCHANGED regVars
<1>1. ASSUME NEW t \in ModbusThreads, fault = "none", ModbusStep(t)
      PROVE  Quiet(t) \/ ReceiveWrite(t) \/ Write(t)
  BY <1>1, ReceiveKinds DEF ModbusStep, Quiet
<1>2. ASSUME NEW t \in TcpThreads, ReadNull(t) \/ ReadOneNull(t)
      PROVE  ~created /\ fault' = "null mapping"
                /\ UNCHANGED <<bankVars, lockVars, at, modbusVars, tcpVars>>
  BY <1>2 DEF ReadNull, ReadOneNull
<1> QED BY <1>1, <1>2 DEF RegNext, TcpStep

LEMMA RegStepKeeps == RegInv /\ [RegNext]_regVars => RegInv'
<1> SUFFICES ASSUME RegInv, [RegNext]_regVars PROVE RegInv'
  OBVIOUS
<1>1. CASE fault = "none" /\ SetupStep
  BY <1>1, SetupKeeps
<1>2. ASSUME NEW t \in ModbusThreads, fault = "none", Quiet(t) PROVE RegInv'
  BY <1>2, ModbusQuietKeeps DEF Quiet
<1>3. ASSUME NEW t \in ModbusThreads, ReceiveWrite(t) \/ Write(t) PROVE RegInv'
  BY <1>3, ReceiveWriteKeeps, WriteKeeps
<1>4. ASSUME NEW t \in TcpThreads, Ask(t) \/ LockTable(t) \/ Copy(t) \/ Respond(t) PROVE RegInv'
  <2>1. ReaderOnly(t)
    BY <1>4, AskKeeps, LockTableKeeps, CopyKeeps, RespondKeeps
  <2> QED BY <2>1, ReaderKeeps
<1>5. CASE /\ ~created /\ fault' = "null mapping"
           /\ UNCHANGED <<bankVars, lockVars, at, modbusVars, tcpVars>>
  BY <1>5, NullKeeps
<1>6. CASE UNCHANGED regVars
  <2> USE <1>6 DEF RegInv, regVars, bankVars, lockVars, modbusVars, tcpVars
  <2>1. RegTypeOK'
    BY DEF RegTypeOK, InRequest
  <2>2. PlacesInv' /\ SetupInv'
    BY DEF PlacesInv, SetupInv
  <2>3. RequestInv'
    BY DEF RequestInv, OwnSocket, InRequest
  <2>4. TableInvs'
    BY DEF TableInvs, TableInv, Settled
  <2>5. TcpInv'
    BY ReadersFrame
  <2> QED BY <2>1, <2>2, <2>3, <2>4, <2>5
<1> QED BY StepKinds, <1>1, <1>2, <1>3, <1>4, <1>5, <1>6

LEMMA RegInvariant == RegSpec => []RegInv
<1> QED BY RegInitially, RegStepKeeps, PTL DEF RegSpec

-----------------------------------------------------------------------------
(* Every variable keeps its type, and whoever serves a request or copies a *)
(* table has ctxMutex.                                                     *)
THEOREM BankTypeCorrect == RegSpec => []RegTypeOK
<1>1. RegInv => RegTypeOK
  BY DEF RegInv
<1> QED BY <1>1, RegInvariant, PTL

(* handleModbusRequest reads and answers on its own connection only.       *)
THEOREM AnswersOwnClient == RegSpec => []OwnSocket
<1>1. RegInv => OwnSocket
  BY DEF RegInv, RequestInv
<1> QED BY <1>1, RegInvariant, PTL

(* The four tables of a READ_ALL are not of one instant, but later tables  *)
(* are not older than earlier ones.                                        *)
THEOREM ReadAllGoesForward == RegSpec => []NeverBackwards
<1>1. RegInv => NeverBackwards
  BY DEF RegInv, TcpInv, SeenInv, NeverBackwards
<1> QED BY <1>1, RegInvariant, PTL

(* readCoil and its like meet a null mapping_ only while the ModbusServer  *)
(* has not created it, or could not.                                       *)
THEOREM NullOnlyWithoutBank == RegSpec => []BankFound
<1>1. RegInv => BankFound
  BY DEF RegInv, SetupInv, BankFound
<1> QED BY <1>1, RegInvariant, PTL

-----------------------------------------------------------------------------
(* The promise's variables, as the mapping of ImplementsAtomicBank has them. *)
Tops   == [x \in Writable |-> bank[x][Size]]
Done   == Len(writes) - UnderWay
Views  == [t \in TcpThreads |-> [x \in Writable |-> Whole(copied[t][x])]]

Writers(place) == Cardinality({t \in ModbusThreads : place[t] = "write"})

LEMMA WritersAre ==
    ASSUME NEW place
    PROVE  /\ (\A t \in ModbusThreads : place[t] # "write") => Writers(place) = 0
           /\ \A t \in ModbusThreads :
                place[t] = "write" /\ (\A u \in ModbusThreads \ {t} : place[u] # "write")
                    => Writers(place) = 1
<1>1. ASSUME \A t \in ModbusThreads : place[t] # "write" PROVE Writers(place) = 0
  <2>1. {t \in ModbusThreads : place[t] = "write"} = {}
    BY <1>1
  <2> QED BY <2>1, FS_EmptySet DEF Writers
<1>2. ASSUME NEW t \in ModbusThreads, place[t] = "write",
             \A u \in ModbusThreads \ {t} : place[u] # "write"
      PROVE  Writers(place) = 1
  <2>1. {u \in ModbusThreads : place[u] = "write"} = {t}
    BY <1>2
  <2> QED BY <2>1, FS_Singleton DEF Writers
<1> QED BY <1>1, <1>2

LEMMA UnderWayIs == UnderWay = Writers(at) /\ UnderWay' = Writers(at')
BY DEF UnderWay, Writers

LEMMA EmptyIsNotWhole ==
    /\ Whole(<<>>) = {}
    /\ \A cells \in Seq(Nat) : Len(cells) < Size => Whole(cells) = {}
<1>1. Len(<<>>) < Size
  BY RegistersAssumption
<1> QED BY <1>1 DEF Whole

LEMMA AtomicInitially == RegInit => Atomic!BankInit
<1> SUFFICES ASSUME RegInit PROVE Atomic!BankInit
  OBVIOUS
<1>1. Tops = [x \in Writable |-> 0]
  <2>1. Size \in Cells /\ Writable \subseteq Tables
    BY RegistersAssumption DEF Cells, Writable, Tables
  <2> QED BY <2>1 DEF Tops, RegInit
<1>2. Done = 0
  <2>1. UnderWay = 0
    BY WritersAre, UnderWayIs DEF RegInit, Threads
  <2> QED BY <2>1 DEF Done, RegInit
<1>3. Views = [t \in TcpThreads |-> [x \in Writable |-> {}]]
  <2>1. \A t \in TcpThreads, x \in Writable : copied[t][x] = <<>>
    BY DEF RegInit, NothingCopied, Writable, Tables
  <2> QED BY <2>1, EmptyIsNotWhole DEF Views
<1> QED BY <1>1, <1>2, <1>3 DEF Atomic!BankInit, Tops, Done, Views

(* The steps that the promise does not see. *)
LEMMA AtomicStutter ==
    ASSUME UNCHANGED <<Tops, Done, Views>>
    PROVE  UNCHANGED Atomic!bankPromise
BY DEF Atomic!bankPromise, Tops, Done, Views

(* A step of a thread of the Modbus side, or of the set-up. *)
LEMMA WriterRefines ==
    ASSUME RegInv, RegInv', fault = "none",
           \/ SetupStep
           \/ \E t \in ModbusThreads : Quiet(t) \/ ReceiveWrite(t) \/ Write(t)
    PROVE  [Atomic!BankNext]_(Atomic!bankPromise)
<1> USE DEF RegInv
<1>1. copied' = copied
  BY DEF SetupStep, Quiet, Acquire, ReceiveFails, Reply, ReceiveWrite, Write, tcpVars
<1>2. Views' = Views
  BY <1>1 DEF Views
<1>3. CASE SetupStep
  <2>1. \A x \in Writable : bank'[x] = bank[x]
    BY <1>3 DEF SetupStep, Create, Fill, Listen, RegTypeOK, Tables, Writable
  <2>2. Tops' = Tops
    BY <2>1 DEF Tops
  <2>3. at' = at /\ writes' = writes
    BY <1>3 DEF SetupStep, Create, Fill, Listen
  <2>4. Done' = Done
    BY <2>3 DEF Done, UnderWay
  <2> QED BY <1>2, <2>2, <2>4, AtomicStutter
<1>4. ASSUME NEW t \in ModbusThreads, Quiet(t) PROVE UNCHANGED Atomic!bankPromise
  <2>1. bank' = bank /\ writes' = writes
    BY <1>4 DEF Quiet, Acquire, ReceiveFails, Reply, bankVars
  <2>2. \A u \in ModbusThreads : at'[u] = "write" <=> at[u] = "write"
    <3>1. at[t] # "write" /\ at'[t] # "write" /\ \A u \in Threads \ {t} : at'[u] = at[u]
      BY <1>4 DEF Quiet, Acquire, ReceiveFails, Reply, Step, RegTypeOK, Threads
    <3> QED BY <3>1 DEF Threads
  <2>3. UnderWay' = UnderWay
    BY <2>2 DEF UnderWay
  <2> QED BY <1>2, <2>1, <2>3, AtomicStutter DEF Tops, Done
<1>5. ASSUME NEW t \in ModbusThreads, ReceiveWrite(t) PROVE UNCHANGED Atomic!bankPromise
  <2>1. bank' = bank /\ at[t] = "receive" /\ at'[t] = "write"
        /\ (\A u \in Threads \ {t} : at'[u] = at[u]) /\ t \in Threads
    BY <1>5 DEF ReceiveWrite, Step, RegTypeOK, Threads
  <2>2. \A u \in ModbusThreads \ {t} : at[u] # "write"
    BY <2>1, OneHolder DEF InRequest, Threads
  <2>3. UnderWay = 0 /\ UnderWay' = 1
    <3>1. UnderWay = 0
      BY <2>1, <2>2, WritersAre, UnderWayIs
    <3>2. \A u \in ModbusThreads \ {t} : at'[u] # "write"
      BY <2>1, <2>2 DEF Threads
    <3>3. UnderWay' = 1
      BY <2>1, <3>2, WritersAre, UnderWayIs
    <3> QED BY <3>1, <3>3
  <2>4. Len(writes) \in Nat /\ Len(writes') = Len(writes) + 1
    <3>1. writes \in Seq(Writable)
      BY DEF RegTypeOK
    <3> QED BY <1>5, <3>1, AppendProperties, LenProperties DEF ReceiveWrite
  <2>5. Done' = Done
    BY <2>3, <2>4 DEF Done
  <2> QED BY <1>2, <2>1, <2>5, AtomicStutter DEF Tops
<1>6. ASSUME NEW t \in ModbusThreads, Write(t) PROVE [Atomic!BankNext]_(Atomic!bankPromise)
  <2>1. PICK i \in Cells :
          /\ bank' = [bank EXCEPT ![table[t]][i] = number[t]]
          /\ at' = [at EXCEPT ![t] = IF i = Size THEN "reply" ELSE "write"]
          /\ at[t] = "write" /\ writes' = writes
    BY <1>6 DEF Write
  <2>2. /\ table[t] \in Writable /\ number[t] = Len(writes) /\ Len(writes) \in Nat
        /\ bank \in [Tables -> [Cells -> Nat]] /\ Writable \subseteq Tables
    BY <2>1, FirstCells DEF RegTypeOK, RequestInv, Writable, Tables
  <2>3. t \in Threads /\ \A u \in Threads : at'[u] = IF u = t THEN (IF i = Size THEN "reply" ELSE "write") ELSE at[u]
    BY <2>1 DEF RegTypeOK, Threads
  <2>4. \A u \in ModbusThreads \ {t} : at[u] # "write" /\ at'[u] # "write"
    BY <2>1, <2>3, OneHolder DEF InRequest, Threads
  <2>5. UnderWay = 1 /\ UnderWay' = IF i = Size THEN 0 ELSE 1
    <3>1. UnderWay = 1
      BY <2>1, <2>4, WritersAre, UnderWayIs
    <3>2. CASE i = Size
      <4>1. \A u \in ModbusThreads : at'[u] # "write"
        BY <2>3, <2>4, <3>2
      <4> QED BY <3>1, <3>2, <4>1, WritersAre, UnderWayIs
    <3>3. CASE i # Size
      <4>1. at'[t] = "write"
        BY <2>3, <3>3
      <4> QED BY <3>1, <3>3, <4>1, <2>4, WritersAre, UnderWayIs
    <3> QED BY <3>2, <3>3
  <2>6. Size \in Cells
    BY RegistersAssumption DEF Cells
  <2>7. CASE i # Size
    <3>1. \A x \in Writable : bank'[x][Size] = bank[x][Size]
      BY <2>1, <2>2, <2>6, <2>7
    <3>2. Tops' = Tops /\ Done' = Done
      BY <2>1, <2>5, <2>7, <3>1 DEF Tops, Done
    <3> QED BY <1>2, <3>2, AtomicStutter
  <2>8. CASE i = Size
    <3>1. Done' = Len(writes) /\ Done' = Done + 1
      BY <2>1, <2>2, <2>5, <2>8 DEF Done
    <3>2. \A x \in Writable : bank'[x][Size] = IF x = table[t] THEN Len(writes) ELSE bank[x][Size]
      BY <2>1, <2>2, <2>6, <2>8
    <3> PICK w \in Writable : w = table[t]
      BY <2>2
    <3>3. Tops' = [Tops EXCEPT ![w] = Done']
      BY <3>1, <3>2 DEF Tops
    <3>4. Atomic!WriteTable(w)
      BY <1>2, <3>1, <3>3 DEF Atomic!WriteTable, Tops, Done, Views
    <3>5. \E x \in Writable : Atomic!WriteTable(x)
      BY <3>4
    <3> QED BY <3>5 DEF Atomic!BankNext
  <2> QED BY <2>7, <2>8
<1> QED BY <1>3, <1>4, <1>5, <1>6, AtomicStutter

(* A step of a reader: asking and having answered empty its view, and the  *)
(* last register of a table adds the table.                                *)
LEMMA ReaderRefines ==
    ASSUME RegInv, RegInv', NEW t \in TcpThreads,
           Ask(t) \/ LockTable(t) \/ Copy(t) \/ Respond(t)
    PROVE  [Atomic!BankNext]_(Atomic!bankPromise)
<1> USE TypesOf DEF RegInv
<1>1. ReaderOnly(t)
  BY AskKeeps, LockTableKeeps, CopyKeeps, RespondKeeps
<1>2. Tops' = Tops /\ Done' = Done
  <2>1. bank' = bank /\ writes' = writes
    BY <1>1 DEF ReaderOnly, bankVars
  <2>2. \A u \in ModbusThreads : at'[u] = at[u]
    BY <1>1, RegistersAssumption DEF ReaderOnly, Threads
  <2>3. UnderWay' = UnderWay
    BY <2>2 DEF UnderWay
  <2> QED BY <2>1, <2>3 DEF Tops, Done
<1>3. Writable \subseteq Tables
  BY DEF Writable, Tables
<1>4. CASE Ask(t) \/ Respond(t)
  <2>1. copied' = [copied EXCEPT ![t] = NothingCopied]
    BY <1>4 DEF Ask, Respond
  <2>2. Views' = [Views EXCEPT ![t] = [x \in Writable |-> {}]]
    <3>1. \A u \in TcpThreads \ {t} : copied'[u] = copied[u]
      BY <2>1
    <3>2. \A x \in Writable : Whole(copied'[t][x]) = {}
      BY <2>1, <1>3, EmptyIsNotWhole
    <3> QED BY <3>1, <3>2 DEF Views
  <2>3. Atomic!Answer(t)
    BY <1>2, <2>2 DEF Atomic!Answer, Tops, Done, Views
  <2> QED BY <2>3 DEF Atomic!BankNext
<1>5. CASE LockTable(t)
  BY <1>2, <1>5, AtomicStutter DEF LockTable, tcpVars, Views
<1>6. CASE Copy(t)
  <2> PICK x : x = Head(todo[t])
    OBVIOUS
  <2> PICK i : i = Len(copied[t][x]) + 1
    OBVIOUS
  <2> PICK more : more = Append(copied[t][x], bank[x][i])
    OBVIOUS
  <2>1. Copied(t, x, i, more)
    BY <1>6, CopyFacts
  <2>2. /\ copied'[t][x] = more /\ more \in Seq(Nat) /\ Len(more) = i /\ i \in Cells
        /\ Whole(copied[t][x]) = {}
        /\ \A y \in Writable \ {x} : copied'[t][y] = copied[t][y]
        /\ \A u \in TcpThreads \ {t} : copied'[u] = copied[u]
    BY <2>1, <1>3, EmptyIsNotWhole DEF Copied
  <2>3. CASE x \notin Writable \/ i < Size
    <3>1. \A u \in TcpThreads, y \in Writable : Whole(copied'[u][y]) = Whole(copied[u][y])
      <4>1. x \in Writable => Whole(more) = {}
        BY <2>2, <2>3, EmptyIsNotWhole
      <4> QED BY <2>2, <4>1
    <3> QED BY <1>2, <3>1, AtomicStutter DEF Views
  <2>4. CASE x \in Writable /\ ~(i < Size)
    <3>1. i = Size /\ Size \in Nat \ {0}
      BY <2>2, <2>4, RegistersAssumption DEF Cells
    <3>2. \A j \in Cells : more[j] = bank[x][Size]
      <4>1. Settled(x)
        BY <2>1 DEF Copied, Settled
      <4>2. \A j \in Cells : bank[x][j] = bank[x][Size]
        BY <4>1, <2>4 DEF TableInvs, TableInv
      <4> QED BY <2>1, <2>4, <3>1, <4>2 DEF Copied, Cells
    <3>3. Whole(more) = {bank[x][Size]}
      <4>1. Whole(more) = {more[j] : j \in Cells}
        <5>1. ~(Len(more) < Size)
          BY <2>2, <3>1
        <5> QED BY <5>1, Zenon DEF Whole
      <4>2. Size \in Cells
        BY <3>1 DEF Cells
      <4> QED BY <3>2, <4>1, <4>2
    <3>4. Views' = [Views EXCEPT ![t][x] = {Tops[x]}]
      <4>1. Tops[x] = bank[x][Size]
        BY <2>4 DEF Tops
      <4>2. Views[t] = [y \in Writable |-> Whole(copied[t][y])]
        BY DEF Views
      <4>3. [y \in Writable |-> Whole(copied'[t][y])] = [Views[t] EXCEPT ![x] = {Tops[x]}]
        BY <2>2, <2>4, <3>3, <4>1, <4>2
      <4>4. \A u \in TcpThreads \ {t} :
              [y \in Writable |-> Whole(copied'[u][y])] = [y \in Writable |-> Whole(copied[u][y])]
        BY <2>2
      <4>5. Views' = [u \in TcpThreads |-> IF u = t THEN [Views[t] EXCEPT ![x] = {Tops[x]}]
                                                     ELSE Views[u]]
        BY <4>3, <4>4 DEF Views
      <4>6. Views = [u \in TcpThreads |-> Views[u]]
        BY DEF Views
      <4> QED BY <4>5, <4>6
    <3>5. Views[t][x] = {}
      BY <2>2, <2>4 DEF Views
    <3>6. Atomic!ReadTable(t, x)
      BY <1>2, <3>4, <3>5 DEF Atomic!ReadTable, Tops, Done, Views
    <3> QED BY <2>4, <3>6 DEF Atomic!BankNext
  <2> QED BY <2>3, <2>4
<1> QED BY <1>4, <1>5, <1>6

LEMMA StepRefines ==
    ASSUME RegInv, RegInv', [RegNext]_regVars
    PROVE  [Atomic!BankNext]_(Atomic!bankPromise)
<1>1. ASSUME UNCHANGED <<bankVars, at, tcpVars>> PROVE UNCHANGED Atomic!bankPromise
  BY <1>1, AtomicStutter DEF bankVars, tcpVars, Tops, Done, Views, UnderWay
<1> QED BY <1>1, StepKinds, WriterRefines, ReaderRefines DEF regVars

(* modbus_reply, which sets registers one by one, and readCoilAll and its  *)
(* like, which copy them one by one, come to atomic writes and atomic      *)
(* reads of whole tables.                                                  *)
THEOREM TablesAreAtomic == RegSpec => ImplementsAtomicBank
<1> QED BY AtomicInitially, RegInvariant, StepRefines, PTL
     DEF RegSpec, ImplementsAtomicBank, Atomic!AtomicSpec
=============================================================================
