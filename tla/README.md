# mbtest in TLA+

TLA+ specifications of mbtest: the server process `mbserver`, which serves a
bank of registers to Modbus clients and to clients of a small TCP protocol of
its own, the client `mbclient`, and the header `BlockingCollection.h` they hand
work over with. The modules are translated from the C++ source; TLC checks them
on small instances, and TLAPS proves the safety properties of the server
process, of its register bank, of the collection and of the client for any
number of connections, SIGINTs, descriptors, registers, threads, elements and
commands. Line numbers refer to the files under `src/`.

1. [The system](#1-the-system)
2. [Modules](#2-modules)
3. [Modelling decisions](#3-modelling-decisions)
4. [Runs](#4-runs)
5. [Fairness](#5-fairness)
6. [Proofs](#6-proofs)
7. [Where the code and its documents
   part](#7-where-the-code-and-its-documents-part)
8. [What is not modelled](#8-what-is-not-modelled)
9. [Plan](#9-plan)

## 1. The system

Everything in `mbserver` with a life of its own is a `Worker`: an object with a
flag `bRunning` and one thread.

| component | state | operations | what makes it correct |
|---|---|---|---|
| `Worker` (Worker.cpp) | `bRunning`, `thread_` | `run`, `stop`, `cancelIO`, `wait` | an object outlives its thread; a stopped thread ends |
| `ThreadDeleter` (ThreadDeleter.cpp) | `threads_`, a blocking queue of workers | its loop, `deleteWorker`, `stop__` | every finished worker is joined and deleted exactly once; it stops last |
| `BaseServer` (BaseServer.cpp) | `connections_`, `connsetMutex` | `registerConnection`, `deregisterConnection`, `stopConnections` | a deleted connection is in no set |
| `TcpServer`, `ModbusServer` (accept loops) | the listening socket | set-up, accept loop, `stop__` | a connection is registered before it runs; stopping gets it out of `accept` |
| `TcpConnection`, `ModbusConnection` | the client's socket | the request loop, `stop__` | the thread leaves when its client does, or when it is stopped, wherever it sleeps |
| `main` and the SIGINT handler (mbserver.cpp) | the three workers | start, wait, stop | shutting down in an order that loses nothing and always ends |
| descriptors (the kernel's table, and the numbers that the classes keep) | which number denotes which socket | open, accept, close | nobody closes or reads another's socket; what is opened is closed |
| register bank (ModbusServer.cpp) | `ctx_`, `mb_mapping_`, `ctxMutex` | `handleModbusRequest`, `readCoil`, ..., `readAll` | each response goes to its own client; no torn tables; no lock held for ever |
| `BlockingCollection` | container, state, two condition variables | add and take in immediate, timed, blocking and bulk form, from either end; `flush`, `complete_adding`, `activate`, `deactivate`, `attach_*`, `detach_*` | contents and order; nobody sleeps beside work; closing wakes everybody |
| protocol (protocol.h, both ends) | - | encode and decode | both ends agree where a message begins |
| `mbclient` | one global socket, `running`, `loopThread` | connect, disconnect, read, start, stop, quit | what is shown is what was asked for; every command returns |

How they interact:

- **Calls.** `main` starts the workers, waits for both servers, then stops the
  deleter and waits for it. An accepting thread allocates a connection,
  registers it and calls its `run`. A connection thread ends by deregistering:
  under `connsetMutex` it erases itself and hands itself to the deleter, which
  joins its thread and deletes it. A `TcpConnection` asks the `ModbusServer`
  for register values.
- **Shared state.** `connections_` is under `connsetMutex`, except for
  `stopConnections`, which the SIGINT handler runs without it. The register
  bank is under `ctxMutex`, except while it is created. `mbclient`'s socket is
  shared by its two threads with no lock.
- **Signals.** SIGINT runs the two servers' `stop` in a signal handler, on any
  thread that does not block it; a second SIGINT may run it on another thread
  at the same time. `stop` clears the flag, closes the socket, and sends
  SIGUSR1, so that a system call the thread sleeps in returns `EINTR`.
- **Numbers.** `ModbusServer` and `ModbusConnection` keep the number of a
  descriptor they have closed; the kernel gives it to the next socket that any
  of the threads opens.

What is hard about it, and what the properties are for:

- an object that hands itself over to be deleted while its thread still runs,
  in a race with the `run` that started it;
- a signal handler that iterates over a set while other threads erase from it;
- a signal that is lost on a thread which is only about to sleep;
- a number that is closed, used or closed again when it denotes a socket of
  somebody else;
- notifications of condition variables that are spared when enough workers
  count as active, or that go to a thread which cannot use them;
- one libmodbus context for all connections; a bank that is read before it is
  there; a `readAll` that locks four times;
- a byte stream on which two threads read and write in pieces.

`PROJECT.json` lists these hazards one by one, each at its line, with the
properties that answer it.

## 2. Modules

Three models that share no state; each is a chain of `EXTENDS`.

### The server process

| module | models |
|---|---|
| `Worker` | Worker.cpp. A thread is a program counter `pc[w]`; `joinable` is a different thing, since `thread_` is assigned after the thread has begun to run. `ResumeAt` says where a thread goes on when SIGUSR1 interrupts its system call. |
| `Descriptors` | the numbers that workers keep (`fd`), the sockets that numbers denote (`file`), and the socket on which a thread sleeps (`waitsOn`), which may be another by the time the number is |
| `ThreadDeleter` | the reaper's loop; its queue is a sequence that `HandoverQueue` justifies (below) |
| `BaseServer` | the two sets and their locks |
| `Connection` | both `run__`: each system call is two places, one before it and one asleep in it, so that a signal can arrive on either side; which error codes are looked at and which are overwritten |
| `Acceptor` | both accept loops, and `Worker::run` in three steps: the flag, the thread, the assignment to `thread_` |
| `MbServer` | `main`; the SIGINT handler step by step, one for each thread (`hPc[t]`, `hOn[t]`, `hCur[t]`), which does nothing else meanwhile; the clients; composes the threads into `Spec` |
| `WorkerPool` | the promise: a connection is admitted, serves, retires, and is reaped once; only one that retires after closing began may be abandoned |
| `ServerProperties` | the properties, and the refinement mappings onto `WorkerPool` and, for `threads_`, onto `HandoverQueue` |
| `MCMbServer` | values for TLC, and `Serving`, in which `main` has started its workers and waits |
| `ServerProofs` | theorems about the threads and the life of connections |
| `DescriptorProofs` | theorems about the numbers |
| `QuietProofs` | the theorem about the process before any SIGINT |

Undefined behaviour (use of a deleted object, a dangling iterator,
`pthread_kill` without a thread) and `std::terminate` are modelled by a variable
`fault` that names what happened; the process does nothing after that. The
properties then say in which situations a fault can occur, and so that it can
occur in no other.

### BlockingCollection

| module | models |
|---|---|
| `Containers` | the queue, stack and priority containers: at which end, and where among equals, an element goes in and comes out |
| `ConditionVariable` | one of the two condition variables with its signal strategy: who sleeps, the counts of attached and of active workers, when a signal is sent and when it is spared. Instantiated twice, as `NotEmpty` and `NotFull`. |
| `BlockingCollection` | every operation, as a call that a thread begins (`Add`, `Take`), sleeps in, and resumes (`AddResume`, `TakeResume`), and the control operations. A call between two waits is one step, since the code holds the collection's lock for exactly that long. |
| `BoundedBuffer` | the promise about the elements: at most `Capacity`, handed out in the order of the container's kind |
| `Subsequences` | `Kept`, what stays of a sequence, as a recursive function that a proof can unfold; both sides of the refinement use it |
| `HandoverQueue` | the promise about the calls, for one consumer: what `ThreadDeleter` relies on. The collection implements it (`deleter_queue`, `DeleterHasAQueue`), and the server uses it so (`two_connections`, `ServerUsesHandover`): the two models meet here. |
| `CollectionProperties` | the properties, and the mapping onto `BoundedBuffer` |
| `DeleterQueue` | the calls `ThreadDeleter` makes, and the mapping onto `HandoverQueue` |
| `Pipeline` | producers and consumers that attach themselves with the guards and loop with the iterator |
| `MCCollection`, `MCPipeline` | values for TLC |
| `ContainerProofs` | lemmas about the containers: what each operation returns, in which order its result stands |
| `CollectionProofs`, `PipelineProofs` | the theorems about the collection, and about its use with guards |

The condition variables may wake a thread spuriously (`WakeUp`), and a notified
thread returns to the lock in competition with every newcomer: between the
notification and the resumption other threads' calls take place.

### Registers, protocol and client

| module | models |
|---|---|
| `Registers`, `RegisterProperties`, `MCRegisters` | the creation of the bank, `handleModbusRequest` and the read functions, down to single registers, with and without the lock |
| `AtomicBank` | the promise about tables: a write sets a whole table at one instant, a reader gets each as it was at one instant; `readAll` promises no more, since it locks once per table |
| `RegisterProofs` | the theorems about the bank |
| `Wire` | the encoding of requests and responses at both ends, as sequences of bytes; `htons` and the 16-bit truncation of a register number are done, not assumed |
| `Client`, `ClientProperties`, `MCClient` | `mbclient`'s commands, those that are refused or end the process included, its loop and its socket, against a `TcpConnection` that answers |
| `ClientProofs` | what the operators of `Wire` compute, and the theorems about the client |

Correspondence with the code: one action is what a thread does between two
points at which another thread can intervene, and is named after the function or
the statement it stands for; the comment above it says which. Operators whose
comment begins with "Mutation" are not part of the model. They are plausible
errors in the operator that follows, and `PROJECT.json` says which property
each of them breaks.

## 3. Modelling decisions

- **SIGINT interrupts any thread** of `SignalThreads`; the theorems hold for any
  such set. A thread handles one at a time, since SIGINT is blocked in it
  meanwhile; another thread may handle the next. If the thread sleeps in a
  system call, that returns `EINTR` once the handler has run. Two threads in a
  `std::set` of which one changes it are undefined behaviour: `StopRaces` is
  the failure, and the other steps are what happens when nothing fails.
- **A descriptor is a number that denotes a socket.** `CloseSocket` closes what
  the number denotes by then; Boost's objects forget the number, the two Modbus
  classes do not. `OpenSocket` takes any free number, where the kernel takes the
  lowest, since the process has other files; of the numbers that no worker keeps
  any more, one stands for all (`NewNumbers`). When none is left, `accept` fails
  and its loop goes round. A thread that sleeps in a system call sleeps on the
  socket it entered the call with.
- **Freed memory is not reused.** A connection object's address is used once,
  so `Conns` bounds the number of connections in a behaviour. It also orders
  the addresses, because `std::set<Worker *>` iterates in that order.
- **A server's `stop__` may close a socket that is not there yet**;
  `CloseSocket` then closes nothing, and the set-up opens it afterwards.
- **`main` destroys its objects at once**, where the code destroys `td`, `s2`
  and `s1` one after the other.
- **A fault ends the behaviour.** After undefined behaviour nothing is assumed,
  so nothing is claimed either.
- **Requests are opaque in `Connection`**: whether bytes came, an error was
  returned, or the thread was interrupted. Their contents are in `Wire`, their
  effect on the bank in `Registers`.
- **libmodbus is external.** `modbus_receive` returns a request, or fails, on a
  lost connection or after its timeout; `modbus_reply` writes the registers of a
  table one after the other.
- **A register holds the number of the write that set it** in `Registers`, which
  tells every two writes apart; in `Wire` it has the value `run__` gives it.
- **The bank's tables are filled without a lock**, so another thread may see the
  initial values in any order.
- **`ReadOneNull` is one step without the lock's owner**: reading one register
  holds the lock for one access, which no other thread can come between.
- **The client's TCP stream** is two sequences of bytes. A read returns what is
  there, up to what is still needed. When the server's end goes, what is under
  way may or may not still arrive; when the client closes the socket under a
  read that sleeps, that read goes on sleeping until something comes.
- **`connect` is not typed while the loop sleeps in a read.** What Boost does
  with a socket that is opened anew under a read depends on its reactor.
- **A thread whose number has been given away** reads from, or waits on, a
  socket of another worker (`Handle`, `Select`); what it does there to that
  socket's bytes is not followed, since requests are opaque in `Connection`.
- **Words are what they lead to.** A number is an `Int` that the encoding cuts
  to 16 bits; `ReadNoNumber`, `ConnectUnresolved` and `Refuse` stand for the
  words at which `std::stoi` or `resolve` throws, or that are refused. `connect`
  with a word missing reads past the end of a vector (`ConnectTooShort`): the
  process faults, throws, or connects to nothing.

## 4. Runs

Every action and every disjunct of the next-state relations occurs in one of the
passing runs. Deadlock is checked in all of them but two: in `attached_workers`
the threads stop when they have left their guards, and `process` has a state
in which every thread sleeps for ever (section 7, the start-up hang).

| run | configuration | shows |
|---|---|---|
| `process` | Process.cfg | From the first statement of `main`, with one connection, at either server, and a SIGINT on `main`'s thread: `TypeOK`, `OutlivesItsThread`, `StoppedLast`, `QuietProcess`, `MissingThread`, `DeletedIsUnused`, `BoostKeepsItsSocket`, `NumbersAccountedFor`; the process implements `WorkerPool`. |
| `two_connections` | TwoConnections.cfg | Two connections of one server: `ReapedOnce`, `NoneLost`, `StopRace`; `threads_` is used as a `HandoverQueue`. |
| `process_liveness` | ProcessLiveness.cfg | Two SIGINTs on the connection's and the ModbusServer's threads, whose handlers may overlap: `MissingThread`, `StopRace`, `DepartedIsReaped`, `StoppedLeaves`, `InterruptEndsProcess`. |
| `priority_calls` | PriorityCalls.cfg | Every call in every form, on a priority collection of three, against flush, pulse, deactivation, completion and attached consumers: `CollectionTypeOK`; `ImplementsBuffer`, that is, it implements `BoundedBuffer`, and each take hands out, from the end its caller asked for, as many elements as it asked for or all there are. |
| `wakeups` | Wakeups.cfg | Four threads, every call that may sleep, single, bulk and timed, against flush, pulse, deactivation and completion: `ClosedWakesAll`; `TakersLostOnlySo` and `AddersLostOnlySo` name every way in which a call is left asleep beside its element or its room. |
| `deleter_queue` | DeleterQueue.cfg | The collection as `ThreadDeleter` uses it implements `HandoverQueue`, liveness included. |
| `attached_workers` | AttachedWorkers.cfg | Two producers and two consumers in guards: `ActiveAreAwake`, `NeverAllAsleep`, `EveryItemTaken`, `LoopsEnd`. |
| `shared_bank` | SharedBank.cfg | `RegTypeOK`, `OwnSocket`, `NeverBackwards`, `BankFound`, `LockReleased`; the bank implements `AtomicBank`. |
| `client_calls` | ClientCalls.cfg | `ClientTypeOK`, `InStep`, `ShownIsAsked`, `CallsEnd`, `StopStops`. |
| `prio_bulk_take`, `stack_order`, `stop_too_soon` | PrioBulkTake.cfg, StackOrder.cfg, StopTooSoon.cfg | the counterexamples of section 7 |

### Bounds, and why they are enough

- **Process.** The races of a single connection are between its thread, its
  server, the deleter, `main` and a handler; all are there with `Conns = {1}`,
  at either server, and `Numbers` has one for each socket, so that a number is
  reused as soon as it is free. In `process` and `two_connections` the handler
  runs on `main`'s thread, which has nothing else to do. A second SIGINT finds
  joined threads, closed sockets and sets half cleared, and overlaps the first:
  `process_liveness`, which begins at `Serving`, has both, one on each of two
  threads or both on one. There the handler runs on threads that the signals
  themselves wake: that of the connection, which then cannot go on to leave its
  loop, and that of the ModbusServer, which cannot accept meanwhile and is not
  in the way of the connection, as `main` is not. Its single connection shows that a
  thread leaves, not that it gets a lock which another connection's thread holds
  while it waits. Two connections are what
  contend for `connsetMutex` and the queue and make the handler's iterator move
  from one node to another; that run begins at `Serving` too, and has one
  SIGINT. Two Modbus connections stand for two of either kind: `BaseServer`,
  where they meet, does not distinguish them. The numbers are interchangeable, and no property of `process` and
  `two_connections` asks for a particular one or is about liveness, so that
  `SYMMETRY` is sound there. The theorems of section 6 have none of these
  bounds.
- **BlockingCollection.** Three elements. `priority_calls` has room for all of
  them and two priorities, so that two of equal priority can lie beside one of
  another, and both which is taken and from where it is missing show; bulk calls
  are of 0 and of 2, so that one may find less than it asks for. Two threads,
  one that adds and one that takes: the order of the elements does not depend on
  who waits, and `wakeups`, with four threads, is about that. Producers are not
  attached in this run, since the two condition variables are alike
  (`attached_workers` attaches both kinds). `Capacity = 9` with
  `SizeMax = 9` is the unbounded collection. `ItemsPerThread` bounds the
  elements that one thread adds. Four threads give two sleepers and two others;
  a notification can be used up by a newcomer. In `wakeups` the threads may all
  make the same calls, and are interchangeable (`SYMMETRY`); its properties
  speak of single states and steps, and of no particular thread, so that
  symmetry is sound.
- **Registers.** Tables of two registers can be torn; two Modbus threads can
  confuse the sockets; two writes, one to each table, can be seen in the wrong
  order.
- **Client.** Tables of two registers make the response to `READ_ALL` 32 bytes,
  sent in eleven writes. `Numbers` has 1 and 2, the last register and the first
  number beyond it; every number takes the path of one or the other. `Named` has
  one table of bytes and one of words. `MaxCommands = 3` suffices for connect,
  start and one more; `MaxStray` bounds the requests that are answered after
  calls have overlapped, when anything may be left over in the stream. What is
  written arrives in pieces of any length as long as calls have not overlapped
  (`Pieces`): the four bytes of a size may come one by one. Afterwards, where
  nothing is claimed but in the counterexample of SharedSocket.cfg, each write
  arrives whole. `Window = 4` is less than any response with a value in it, so
  that the server waits for its reader.

## 5. Fairness

- **Process.** Weak fairness of every worker's thread, be it at its own work or
  in a handler, and of a handler on `main`: the operating system schedules them,
  and none of them waits for another outside the modelled locks and sleeps.
  While a handler runs on a thread, the thread's own steps are disabled, and
  fairness brings the handler to its end. None is assumed of clients, which may
  be silent for ever, of SIGINT, or of `main`, except in `InterruptEndsProcess`,
  whose premise it is. `StoppedLeaves` and `DepartedIsReaped` thus do not hold
  just because `main` ends the process. A thread that sleeps in a system call
  has no step of its own enabled until its client goes or a signal comes, so
  fairness does not wake it.
- **Collection.** `FairCollection`: a thread that is awake in a call, because it
  was notified or woke up, gets the lock again. `FairPipeline`: a thread inside
  its guard goes on; whether it breaks out is its own affair.
- **Registers.** TCP threads go on with what they have begun, and a Modbus
  thread with its reply. That a request arrives is up to the client; that
  `modbus_receive` gives up on an incomplete one is libmodbus's response
  timeout, and has a fairness condition of its own.
- **Client.** Both threads and the server go on. The user need not type, and
  the server need not go.

## 6. Proofs

Twenty-nine theorems hold for every value of the constants that their hypotheses
allow.

The server process, from `WorkerAssumption` (addresses are nonzero numbers, the
three other workers are distinct and no numbers), `NumbersAssumption` (no
descriptor is the null value) and `BoundsAssumption` (`main` is not a worker,
the bounds have their types):

| module | theorem | says |
|---|---|---|
| `ServerProofs` | `TypeCorrect` | `Spec => []TypeOK` |
| | `DeleterStopsLast` | `Spec => []StoppedLast` |
| | `EachReapedOnce` | `Spec => []ReapedOnce` |
| | `NoWorkerLost` | `Spec => []NoneLost` |
| | `NoUseAfterDelete` | `Spec => []DeletedIsUnused` |
| | `JoinedBeforeDeleted` | `Spec => []OutlivesItsThread` |
| | `ServerImplementsPool` | `Spec => ImplementsPool`, that is, `Spec` implements `WorkerPool` |
| | `ServerUsesHandover` | `Spec => UsesHandover` |
| | `StopFailsInNamedRaces` | `Spec => []StopRace` |
| | `SignalsMissOnlyThen` | `Spec => []MissingThread` |
| `DescriptorProofs` | `BoostSocketsSafe` | `Spec => []BoostKeepsItsSocket` |
| | `OnlyModbusLeaks` | `Spec => []NumbersAccountedFor` |
| `QuietProofs` | `QuietUntilInterrupted` | `Spec => []QuietProcess` |

None of the properties is inductive. The argument has layers:

1. `TInv`: the types, and that a server which is starting a connection knows
   which. Everything else needs the types to tell whose step it was.
2. `MainInv` with `NewConnInv`: `main` is in its program where the threads say
   it is. A server that `main` has waited for is dead, and a dead server starts
   no connection. This gives `StoppedLast`.
3. `CInv` adds the life of a connection, in four parts: `LifeInv` (a thread is
   born between two particular steps of its server, and an object is deleted
   only after its thread handed it over), `SetsInv` (a set has only its own
   connections, none of which has deregistered), `HandsInv` (`ReapedOnce`,
   `NoneLost`, and that the deleter holds a worker exactly at two of its
   places) and `JoinInv` (a thread is joinable from the end of `run` to the
   deleter's `wait`; the exception, `BeingAssigned`, is the race in which the
   deleter overtakes `run`). This gives the properties of connections,
   and makes each step of `Spec` one of `WorkerPool` or a stutter. For
   `HandoverQueue` the types and `MainInv` suffice: the steps that touch the
   queue are few.
4. `FInv` adds `WalkInv`, for each handler: the connection it is at was in the
   set when the loop reached it, and has left it by deregistering or because
   another handler emptied the set; and `ActiveInv`: two handlers take two
   SIGINTs. This gives the races in which stopping fails.
5. `FdInv` is about the one handler there is before the second SIGINT: a worker
   it has not come to yet (`Intact`), or whose socket Boost owns, keeps a number
   that denotes its own socket; so what the handler closes is what it means to
   close. `AccountInv` is about the time before the first: who has a number, and
   that the table and the numbers match (`Matched`). What counts there is that
   the deletion of a TcpConnection gives its number back.
6. `ServingInv` is about that time too: a server that has accepted a client
   stays in its loop, since nothing clears its flag, so that `main` destroys
   nothing in use. The faults are then gone through thread by thread, and
   `AccountInv` says that the sockets they ask about are open.

To keep the case analysis readable, the lemmas `ConnectionKinds`,
`AcceptorKinds`, `ClientKinds` and `HandlerKinds` first reduce the many actions
of a thread to a few kinds (it moves, it fails, it deregisters, ...); each
invariant is then preserved kind by kind, and `Aside`, `MainFrame` and
`WalkFrame` say what the steps that do not matter to an invariant leave alone.

The register bank, from `RegistersAssumption` (there are registers, and the
threads are of two kinds):

| module | theorem | says |
|---|---|---|
| `RegisterProofs` | `BankTypeCorrect` | `RegSpec => []RegTypeOK` |
| | `AnswersOwnClient` | `RegSpec => []OwnSocket` |
| | `ReadAllGoesForward` | `RegSpec => []NeverBackwards` |
| | `NullOnlyWithoutBank` | `RegSpec => []BankFound` |
| | `TablesAreAtomic` | `RegSpec => ImplementsAtomicBank` |

They all come from one invariant, `RegInv`. `RegTypeOK` says that whoever serves
a request or copies a table has `ctxMutex`, so that it is one thread
(`OneHolder`). `RequestInv` says that a write under way is the last one
numbered; `TableInv` that a table nobody writes holds one write throughout, and
the last one to that table; `CopyInv` that what has been copied of a table is
what the table still holds; `SeenInv`, which `NeverBackwards` needs, that the
holding registers, copied or not yet, are as late as the coils that have been
copied. `SetupInv` ties the mapping to the set-up's progress. For `AtomicBank` a
write counts when its last register is set, and a copy when its last register is
read.

The collection, from `ContainersAssumption` (a kind, and a priority for every
element), `CollectionAssumption` (which calls there are, and that the capacities
are numbers) and, for the guards, `PipelineAssumption` (a thread is a producer
or a consumer):

| module | theorem | says | supposes |
|---|---|---|---|
| `CollectionProofs` | `TypesAreKept` | `CollectionSpec => []CollectionTypeOK` | |
| | `ClosingWakesAll` | `CollectionSpec => []ClosedWakesAll` | |
| | `TakersAreLostOnlySo` | `CollectionSpec => TakersLostOnlySo` | `attach_consumer` is not used |
| | `AddersAreLostOnlySo` | `CollectionSpec => AddersLostOnlySo` | `attach_producer` is not used |
| | `KeepsThePromise` | `CollectionSpec => ImplementsBuffer` | the container is not a stack |
| | `DeleterHasAQueue` | `CollectionSpec => Handover!HandoverSafety` | a queue, called and completed as `ThreadDeleter` does |
| `PipelineProofs` | `CountedAreAwake` | `PipelineSpec => []ActiveAreAwake` | |
| | `NobodySleepsAlone` | `PipelineSpec => []NeverAllAsleep` | |

The hypotheses are what the code needs. With attached workers a notification may
be spared, so that an element lies beside a sleeping take while an attached
thread is awake elsewhere; what holds then is `NobodySleepsAlone`. A stack is
first in, first out (section 7), and breaks the promise. A flush, or a pulse,
would let a queue's consumer come back without an element.

1. A thread's operations come down to six kinds of steps (`ThreadStep`): it
   stores, sleeps until there is room, fetches, sleeps until there is an
   element, is refused, or times out. `AddSteps`, `AddResumeSteps`, `TakeSteps`
   and `TakeResumeSteps` say so of every call; all that follows goes through the
   kinds. They take the calls as a parameter, so that `Pipeline`, whose threads
   make calls of their own, uses them too.
2. `TypesOK` is the type invariant in parts, with what induction needs besides:
   the attached threads are finitely many, every waiting call is one that the
   library's interface allows, and a waiting take wants at least one element.
   `ClosedWakesAll` is inductive with it, since a thread looks at the state
   after every wait and before every sleep.
3. For the wakeups, `FewCalls` says that finitely many threads are in a call, so
   that `Cardinality` counts the woken ones, and `RoomIsWaitedFor` that nobody
   waits for room in an unbounded collection. A step is then followed through
   the counts: an add stores one element and wakes one, a take that was woken
   fetches one, and whoever falls asleep found nothing.
4. For the promise, `InArrivalOrder` is `Sorted(contents, arrivals)`: the
   container holds the elements that arrived and have not been handed out, each
   once, in the order in which they are handed out, that is by priority and
   among equals by arrival. `SortedPushAll` says that adding keeps it,
   `FirstAreTaken` and `LowestAreTaken` that what is taken from either end is
   ahead of all that stays, `SortedKept` that what stays is sorted.
5. For the guards, `PipelineOK` adds that a thread is attached exactly while its
   guard lives and calls only then, so that every sleeper is attached. A thread
   that falls asleep was awake and leaves the count, or the count is zero
   already; a notified one enters it; the last to leave hands over. Hence when
   all sleep the count is zero, and then `signal` is not spared.

`ContainerProofs` proves by induction what the recursive functions `PushAll`,
`WithoutLowest` and `Kept` compute. The induction theorems of the library take
an operator as their parameter, which the provers cannot instantiate; induction
over the set of numbers that have a property (`NumbersInduction`, `InductionUpTo`)
serves instead, with `Iteration` for the existence of the function.

The client, from `WireAssumption` (a table has 1 to 255 registers, so that the
numbers in it fit a byte; the code has ten) and `ClientAssumption` (the user
names tables and types integers, the bounds are numbers):

| module | theorem | says |
|---|---|---|
| `ClientProofs` | `ClientTypesAreKept` | `Spec => []ClientTypeOK` |
| | `EndsStayInStep` | `Spec => []InStep` |
| | `WhatIsShownWasAsked` | `Spec => []ShownIsAsked` |

1. The server sends a response as a sequence of writes, and the client reads it
   as sequences of bytes that no write's end need coincide with. `Spells(w, b)`
   says that the writes `w` send the bytes `b`, by the places where `b` is cut;
   `SpellsTail` is what is left after one write, `SpellsBoth` puts two sequences
   of writes together. With it `OneRegisterIs`, `WholeTableIs` and
   `EverythingIs` say of every response that it spells its own length, in four
   bytes, and that many bytes more, and what `decodeResponse` makes of these.
   `MessageExists` is the conclusion: every legal request has a payload which
   fits its size and shows the registers asked for.
2. `Stage` says where a call is: the request is under way; or there is a payload
   `b` such that what has been read, what is under way and what the server has
   still to write make its size and `b`; or make `b`, the size having been read
   and the payload's length being what the thread waits for. `Served`,
   `Delivered`, `PartRead`, `SizeRead`, `DataRead` and `Lost` take a call from
   stage to stage, for any split of the bytes and for the end of the connection
   at any moment.
3. `StreamInv` says that, as long as no two calls have overlapped, at most one
   thread is in a call, that call is in its stage, and without a call nothing is
   under way. `InStep` needs it to be inductive: that nothing is left over after
   a call follows only from what was promised about the bytes when it began.
   `AskInv` adds that each request is one the server answers (`Legit`), that
   there is no loop besides the one that is joinable, and that `main` never asks
   for everything; `ReadInv` that a read is not over yet. `ClientInv` is their
   conjunction with the types and `ShownIsAsked`.
4. Most commands of the user touch neither the connection nor a call
   (`QuietStep`); `KeepsAnew` is for those that close or open the socket,
   `ServerStep` for the server's, `CallStepKeeps` for the steps of a call.

Only model-checked: all liveness, which needs `ENABLED` and is beyond the
prover, and so the liveness of `HandoverQueue`, of `LockReleased` and of the
client's calls. Every invariant and every action property that a passing run
checks is a theorem.

## 7. Where the code and its documents part

Each of these runs checks one statement of a document and fails.

- **`try_take_prio_bulk` wakes nobody** (`prio_bulk_take`). It removes elements
  and, unlike its siblings, does not call `signal` (BlockingCollection.h:1734).
  An add that waits for room sleeps on in a collection that is not full.
  BlockingCollection.h:786: "a call to Add may block until space is available to
  store the provided item".
- **`BlockingStack` is first in, first out** (`stack_order`).
  `StackContainer` adds at the front (483) and takes at the back (470);
  BlockingCollection.h:1822 says "a last-in first-out (LIFO)".
- **`stop` may never return** (`stop_too_soon`). If the new thread runs only
  after `stop` has cleared `running`, it sets it again (mbclient.cpp:362), and
  the `join` waits for a loop that nobody will end. readme.txt:18: "stop - stops
  the reading".

Further configurations, each of which has a counterexample too and is kept to
reproduce it:

| configuration | module, property | what happens |
|---|---|---|
| BulkTake.cfg, BulkAdd.cfg | `MCCollection`, `AddWaitsForSpace`, `TakeWaitsForItem` | a bulk operation makes room for several, or has several to offer, and wakes one |
| FlushedRoom.cfg | `MCCollection`, `AddWaitsForSpace` | `flush` makes room and wakes nobody |
| TimedTake.cfg | `MCCollection`, `TakeWaitsForItem` | a take that is notified as its time ends reports a timeout, and the notification is lost |
| PulsedTake.cfg | `MCCollection`, `PulsedProceeds` | after a pulse that finds nobody waiting the collection stays pulsed, and operations that have to wait give up |
| ByteReport.cfg | `MCClient`, `ReportIsBytesRead` | the loop reports the size announced, not the bytes that came (readme.txt:17) |
| NumberWraps.cfg | `MCClient`, `OnlyRegistersShown` | `read coil 65536` shows register 0, since the number is cut to 16 bits (mbclient.cpp:117), against the comment at mbclient.cpp:316 |
| SharedSocket.cfg | `MCClient`, `ReadWhileLooping` | a `read` beside the running loop shows bytes of the loop's response |

`TakersLostOnlySo` and `AddersLostOnlySo` say that the wakeups of a collection
are lost in these ways and in no other: by bulk calls, `takePrioBulk`, `flush`,
and woken calls that give up. `InStep` and `ShownIsAsked` are stated for calls
that have not overlapped on the present connection, and `ShownIsAsked` for
responses that came whole and for numbers of at most 16 bits (`IsSent`):
negative ones are sent as large ones and refused, larger ones wrap around. For
those it compares with the number typed, not with the one sent: what is shown
is that register, and nothing if there is none.

What the properties of the server name as its races:

- a connection thread that is reaped before `run` has assigned `thread_`
  (`OutlivesItsThread`, `QuietProcess`);
- a connection that deregisters while a handler walks the set, and two handlers
  that walk it at once (`StopRace`);
- a signal to a thread not yet assigned or already joined (`MissingThread`);
- a client that resets its connection before the first statement of
  `TcpConnection::run__` (`QuietProcess`);
- a TCP client that asks before the bank exists (`BankFound`);
- a reaped `ModbusConnection`, whose descriptor stays open, as its
  destructor does nothing (ModbusConnection.cpp:16): `NumbersAccountedFor` says
  that a reaped `TcpConnection` leaves none;
- a second SIGINT, which closes the numbers of `ModbusServer` and of
  `ModbusConnection` again (ModbusConnection.cpp:44), by then perhaps another's:
  `BoostKeepsItsSocket` holds up to the first, and `StoppedLeaves` excepts a
  connection whose number has been given away (`Reused`).

What no property denies, because the code does it or the model stops there:

- connection threads that use a server `main` has destroyed, and workers that
  are refused by a completed queue: `ImplementsPool` lets a worker that retires
  after closing began be abandoned, and `NoneLost` speaks of the time before;
- two threads in one `std::set` at once: the fault ends the behaviour, and
  `StopRace` is about the other faults of `stopConnections`;
- the wait for the first byte of a request after a signal, which has no time
  limit and holds `ctxMutex`: `LockReleased` is about requests that have begun,
  and the liveness of the process about one connection;
- what the client shows after an overlap, or of a response that was cut short;
- a `disconnect` beside a read that sleeps: the loop's is covered by
  `StopStops`, and `CallsEnd` cannot meet one, since the commands come from the
  thread whose calls they would be.

**The start-up hang.** A SIGINT between the set-ups of the two servers closes
the ModbusServer's listener and leaves it its number, which the TcpServer's
acceptor may then get; the ModbusServer, if it has looked at its flag but not
called `accept` when SIGUSR1 comes, goes to sleep in `accept` on that socket,
and nobody signals it again. `main` waits for it for ever. This is the deadlock
of `process`; the liveness properties are checked from `Serving`, after the
set-ups.

Seen while reading, with no run of their own: readme.txt:11 says registers
"1...10", mbclient.cpp:316 "0...9"; "read all", which a comment offers
(mbclient.cpp:321), is refused as "too few args" (mbclient.cpp:325); a second
`start` without a `stop`, and the end of `main` with the loop running, terminate
`mbclient`, which `Client` has as the fault `"joinable thread"`; a
`ModbusConnection` that is stopped twice closes its descriptor's number twice
(ModbusConnection.cpp:44).

## 8. What is not modelled

- **The Windows half of BlockingCollection.h** (critical sections, SRW locks):
  alternatives to the standard library's primitives with the same meaning, not
  compiled on Linux.
- **The order of destruction at the end of `main`**: its three objects go in one
  step. A thread that uses one of them afterwards fails either way; in between
  it would depend on which of them it uses.
- **`SIGUSR1`'s own handler**, which does nothing but make calls return.
- **What Boost does with a socket opened anew under a read**; see section 3.
- **Formatting, logging, build files.**

## 9. Plan

The order puts what can corrupt memory first, then what can lose work, then
what can show wrong data.

1. *Done.* Server process: `Worker`, `ThreadDeleter`, `BaseServer`,
   `Connection`, `Acceptor`, `MbServer`, the promise `WorkerPool`, runs and
   proofs.
2. *Done.* `BlockingCollection` with its containers and condition variables,
   the promises `BoundedBuffer` and `HandoverQueue`, and `Pipeline`.
3. *Done.* `Registers`; `Wire` and `Client`.
4. *Done.* Descriptors and their reuse; SIGINT on any thread, overlapping
   handlers; `mbclient`'s failing inputs; lost wakeups of every kind of call
   named; the promise `AtomicBank`; `threads_` as a `HandoverQueue` from both
   sides. `DescriptorProofs`, `QuietProofs` and `RegisterProofs`.
5. *Done, proofs.* `ContainerProofs`, `CollectionProofs`, `PipelineProofs`: the
   safety properties of the collection for every number of threads and
   elements, its promise `BoundedBuffer`, and `HandoverQueue` for `threads_`.
6. *Done, proofs.* `ClientProofs`: the types of `Client`, and `InStep` and
   `ShownIsAsked` from the shape of the responses in `Wire`.
