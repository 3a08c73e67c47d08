-------------------------- MODULE CollectionProofs --------------------------
(***************************************************************************)
(* Proofs about a BlockingCollection: its types, that closing it wakes     *)
(* everybody up, in which ways an element or room comes to lie beside      *)
(* sleeping calls, and that it hands its elements out in the right order.  *)
(*                                                                         *)
(* A thread's operations come down to six kinds of steps; each proof is    *)
(* about these and about the few operations that have no caller.           *)
(***************************************************************************)
EXTENDS DeleterQueue, ContainerProofs

(* The calls the library's interface lets a thread make. *)
ProperCalls ==
    {c \in CallTypes :
        /\ c.op \in {"add", "take", "takePrio"} => c.count = 1
        /\ c.op \in {"takePrio", "takePrioBulk"} => Kind = "priority"}

Of(t, c) == c \in ProperCalls /\ call[t] \in {NoCall, c}
Open == ~isAddingCompleted /\ state # "Deactivated"

(* The steps of thread t that makes the calls C. *)
StoreStep(t, C) == \E c \in C : c.op \in Adds /\ Of(t, c) /\ Open /\ Store(t, c)

AddSleep(t, C) == \E c \in C : c.op \in Adds /\ Of(t, c) /\ Open /\ SleepNotFull(t, c)

FetchStep(t, C) ==
    \E c \in C : c.op \in Takes /\ c.count # 0 /\ Of(t, c) /\ Fetch(t, c)

TakeSleep(t, C) ==
    \E c \in C :
        c.op \in Takes /\ c.count # 0 /\ Of(t, c) /\ Open /\ IsEmpty /\ SleepNotEmpty(t, c)

(* The call changes nothing; if it had waited, the thread learns why. *)
Refusal(t) ==
    \E s \in Statuses \ {"none"} : (call[t] # NoCall => s # "Ok") /\ Refuse(t, s)

Expiry(t) ==
    /\ call[t].wait = "timed"
    /\ Expire(t)
    /\ \/ call[t].op \in Adds /\ NotFull!TimedOut /\ UNCHANGED notEmptyVars
       \/ call[t].op \in Takes /\ NotEmpty!TimedOut /\ UNCHANGED notFullVars

ThreadStep(t, C) ==
    /\ t \notin sleepingTakers \cup sleepingAdders
    /\ \/ StoreStep(t, C) \/ AddSleep(t, C) \/ FetchStep(t, C) \/ TakeSleep(t, C)
       \/ Refusal(t) \/ Expiry(t)

(* A thread attaches or detaches itself; Register says when it may. *)
Registration(t) ==
    /\ \/ (NotEmpty!Attach(t) \/ NotEmpty!Detach(t)) /\ UNCHANGED notFullVars
       \/ (NotFull!Attach(t) \/ NotFull!Detach(t)) /\ UNCHANGED notEmptyVars
    /\ UNCHANGED <<dataVars, stateVars, callVars>>

-----------------------------------------------------------------------------
(* The types, part by part. *)
DataOK == contents \in Seq(Items) /\ arrivals \in Seq(Items)

StateOK == state \in {"Activated", "Deactivated", "Pulsed"} /\ isAddingCompleted \in BOOLEAN

(* Attached threads are finitely many, since they attach one by one. *)
Counted(attached, active) ==
    attached \subseteq Threads /\ IsFiniteSet(attached) /\ active \in 0 .. Cardinality(attached)

CountsOK == Counted(consumers, activeConsumers) /\ Counted(producers, activeProducers)

CallsOK ==
    /\ call \in [Threads -> ProperCalls \cup {NoCall}]
    /\ returned \in Statuses
    /\ \A t \in Threads : call[t].op \in Takes => call[t].count # 0

SleepOK ==
    /\ sleepingTakers \subseteq {t \in Threads : call[t].op \in Takes}
    /\ sleepingAdders \subseteq {t \in Threads : call[t].op \in Adds}

TypesOK == DataOK /\ StateOK /\ CountsOK /\ CallsOK /\ SleepOK

(* Each thread makes the calls it is said to make. *)
Makes(calls) == \A t \in Threads : call[t] # NoCall => call[t] \in calls[t]

LEMMA TypesImplyTypeOK == TypesOK => CollectionTypeOK
  BY DEF TypesOK, DataOK, StateOK, CountsOK, Counted, CallsOK, SleepOK,
         CollectionTypeOK, ProperCalls

LEMMA CallsAreProper == \A t \in Threads : Calls[t] \subseteq ProperCalls
  BY CollectionAssumption DEF ProperCalls

LEMMA NoCallIsNone == NoCall.op \notin Adds /\ NoCall.op \notin Takes
  BY DEF NoCall, Adds, Takes

LEMMA OpsAreApart == Adds \cap Takes = {}
  BY DEF Adds, Takes

-----------------------------------------------------------------------------
(* The operations come down to the kinds of steps. *)
LEMMA AddSteps ==
    ASSUME SleepOK, NEW t \in Threads, NEW C, NEW c \in C \cap ProperCalls,
           c.op \in Adds, Add(t, c)
    PROVE  ThreadStep(t, C)
  <1>1. t \notin sleepingTakers \cup sleepingAdders /\ Of(t, c)
    BY NoCallIsNone DEF SleepOK, Add, Of
  <1>2. CASE \E s \in Statuses \ {"none", "Ok"} : Refuse(t, s)
    BY <1>1, <1>2 DEF ThreadStep, Refusal
  <1>3. CASE Open /\ Store(t, c)
    BY <1>1, <1>3 DEF ThreadStep, StoreStep
  <1>4. CASE Open /\ SleepNotFull(t, c)
    BY <1>1, <1>4 DEF ThreadStep, AddSleep
  <1> QED BY <1>2, <1>3, <1>4 DEF Add, AddLoop, StoreNothing, Open, Statuses

LEMMA AddResumeSteps ==
    ASSUME CallsOK, SleepOK, NEW t \in Threads, NEW C, call[t] # NoCall => call[t] \in C,
           AddResume(t)
    PROVE  ThreadStep(t, C)
  <1> DEFINE c == call[t]
  <1>1. c \in C \cap ProperCalls /\ c.op \in Adds /\ Of(t, c) /\ c # NoCall
    BY NoCallIsNone DEF CallsOK, AddResume, Of
  <1>2. t \notin sleepingTakers \cup sleepingAdders
    BY OpsAreApart DEF SleepOK, AddResume
  <1>3. CASE \E s \in Statuses \ {"none", "Ok"} : Refuse(t, s)
    BY <1>2, <1>3 DEF ThreadStep, Refusal
  <1>4. CASE Open /\ Store(t, c)
    BY <1>1, <1>2, <1>4 DEF ThreadStep, StoreStep
  <1>5. CASE Open /\ SleepNotFull(t, c)
    BY <1>1, <1>2, <1>5 DEF ThreadStep, AddSleep
  <1>6. CASE c.wait = "timed" /\ NotFull!TimedOut /\ Expire(t) /\ UNCHANGED notEmptyVars
    BY <1>1, <1>2, <1>6 DEF ThreadStep, Expiry
  <1> QED BY <1>3, <1>4, <1>5, <1>6 DEF AddResume, AddLoop, StoreNothing, Open, Statuses

LEMMA TakeSteps ==
    ASSUME SleepOK, NEW t \in Threads, NEW C, NEW c \in C \cap ProperCalls, c.op \in Takes,
           Take(t, c) \/ FetchNothing(t, c)
    PROVE  ThreadStep(t, C)
  <1>1. t \notin sleepingTakers \cup sleepingAdders /\ Of(t, c) /\ call[t] = NoCall
    BY NoCallIsNone DEF SleepOK, Take, FetchNothing, Of
  <1>2. CASE \E s \in Statuses \ {"none"} : Refuse(t, s)
    BY <1>1, <1>2 DEF ThreadStep, Refusal
  <1>3. CASE c.count # 0 /\ Fetch(t, c)
    BY <1>1, <1>3 DEF ThreadStep, FetchStep
  <1>4. CASE c.count # 0 /\ Open /\ IsEmpty /\ SleepNotEmpty(t, c)
    BY <1>1, <1>4 DEF ThreadStep, TakeSleep
  <1> QED BY <1>2, <1>3, <1>4 DEF Take, FetchNothing, TakeLoop, Open, Statuses

LEMMA TakeResumeSteps ==
    ASSUME CallsOK, SleepOK, NEW t \in Threads, NEW C, call[t] # NoCall => call[t] \in C,
           TakeResume(t)
    PROVE  ThreadStep(t, C)
  <1> DEFINE c == call[t]
  <1>1. c \in C \cap ProperCalls /\ c.op \in Takes /\ Of(t, c) /\ c # NoCall /\ c.count # 0
    BY NoCallIsNone DEF CallsOK, TakeResume, Of
  <1>2. t \notin sleepingTakers \cup sleepingAdders
    BY OpsAreApart DEF SleepOK, TakeResume
  <1>3. CASE \E s \in Statuses \ {"none", "Ok"} : Refuse(t, s)
    BY <1>2, <1>3 DEF ThreadStep, Refusal
  <1>4. CASE Fetch(t, c)
    BY <1>1, <1>2, <1>4 DEF ThreadStep, FetchStep
  <1>5. CASE Open /\ IsEmpty /\ SleepNotEmpty(t, c)
    BY <1>1, <1>2, <1>5 DEF ThreadStep, TakeSleep
  <1>6. CASE c.wait = "timed" /\ NotEmpty!TimedOut /\ Expire(t) /\ UNCHANGED notFullVars
    BY <1>1, <1>2, <1>6 DEF ThreadStep, Expiry
  <1> QED BY <1>3, <1>4, <1>5, <1>6 DEF TakeResume, TakeLoop, Open, Statuses

LEMMA ThreadSteps ==
    ASSUME TypesOK, Makes(Calls), NEW t \in Threads, Start(t) \/ Resume(t)
    PROVE  ThreadStep(t, Calls[t])
  <1>1. CASE Start(t)
    <2>1. PICK c \in Calls[t] : \/ c.op \in Adds /\ Add(t, c)
                                \/ c.op \in Takes /\ (Take(t, c) \/ FetchNothing(t, c))
      BY <1>1 DEF Start
    <2>2. c \in Calls[t] \cap ProperCalls
      BY CallsAreProper
    <2> QED BY <2>1, <2>2, AddSteps, TakeSteps DEF TypesOK
  <1>2. CASE Resume(t)
    <2>1. call[t] # NoCall => call[t] \in Calls[t]
      BY DEF Makes
    <2> QED BY <1>2, <2>1, AddResumeSteps, TakeResumeSteps DEF Resume, TypesOK
  <1> QED BY <1>1, <1>2

LEMMA NextSteps ==
    ASSUME TypesOK, Makes(Calls), CollectionNext
    PROVE  \/ \E t \in Threads : ThreadStep(t, Calls[t]) \/ WakeUp(t) \/ Register(t)
           \/ Control
  BY ThreadSteps DEF CollectionNext

-----------------------------------------------------------------------------
(* What is stored and what is fetched. *)
LEMMA AmountIs ==
    ASSUME DataOK, NEW c \in CallTypes, ~IsFull, c.count # 0
    PROVE  /\ Amount(c) \in Nat \ {0} /\ Amount(c) <= c.count
           /\ IsBounded => Len(contents) + Amount(c) <= Capacity
  <1>1. c.count \in Nat \ {0} /\ Len(contents) \in Nat /\ Capacity \in Nat
    BY CollectionAssumption DEF CallTypes, DataOK
  <1>2. CASE IsBounded
    <2> DEFINE room == Capacity - Len(contents)
    <2>1. room \in Nat \ {0} /\ room + Len(contents) = Capacity
      BY <1>1, <1>2 DEF IsFull
    <2>2. Amount(c) = Min({c.count, room})
      BY <1>2 DEF Amount
    <2> HIDE DEF room
    <2>3. Amount(c) = IF c.count <= room THEN c.count ELSE room
      BY <1>1, <2>1, <2>2, MinProperty
    <2> QED BY <1>1, <2>1, <2>3
  <1>3. CASE ~IsBounded
    BY <1>1, <1>3 DEF Amount
  <1> QED BY <1>2, <1>3

LEMMA StoreAdds ==
    ASSUME DataOK, NEW t, NEW c \in ProperCalls, c.op \in Adds, Store(t, c)
    PROVE  /\ contents' \in Seq(Items) /\ arrivals' \in Seq(Items)
           /\ \E n \in Nat \ {0} : /\ Len(contents') = Len(contents) + n
                                   /\ IsBounded => Len(contents) + n <= Capacity
  <1> DEFINE n == Amount(c)
  <1>1. c \in CallTypes /\ (c.op = "add" => c.count = 1) /\ ~IsFull /\ c.count # 0
    BY DEF ProperCalls, Store
  <1>2. n \in Nat \ {0} /\ n <= c.count /\ (IsBounded => Len(contents) + n <= Capacity)
    BY <1>1, AmountIs
  <1>3. PICK xs \in Chosen(c) : contents' = Stored(c, xs) /\ arrivals' = arrivals \o xs
    BY DEF Store
  <1>4. xs \in [1 .. n -> Items]
    BY DEF Chosen
  <1> HIDE DEF n
  <1>5. arrivals' \in Seq(Items)
    <2>1. xs \in Seq(Items)
      BY <1>2, <1>4
    <2> QED BY <1>3, <2>1, ConcatProperties DEF DataOK
  <1>6. contents \in Seq(Items)
    BY DEF DataOK
  <1>7. CASE c.op = "add"
    <2>1. n = 1 /\ xs[1] \in Items
      BY <1>1, <1>2, <1>4, <1>7
    <2>2. contents' = Emplace(contents, xs[1])
      BY <1>3, <1>7 DEF Stored
    <2>3. Emplace(contents, xs[1]) \in Seq(Items) /\ Len(Emplace(contents, xs[1])) = Len(contents) + 1
      BY <1>6, <2>1, EmplaceGrows
    <2> QED BY <1>2, <1>5, <2>1, <2>2, <2>3
  <1>8. CASE c.op # "add"
    <2>1. contents' = PushAll(contents, xs)
      BY <1>3, <1>8 DEF Stored
    <2>2. PushAll(contents, xs) \in Seq(Items) /\ Len(PushAll(contents, xs)) = Len(contents) + n
      BY <1>2, <1>4, <1>6, PushAllGrows
    <2> QED BY <1>2, <1>5, <2>1, <2>2
  <1> QED BY <1>7, <1>8

(* How many elements a take removes. *)
Fetched(c) == Min({c.count, Len(contents)})

LEMMA FetchedIs ==
    ASSUME DataOK, NEW c \in CallTypes, ~IsEmpty, c.count # 0
    PROVE  Fetched(c) \in Nat \ {0} /\ Fetched(c) <= Len(contents)
  <1>1. c.count \in Nat \ {0} /\ Len(contents) \in Nat \ {0}
    BY EmptySeq DEF CallTypes, DataOK, IsEmpty
  <1>2. Fetched(c) = IF c.count <= Len(contents) THEN c.count ELSE Len(contents)
    BY <1>1, MinProperty DEF Fetched
  <1> QED BY <1>1, <1>2

LEMMA FetchRemoves ==
    ASSUME DataOK, NEW t, NEW c \in ProperCalls, c.count # 0, Fetch(t, c)
    PROVE  /\ contents' \in Seq(Items) /\ arrivals' \in Seq(Items)
           /\ \E n \in Nat \ {0} : n <= Len(contents) /\ Len(contents') = Len(contents) - n
           /\ Len(contents') = Len(contents) - Fetched(c)
  <1> DEFINE n == Fetched(c)
  <1>1. c \in CallTypes /\ ~IsEmpty
    BY DEF ProperCalls, Fetch
  <1>2. n \in Nat \ {0} /\ n <= Len(contents)
    BY <1>1, FetchedIs
  <1>3. contents' = IF c.op \in {"takePrio", "takePrioBulk"}
                    THEN WithoutLowest(contents, n) ELSE WithoutFirst(contents, n)
    BY DEF Fetch, Left, Fetched
  <1>4. arrivals' \in Seq(Items)
    <2>1. arrivals' = Kept(arrivals, Elements(contents'))
      BY DEF Fetch
    <2>2. arrivals \in Seq(Items)
      BY DEF DataOK
    <2> DEFINE S == Elements(contents')
    <2> HIDE DEF S
    <2>3. Kept(arrivals, S) \in Seq(Items)
      BY <2>2, KeptIs
    <2> QED BY <2>1, <2>3 DEF S
  <1> HIDE DEF n
  <1>5. contents \in Seq(Items) /\ Len(contents) \in Nat
    BY DEF DataOK
  <1>6. WithoutLowest(contents, n) \in Seq(Items) /\ Len(WithoutLowest(contents, n)) = Len(contents) - n
    BY <1>2, <1>5, WithoutLowestShrinks
  <1>7. WithoutFirst(contents, n) \in Seq(Items) /\ Len(WithoutFirst(contents, n)) = Len(contents) - n
    <2>1. n \in 0 .. Len(contents)
      BY <1>2, <1>5
    <2> QED BY <1>5, <2>1, WithoutFirstIs
  <1>8. contents' \in Seq(Items) /\ Len(contents') = Len(contents) - n
    BY <1>3, <1>6, <1>7
  <1>9. Len(contents') = Len(contents) - Fetched(c)
    BY <1>8 DEF n
  <1> QED BY <1>2, <1>4, <1>8, <1>9

-----------------------------------------------------------------------------
(* What the operations of a condition variable leave of the counts and of  *)
(* the sleepers.  Both have a Cardinality of their own.                    *)
LEMMA SameCardinality ==
    /\ NotEmpty!Total = Cardinality(consumers)
    /\ NotFull!Total = Cardinality(producers)
  BY Zenon DEF NotEmpty!Total, NotFull!Total, NotEmpty!Cardinality, NotFull!Cardinality,
               Cardinality
LEMMA NotEmptyKeeps ==
    ASSUME Counted(consumers, activeConsumers), NEW t, NEW amount,
           \/ NotEmpty!Signal(amount) \/ NotEmpty!TimedOut \/ NotEmpty!Wake(t) \/ NotEmpty!Broadcast
           \/ NotEmpty!Wait(t) \/ UNCHANGED notEmptyVars
    PROVE  /\ consumers' = consumers /\ Counted(consumers, activeConsumers')
           /\ sleepingTakers' \subseteq sleepingTakers \/ NotEmpty!Wait(t)
  <1> DEFINE total == Cardinality(consumers)
  <1>1. total \in Nat /\ activeConsumers \in 0 .. total
    BY FS_CardinalityType DEF Counted
  <1>2. NotEmpty!Increment(activeConsumers, total) \in 0 .. total /\ NotEmpty!Decrement(activeConsumers) \in 0 .. total
    BY <1>1 DEF NotEmpty!Increment, NotEmpty!Decrement
  <1>3. consumers' = consumers
    BY DEF NotEmpty!Signal, NotEmpty!TimedOut, NotEmpty!Wake, NotEmpty!Broadcast, NotEmpty!Wait, notEmptyVars
  <1>4. activeConsumers' \in {activeConsumers, total, NotEmpty!Increment(activeConsumers, total), NotEmpty!Decrement(activeConsumers)}
    BY SameCardinality
       DEF NotEmpty!Signal, NotEmpty!TimedOut, NotEmpty!Wake, NotEmpty!Broadcast, NotEmpty!Wait, notEmptyVars
  <1> HIDE DEF total
  <1>5. activeConsumers' \in 0 .. total
    BY <1>1, <1>2, <1>4
  <1>6. sleepingTakers' \subseteq sleepingTakers \/ NotEmpty!Wait(t)
    BY DEF NotEmpty!Signal, NotEmpty!TimedOut, NotEmpty!Wake, NotEmpty!Broadcast, NotEmpty!NotifyOne, notEmptyVars
  <1> QED BY <1>3, <1>5, <1>6 DEF Counted, total

LEMMA NotEmptyRegisters ==
    ASSUME Counted(consumers, activeConsumers), NEW t \in Threads, NotEmpty!Attach(t) \/ NotEmpty!Detach(t)
    PROVE  Counted(consumers', activeConsumers') /\ sleepingTakers' \subseteq sleepingTakers
  <1>1. Cardinality(consumers) \in Nat /\ activeConsumers \in 0 .. Cardinality(consumers) /\ IsFiniteSet(consumers)
    BY FS_CardinalityType DEF Counted
  <1>2. CASE NotEmpty!Attach(t)
    <2>1. consumers' = consumers \cup {t} /\ sleepingTakers' = sleepingTakers
      BY <1>2 DEF NotEmpty!Attach
    <2>2. CASE t \in consumers
      <3>1. consumers' = consumers /\ activeConsumers' = activeConsumers
        BY <1>2, <2>2 DEF NotEmpty!Attach
      <3> QED BY <2>1, <3>1
    <2>3. CASE t \notin consumers
      <3>1. IsFiniteSet(consumers') /\ Cardinality(consumers') = Cardinality(consumers) + 1
        BY <1>1, <2>1, <2>3, FS_AddElement
      <3>2. activeConsumers' = NotEmpty!Increment(activeConsumers, Cardinality(consumers) + 1)
        BY <1>2, <2>3, SameCardinality DEF NotEmpty!Attach
      <3>3. activeConsumers' \in 0 .. Cardinality(consumers) + 1
        BY <1>1, <3>2 DEF NotEmpty!Increment
      <3>4. consumers' \subseteq Threads
        BY <2>1 DEF Counted
      <3> QED BY <2>1, <3>1, <3>3, <3>4 DEF Counted
    <2> QED BY <2>2, <2>3
  <1>3. CASE NotEmpty!Detach(t)
    <2> DEFINE remaining == IF t \in consumers THEN NotEmpty!Decrement(activeConsumers) ELSE activeConsumers
    <2>1. /\ consumers' = consumers \ {t} /\ sleepingTakers' \subseteq sleepingTakers
          /\ activeConsumers' = IF consumers' # {} /\ remaining = 0 THEN 1 ELSE remaining
      BY <1>3 DEF NotEmpty!Detach, NotEmpty!NotifyOne
    <2>2. IsFiniteSet(consumers') /\ Cardinality(consumers') \in Nat
          /\ Cardinality(consumers') = IF t \in consumers THEN Cardinality(consumers) - 1
                                                   ELSE Cardinality(consumers)
      BY <1>1, <2>1, FS_RemoveElement, FS_CardinalityType
    <2>3. remaining \in 0 .. Cardinality(consumers')
      BY <1>1, <2>2 DEF NotEmpty!Decrement
    <2>4. consumers' # {} => Cardinality(consumers') # 0
      BY <2>2, FS_EmptySet
    <2> HIDE DEF remaining
    <2>5. activeConsumers' \in 0 .. Cardinality(consumers')
      BY <2>1, <2>2, <2>3, <2>4
    <2>6. consumers' \subseteq Threads
      BY <2>1 DEF Counted
    <2> QED BY <2>1, <2>2, <2>5, <2>6 DEF Counted
  <1> QED BY <1>2, <1>3

LEMMA NotFullKeeps ==
    ASSUME Counted(producers, activeProducers), NEW t, NEW amount,
           \/ NotFull!Signal(amount) \/ NotFull!TimedOut \/ NotFull!Wake(t) \/ NotFull!Broadcast
           \/ NotFull!Wait(t) \/ UNCHANGED notFullVars
    PROVE  /\ producers' = producers /\ Counted(producers, activeProducers')
           /\ sleepingAdders' \subseteq sleepingAdders \/ NotFull!Wait(t)
  <1> DEFINE total == Cardinality(producers)
  <1>1. total \in Nat /\ activeProducers \in 0 .. total
    BY FS_CardinalityType DEF Counted
  <1>2. NotFull!Increment(activeProducers, total) \in 0 .. total /\ NotFull!Decrement(activeProducers) \in 0 .. total
    BY <1>1 DEF NotFull!Increment, NotFull!Decrement
  <1>3. producers' = producers
    BY DEF NotFull!Signal, NotFull!TimedOut, NotFull!Wake, NotFull!Broadcast, NotFull!Wait, notFullVars
  <1>4. activeProducers' \in {activeProducers, total, NotFull!Increment(activeProducers, total), NotFull!Decrement(activeProducers)}
    BY SameCardinality
       DEF NotFull!Signal, NotFull!TimedOut, NotFull!Wake, NotFull!Broadcast, NotFull!Wait, notFullVars
  <1> HIDE DEF total
  <1>5. activeProducers' \in 0 .. total
    BY <1>1, <1>2, <1>4
  <1>6. sleepingAdders' \subseteq sleepingAdders \/ NotFull!Wait(t)
    BY DEF NotFull!Signal, NotFull!TimedOut, NotFull!Wake, NotFull!Broadcast, NotFull!NotifyOne, notFullVars
  <1> QED BY <1>3, <1>5, <1>6 DEF Counted, total

LEMMA NotFullRegisters ==
    ASSUME Counted(producers, activeProducers), NEW t \in Threads, NotFull!Attach(t) \/ NotFull!Detach(t)
    PROVE  Counted(producers', activeProducers') /\ sleepingAdders' \subseteq sleepingAdders
  <1>1. Cardinality(producers) \in Nat /\ activeProducers \in 0 .. Cardinality(producers) /\ IsFiniteSet(producers)
    BY FS_CardinalityType DEF Counted
  <1>2. CASE NotFull!Attach(t)
    <2>1. producers' = producers \cup {t} /\ sleepingAdders' = sleepingAdders
      BY <1>2 DEF NotFull!Attach
    <2>2. CASE t \in producers
      <3>1. producers' = producers /\ activeProducers' = activeProducers
        BY <1>2, <2>2 DEF NotFull!Attach
      <3> QED BY <2>1, <3>1
    <2>3. CASE t \notin producers
      <3>1. IsFiniteSet(producers') /\ Cardinality(producers') = Cardinality(producers) + 1
        BY <1>1, <2>1, <2>3, FS_AddElement
      <3>2. activeProducers' = NotFull!Increment(activeProducers, Cardinality(producers) + 1)
        BY <1>2, <2>3, SameCardinality DEF NotFull!Attach
      <3>3. activeProducers' \in 0 .. Cardinality(producers) + 1
        BY <1>1, <3>2 DEF NotFull!Increment
      <3>4. producers' \subseteq Threads
        BY <2>1 DEF Counted
      <3> QED BY <2>1, <3>1, <3>3, <3>4 DEF Counted
    <2> QED BY <2>2, <2>3
  <1>3. CASE NotFull!Detach(t)
    <2> DEFINE remaining == IF t \in producers THEN NotFull!Decrement(activeProducers) ELSE activeProducers
    <2>1. /\ producers' = producers \ {t} /\ sleepingAdders' \subseteq sleepingAdders
          /\ activeProducers' = IF producers' # {} /\ remaining = 0 THEN 1 ELSE remaining
      BY <1>3 DEF NotFull!Detach, NotFull!NotifyOne
    <2>2. IsFiniteSet(producers') /\ Cardinality(producers') \in Nat
          /\ Cardinality(producers') = IF t \in producers THEN Cardinality(producers) - 1
                                                   ELSE Cardinality(producers)
      BY <1>1, <2>1, FS_RemoveElement, FS_CardinalityType
    <2>3. remaining \in 0 .. Cardinality(producers')
      BY <1>1, <2>2 DEF NotFull!Decrement
    <2>4. producers' # {} => Cardinality(producers') # 0
      BY <2>2, FS_EmptySet
    <2> HIDE DEF remaining
    <2>5. activeProducers' \in 0 .. Cardinality(producers')
      BY <2>1, <2>2, <2>3, <2>4
    <2>6. producers' \subseteq Threads
      BY <2>1 DEF Counted
    <2> QED BY <2>1, <2>2, <2>5, <2>6 DEF Counted
  <1> QED BY <1>2, <1>3

-----------------------------------------------------------------------------
(* The types are kept. *)
LEMMA ReturnKeeps ==
    ASSUME TypesOK, NEW t \in Threads, NEW s \in Statuses, Return(t, s),
           t \notin sleepingTakers \cup sleepingAdders,
           sleepingTakers' \subseteq sleepingTakers, sleepingAdders' \subseteq sleepingAdders
    PROVE  StateOK' /\ CallsOK' /\ SleepOK'
  <1>1. call' = [call EXCEPT ![t] = NoCall] /\ returned' = s /\ UNCHANGED stateVars
    BY DEF Return
  <1>2. StateOK'
    BY <1>1 DEF TypesOK, StateOK, stateVars
  <1>3. CallsOK'
    BY <1>1, NoCallIsNone DEF TypesOK, CallsOK
  <1>4. SleepOK'
    BY <1>1 DEF TypesOK, CallsOK, SleepOK
  <1> QED BY <1>2, <1>3, <1>4

LEMMA SleepKeeps ==
    ASSUME TypesOK, NEW t \in Threads, NEW c \in ProperCalls, c.op \in Takes => c.count # 0,
           call' = [call EXCEPT ![t] = c], returned' = returned,
           t \notin sleepingTakers \cup sleepingAdders,
           sleepingTakers' \subseteq sleepingTakers \cup {u \in {t} : c.op \in Takes},
           sleepingAdders' \subseteq sleepingAdders \cup {u \in {t} : c.op \in Adds}
    PROVE  CallsOK' /\ SleepOK'
  <1>1. CallsOK'
    BY DEF TypesOK, CallsOK
  <1>2. SleepOK'
    BY DEF TypesOK, CallsOK, SleepOK
  <1> QED BY <1>1, <1>2

LEMMA ThreadKeepsTypes ==
    ASSUME TypesOK, NEW t \in Threads, NEW C, ThreadStep(t, C)
    PROVE  TypesOK'
  <1>1. /\ DataOK /\ StateOK /\ Counted(consumers, activeConsumers)
        /\ Counted(producers, activeProducers)
        /\ t \notin sleepingTakers \cup sleepingAdders
    BY DEF TypesOK, CountsOK, ThreadStep
  <1>2. CASE StoreStep(t, C)
    <2>1. PICK c \in ProperCalls : c.op \in Adds /\ Store(t, c)
      BY <1>2 DEF StoreStep, Of
    <2>2. /\ NotEmpty!Signal(Len(contents'))
          /\ Return(t, "Ok") /\ UNCHANGED notFullVars
      BY <2>1 DEF Store
    <2>3. DataOK'
      BY <1>1, <2>1, StoreAdds DEF DataOK
    <2>4. Counted(consumers', activeConsumers') /\ Counted(producers', activeProducers')
      BY <1>1, <2>2, NotEmptyKeeps DEF notFullVars
    <2>5. sleepingTakers' \subseteq sleepingTakers /\ sleepingAdders' = sleepingAdders
      BY <2>2 DEF NotEmpty!Signal, NotEmpty!NotifyOne, notFullVars
    <2>6. StateOK' /\ CallsOK' /\ SleepOK'
      BY <1>1, <2>2, <2>5, ReturnKeeps DEF Statuses
    <2> QED BY <2>3, <2>4, <2>6 DEF TypesOK, CountsOK
  <1>3. CASE AddSleep(t, C)
    <2>1. PICK c \in ProperCalls : c.op \in Adds /\ SleepNotFull(t, c)
      BY <1>3 DEF AddSleep, Of
    <2>2. /\ NotFull!Wait(t) /\ call' = [call EXCEPT ![t] = c]
          /\ UNCHANGED <<dataVars, stateVars, notEmptyVars, returned>>
      BY <2>1 DEF SleepNotFull
    <2>3. DataOK' /\ StateOK'
      BY <1>1, <2>2 DEF DataOK, StateOK, dataVars, stateVars
    <2>4. Counted(consumers', activeConsumers') /\ Counted(producers', activeProducers')
      BY <1>1, <2>2, NotFullKeeps DEF notEmptyVars
    <2>5. sleepingTakers' = sleepingTakers /\ sleepingAdders' = sleepingAdders \cup {t}
      BY <2>2 DEF NotFull!Wait, notEmptyVars
    <2>6. CallsOK' /\ SleepOK'
      BY <1>1, <2>1, <2>2, <2>5, OpsAreApart, SleepKeeps
    <2> QED BY <2>3, <2>4, <2>6 DEF TypesOK, CountsOK
  <1>4. CASE FetchStep(t, C)
    <2>1. PICK c \in ProperCalls : c.count # 0 /\ Fetch(t, c)
      BY <1>4 DEF FetchStep, Of
    <2>2. /\ NotFull!Signal(Capacity - Len(contents')) \/ UNCHANGED notFullVars
          /\ Return(t, "Ok") /\ UNCHANGED notEmptyVars
      BY <2>1 DEF Fetch, SignalRoom
    <2>3. DataOK'
      BY <1>1, <2>1, FetchRemoves DEF DataOK
    <2>4. Counted(consumers', activeConsumers') /\ Counted(producers', activeProducers')
      BY <1>1, <2>2, NotFullKeeps DEF notEmptyVars
    <2>5. sleepingTakers' = sleepingTakers /\ sleepingAdders' \subseteq sleepingAdders
      BY <2>2 DEF NotFull!Signal, NotFull!NotifyOne, notEmptyVars, notFullVars
    <2>6. StateOK' /\ CallsOK' /\ SleepOK'
      BY <1>1, <2>2, <2>5, ReturnKeeps DEF Statuses
    <2> QED BY <2>3, <2>4, <2>6 DEF TypesOK, CountsOK
  <1>5. CASE TakeSleep(t, C)
    <2>1. PICK c \in ProperCalls : c.op \in Takes /\ c.count # 0 /\ SleepNotEmpty(t, c)
      BY <1>5 DEF TakeSleep, Of
    <2>2. /\ NotEmpty!Wait(t) /\ call' = [call EXCEPT ![t] = c]
          /\ UNCHANGED <<dataVars, stateVars, notFullVars, returned>>
      BY <2>1 DEF SleepNotEmpty
    <2>3. DataOK' /\ StateOK'
      BY <1>1, <2>2 DEF DataOK, StateOK, dataVars, stateVars
    <2>4. Counted(consumers', activeConsumers') /\ Counted(producers', activeProducers')
      BY <1>1, <2>2, NotEmptyKeeps DEF notFullVars
    <2>5. sleepingAdders' = sleepingAdders /\ sleepingTakers' = sleepingTakers \cup {t}
      BY <2>2 DEF NotEmpty!Wait, notFullVars
    <2>6. CallsOK' /\ SleepOK'
      BY <1>1, <2>1, <2>2, <2>5, SleepKeeps
    <2> QED BY <2>3, <2>4, <2>6 DEF TypesOK, CountsOK
  <1>6. CASE Refusal(t)
    <2>1. PICK s \in Statuses \ {"none"} : Refuse(t, s)
      BY <1>6 DEF Refusal
    <2>2. Return(t, s) /\ UNCHANGED <<dataVars, notEmptyVars, notFullVars>>
      BY <2>1 DEF Refuse
    <2>3. StateOK' /\ CallsOK' /\ SleepOK'
      BY <1>1, <2>2, ReturnKeeps DEF notEmptyVars, notFullVars
    <2>4. DataOK' /\ CountsOK'
      BY <2>2 DEF TypesOK, DataOK, CountsOK, Counted, dataVars, notEmptyVars, notFullVars
    <2> QED BY <2>3, <2>4 DEF TypesOK
  <1>7. CASE Expiry(t)
    <2>1. /\ Return(t, "TimedOut") /\ UNCHANGED dataVars
          /\ \/ NotFull!TimedOut /\ UNCHANGED notEmptyVars
             \/ NotEmpty!TimedOut /\ UNCHANGED notFullVars
      BY <1>7 DEF Expiry, Expire
    <2>2. Counted(consumers', activeConsumers') /\ Counted(producers', activeProducers')
      BY <1>1, <2>1, NotEmptyKeeps, NotFullKeeps DEF notEmptyVars, notFullVars
    <2>3. UNCHANGED <<sleepingTakers, sleepingAdders>>
      BY <2>1 DEF NotFull!TimedOut, NotEmpty!TimedOut, notEmptyVars, notFullVars
    <2>4. StateOK' /\ CallsOK' /\ SleepOK'
      BY <1>1, <2>1, <2>3, ReturnKeeps DEF Statuses
    <2>5. DataOK'
      BY <1>1, <2>1 DEF DataOK, dataVars
    <2> QED BY <2>2, <2>4, <2>5 DEF TypesOK, CountsOK
  <1> QED BY <1>2, <1>3, <1>4, <1>5, <1>6, <1>7 DEF ThreadStep

LEMMA RegistrationKeepsTypes ==
    ASSUME TypesOK, NEW t \in Threads, Registration(t)
    PROVE  TypesOK'
  <1>1. Counted(consumers, activeConsumers) /\ Counted(producers, activeProducers)
    BY DEF TypesOK, CountsOK
  <1>2. /\ Counted(consumers', activeConsumers') /\ Counted(producers', activeProducers')
        /\ sleepingTakers' \subseteq sleepingTakers /\ sleepingAdders' \subseteq sleepingAdders
    BY <1>1, NotEmptyRegisters, NotFullRegisters DEF Registration, notEmptyVars, notFullVars
  <1>3. UNCHANGED <<dataVars, stateVars, callVars>>
    BY DEF Registration
  <1>4. DataOK' /\ StateOK' /\ CallsOK'
    BY <1>3 DEF TypesOK, DataOK, StateOK, CallsOK, dataVars, stateVars, callVars
  <1>5. SleepOK'
    BY <1>2, <1>3 DEF TypesOK, SleepOK, callVars
  <1> QED BY <1>2, <1>4, <1>5 DEF TypesOK, CountsOK

LEMMA RegisterIs == \A t \in Threads : Register(t) => Registration(t)
  BY DEF Register, Registration

LEMMA WakeKeepsTypes ==
    ASSUME TypesOK, NEW t \in Threads, WakeUp(t)
    PROVE  TypesOK'
  <1>1. Counted(consumers, activeConsumers) /\ Counted(producers, activeProducers)
    BY DEF TypesOK, CountsOK
  <1>2. Counted(consumers', activeConsumers') /\ Counted(producers', activeProducers')
    BY <1>1, NotEmptyKeeps, NotFullKeeps DEF WakeUp, notEmptyVars, notFullVars
  <1>3. sleepingTakers' \subseteq sleepingTakers /\ sleepingAdders' \subseteq sleepingAdders
    BY DEF WakeUp, NotEmpty!Wake, NotFull!Wake, notEmptyVars, notFullVars
  <1>4. UNCHANGED <<dataVars, stateVars, callVars>>
    BY DEF WakeUp
  <1>5. DataOK' /\ StateOK' /\ CallsOK'
    BY <1>4 DEF TypesOK, DataOK, StateOK, CallsOK, dataVars, stateVars, callVars
  <1>6. SleepOK'
    BY <1>3, <1>4 DEF TypesOK, SleepOK, callVars
  <1> QED BY <1>2, <1>5, <1>6 DEF TypesOK, CountsOK

LEMMA BroadcastKeeps ==
    ASSUME TypesOK, BroadcastBoth, UNCHANGED callVars
    PROVE  CountsOK' /\ CallsOK' /\ SleepOK'
  <1>1. Counted(consumers, activeConsumers) /\ Counted(producers, activeProducers)
    BY DEF TypesOK, CountsOK
  <1>2. Counted(consumers', activeConsumers') /\ Counted(producers', activeProducers')
    BY <1>1, NotEmptyKeeps, NotFullKeeps DEF BroadcastBoth
  <1>3. sleepingTakers' = {} /\ sleepingAdders' = {}
    BY DEF BroadcastBoth, NotEmpty!Broadcast, NotFull!Broadcast
  <1>4. CallsOK'
    BY DEF TypesOK, CallsOK, callVars
  <1> QED BY <1>2, <1>3, <1>4 DEF SleepOK, CountsOK

LEMMA CompleteKeepsTypes == TypesOK /\ CompleteAdding => TypesOK'
  <1> SUFFICES ASSUME TypesOK, CompleteAdding PROVE TypesOK'
    OBVIOUS
  <1>1. DataOK' /\ StateOK'
    BY DEF CompleteAdding, TypesOK, DataOK, StateOK, dataVars
  <1> QED BY <1>1, BroadcastKeeps DEF CompleteAdding, TypesOK

LEMMA ControlKeepsTypes == TypesOK /\ Control => TypesOK'
  <1> SUFFICES ASSUME TypesOK, Control PROVE TypesOK'
    OBVIOUS
  <1>1. CASE Flush
    <2>1. DataOK'
      BY <1>1 DEF Flush, DataOK
    <2> QED BY <1>1, <2>1 DEF Flush, TypesOK, StateOK, CountsOK, Counted, CallsOK, SleepOK,
                              stateVars, notEmptyVars, notFullVars, callVars
  <1>2. CASE CompleteAdding
    BY <1>2, CompleteKeepsTypes
  <1>3. ASSUME NEW to \in {"Deactivated", "Pulsed"}, Deactivate(to) PROVE TypesOK'
    <2>1. DataOK' /\ StateOK'
      BY <1>3 DEF Deactivate, TypesOK, DataOK, StateOK, dataVars
    <2> QED BY <1>3, <2>1, BroadcastKeeps DEF Deactivate, TypesOK
  <1>4. CASE Activate
    BY <1>4 DEF Activate, TypesOK, DataOK, StateOK, CountsOK, Counted, CallsOK, SleepOK,
                dataVars, notEmptyVars, notFullVars, callVars
  <1> QED BY <1>1, <1>2, <1>3, <1>4 DEF Control

LEMMA TypesStart == CollectionInit => TypesOK
  <1> SUFFICES ASSUME CollectionInit PROVE TypesOK
    OBVIOUS
  <1>1. DataOK /\ StateOK
    <2>1. DataOK
      BY DEF CollectionInit, InitIn, DataOK
    <2>2. StateOK
      BY DEF CollectionInit, InitIn, StateOK
    <2> QED BY <2>1, <2>2
  <1>2. CountsOK
    <2>1. consumers = {} /\ producers = {} /\ activeConsumers = 0 /\ activeProducers = 0
      BY DEF CollectionInit, InitIn, NotEmpty!Empty, NotFull!Empty
    <2>2. Cardinality({}) = 0 /\ IsFiniteSet({})
      BY FS_EmptySet
    <2> QED BY <2>1, <2>2 DEF CountsOK, Counted
  <1>3. CallsOK
    BY NoCallIsNone DEF CollectionInit, InitIn, CallsOK, Statuses
  <1>4. SleepOK
    BY DEF CollectionInit, InitIn, SleepOK, NotEmpty!Empty, NotFull!Empty
  <1> QED BY <1>1, <1>2, <1>3, <1>4 DEF TypesOK

LEMMA StutterKeepsTypes == TypesOK /\ UNCHANGED collectionVars => TypesOK'
  BY DEF TypesOK, DataOK, StateOK, CountsOK, Counted, CallsOK, SleepOK, collectionVars,
         dataVars, stateVars, notEmptyVars, notFullVars, callVars

LEMMA ThreadMakes ==
    ASSUME TypesOK, NEW calls, Makes(calls), NEW t \in Threads, ThreadStep(t, calls[t])
    PROVE  Makes(calls)'
  <1>1. \E c \in calls[t] \cup {NoCall} : call' = [call EXCEPT ![t] = c]
    BY DEF ThreadStep, StoreStep, Store, AddSleep, SleepNotFull, FetchStep, Fetch, TakeSleep,
           SleepNotEmpty, Refusal, Refuse, Expiry, Expire, Return
  <1> QED BY <1>1 DEF Makes, TypesOK, CallsOK

LEMMA NextKeepsTypes ==
    TypesOK /\ Makes(Calls) /\ [CollectionNext]_collectionVars => TypesOK' /\ Makes(Calls)'
  <1> SUFFICES ASSUME TypesOK, Makes(Calls), [CollectionNext]_collectionVars
               PROVE  TypesOK' /\ Makes(Calls)'
    OBVIOUS
  <1>1. ASSUME NEW t \in Threads, ThreadStep(t, Calls[t]) PROVE TypesOK' /\ Makes(Calls)'
    BY <1>1, ThreadKeepsTypes, ThreadMakes
  <1>2. TypesOK' \/ \E t \in Threads : ThreadStep(t, Calls[t])
    BY NextSteps, WakeKeepsTypes, RegisterIs, RegistrationKeepsTypes, ControlKeepsTypes,
       StutterKeepsTypes
  <1>3. UNCHANGED callVars \/ \E t \in Threads : ThreadStep(t, Calls[t])
    BY NextSteps, RegisterIs
       DEF WakeUp, Registration, Control, Flush, CompleteAdding, Deactivate, Activate,
           collectionVars
  <1>4. Makes(Calls)' \/ \E t \in Threads : ThreadStep(t, Calls[t])
    BY <1>3 DEF Makes, callVars
  <1> QED BY <1>1, <1>2, <1>4

LEMMA TypesAlways == CollectionSpec => [](TypesOK /\ Makes(Calls))
  <1>1. CollectionInit => Makes(Calls)
    BY DEF CollectionInit, InitIn, Makes
  <1> QED BY <1>1, TypesStart, NextKeepsTypes, PTL DEF CollectionSpec

(* Every variable of the collection keeps its type, a thread sleeps only   *)
(* in a call of the right side, and active workers are never counted       *)
(* beyond the attached ones, whatever the calls, the controls and their    *)
(* order.                                                                  *)
THEOREM TypesAreKept == CollectionSpec => []CollectionTypeOK
  BY TypesAlways, TypesImplyTypeOK, PTL

-----------------------------------------------------------------------------
(* Closing wakes everybody up.                                             *)
LEMMA ThreadKeepsClosed ==
    ASSUME TypesOK, ClosedWakesAll, NEW t \in Threads, NEW C, ThreadStep(t, C)
    PROVE  ClosedWakesAll'
  <1>1. CASE AddSleep(t, C) \/ TakeSleep(t, C)
    <2>1. Open /\ UNCHANGED stateVars
      BY <1>1 DEF AddSleep, TakeSleep, SleepNotFull, SleepNotEmpty
    <2> QED BY <2>1 DEF ClosedWakesAll, Open, stateVars
  <1>2. CASE ~AddSleep(t, C) /\ ~TakeSleep(t, C)
    <2>1. UNCHANGED stateVars
      BY <1>2 DEF ThreadStep, StoreStep, Store, FetchStep, Fetch, Refusal, Refuse, Expiry,
                  Expire, Return
    <2>2. sleepingTakers' \subseteq sleepingTakers /\ sleepingAdders' \subseteq sleepingAdders
      BY <1>2 DEF ThreadStep, StoreStep, Store, FetchStep, Fetch, SignalRoom, Refusal, Refuse,
                  Expiry, NotEmpty!Signal, NotEmpty!NotifyOne, NotFull!Signal,
                  NotFull!NotifyOne, NotEmpty!TimedOut, NotFull!TimedOut, notEmptyVars,
                  notFullVars
    <2> QED BY <2>1, <2>2 DEF ClosedWakesAll, stateVars
  <1> QED BY <1>1, <1>2

LEMMA ControlKeepsClosed ==
    ASSUME ClosedWakesAll, Control
    PROVE  ClosedWakesAll'
  <1>1. CASE Flush \/ Activate
    BY <1>1 DEF Flush, Activate, ClosedWakesAll, stateVars, notEmptyVars, notFullVars
  <1>2. CASE BroadcastBoth
    BY <1>2 DEF BroadcastBoth, NotEmpty!Broadcast, NotFull!Broadcast, ClosedWakesAll
  <1> QED BY <1>1, <1>2 DEF Control, CompleteAdding, Deactivate

LEMMA NextKeepsClosed ==
    ASSUME TypesOK, Makes(Calls), ClosedWakesAll, [CollectionNext]_collectionVars
    PROVE  ClosedWakesAll'
  <1>1. ASSUME NEW t \in Threads, WakeUp(t) \/ Registration(t) PROVE ClosedWakesAll'
    <2>1. sleepingTakers' \subseteq sleepingTakers /\ sleepingAdders' \subseteq sleepingAdders
      BY <1>1 DEF WakeUp, Registration, NotEmpty!Wake, NotFull!Wake, NotEmpty!Attach,
                  NotFull!Attach, NotEmpty!Detach, NotFull!Detach, NotEmpty!NotifyOne,
                  NotFull!NotifyOne, notEmptyVars, notFullVars
    <2>2. UNCHANGED stateVars
      BY <1>1 DEF WakeUp, Registration
    <2> QED BY <2>1, <2>2 DEF ClosedWakesAll, stateVars
  <1>2. CASE UNCHANGED collectionVars
    BY <1>2 DEF collectionVars, stateVars, notEmptyVars, notFullVars, ClosedWakesAll
  <1> QED BY <1>1, <1>2, NextSteps, ThreadKeepsClosed, RegisterIs, ControlKeepsClosed

(* CompleteAdding and Deactivate get every sleeper out, and until the      *)
(* collection is open again none falls asleep.                             *)
THEOREM ClosingWakesAll == CollectionSpec => []ClosedWakesAll
  <1>1. CollectionInit => ClosedWakesAll
    BY DEF CollectionInit, InitIn, NotEmpty!Empty, NotFull!Empty, ClosedWakesAll
  <1>2. TypesOK /\ Makes(Calls) /\ ClosedWakesAll /\ [CollectionNext]_collectionVars
            => ClosedWakesAll'
    BY NextKeepsClosed
  <1> QED BY <1>1, <1>2, TypesAlways, PTL DEF CollectionSpec

-----------------------------------------------------------------------------
(* Sleepers beside elements, and beside room.  They are counted, so it     *)
(* matters that only finitely many threads are in a call.                  *)
FewCalls == IsFiniteSet({t \in Threads : call[t] # NoCall})

LEMMA FewCallsKept ==
    ASSUME TypesOK, FewCalls, NEW t \in Threads, NEW c, call' = [call EXCEPT ![t] = c]
    PROVE  FewCalls'
  <1> DEFINE S == {u \in Threads : call[u] # NoCall}
             T == {u \in Threads : call'[u] # NoCall}
  <1>1. T \subseteq S \cup {t}
    BY DEF TypesOK, CallsOK
  <1> HIDE DEF S, T
  <1>2. IsFiniteSet(S \cup {t})
    BY FS_AddElement DEF FewCalls, S
  <1>3. IsFiniteSet(T)
    BY <1>1, <1>2, FS_Subset
  <1> QED BY <1>3 DEF FewCalls, T

LEMMA NextKeepsFewCalls ==
    ASSUME TypesOK, Makes(Calls), FewCalls, [CollectionNext]_collectionVars
    PROVE  FewCalls'
  <1>1. ASSUME NEW t \in Threads, ThreadStep(t, Calls[t]) PROVE FewCalls'
    <2>1. \E c : call' = [call EXCEPT ![t] = c]
      BY <1>1 DEF ThreadStep, StoreStep, Store, AddSleep, SleepNotFull, FetchStep, Fetch,
                  TakeSleep, SleepNotEmpty, Refusal, Refuse, Expiry, Expire, Return
    <2> QED BY <2>1, FewCallsKept
  <1>2. UNCHANGED callVars \/ \E t \in Threads : ThreadStep(t, Calls[t])
    BY NextSteps, RegisterIs
       DEF WakeUp, Registration, Control, Flush, CompleteAdding, Deactivate, Activate,
           collectionVars
  <1>3. CASE UNCHANGED callVars
    BY <1>3 DEF FewCalls, callVars
  <1> QED BY <1>1, <1>2, <1>3

LEMMA FewAreWoken ==
    ASSUME FewCalls
    PROVE  /\ IsFiniteSet(WokenTakers) /\ Cardinality(WokenTakers) \in Nat
           /\ IsFiniteSet(WokenAdders) /\ Cardinality(WokenAdders) \in Nat
  <1> DEFINE S == {t \in Threads : call[t] # NoCall}
  <1>1. WokenTakers \subseteq S /\ WokenAdders \subseteq S
    BY NoCallIsNone DEF WokenTakers, WokenAdders
  <1> HIDE DEF S
  <1>2. IsFiniteSet(S)
    BY DEF FewCalls, S
  <1> QED BY <1>1, <1>2, FS_Subset, FS_CardinalityType

LEMMA FewAreWokenNext ==
    ASSUME FewCalls'
    PROVE  Cardinality(WokenTakers') \in Nat /\ Cardinality(WokenAdders') \in Nat
  <1> DEFINE S == {t \in Threads : call'[t] # NoCall}
  <1>1. WokenTakers' \subseteq S /\ WokenAdders' \subseteq S
    BY NoCallIsNone DEF WokenTakers, WokenAdders
  <1>2. IsFiniteSet(S)
    BY DEF FewCalls
  <1> HIDE DEF S
  <1>3. IsFiniteSet(WokenTakers') /\ IsFiniteSet(WokenAdders')
    BY <1>1, <1>2, FS_Subset
  <1> QED BY <1>3, FS_CardinalityType

(* What makes elements lie beside sleeping takes.  In each other step, as  *)
(* many woken takes remain as are needed.                                  *)
LEMMA ThreadLosesTakersOnlySo ==
    ASSUME TypesOK, FewCalls, FewCalls', consumers = {}, NoTakerLost, ~NoTakerLost',
           NEW t \in Threads, NEW C, ThreadStep(t, C)
    PROVE  Len(contents') > Len(contents) + 1 \/ (~IsEmpty /\ GivesUp(WokenTakers))
  <1> DEFINE W == WokenTakers
             V == WokenTakers'
  <1>1. /\ IsFiniteSet(W) /\ Cardinality(W) \in Nat /\ Cardinality(V) \in Nat
        /\ contents \in Seq(Items) /\ Len(contents) \in Nat
        /\ t \notin sleepingTakers
    BY FewAreWoken, FewAreWokenNext DEF TypesOK, DataOK, ThreadStep
  <1>2. sleepingTakers' # {} /\ ~(Len(contents') <= Cardinality(V))
    BY DEF NoTakerLost
  <1>3. W = {u \in Threads : call[u].op \in Takes} \ sleepingTakers
        /\ V = {u \in Threads : call'[u].op \in Takes} \ sleepingTakers'
    BY DEF WokenTakers
  <1>4. sleepingTakers # {} => Len(contents) <= Cardinality(W)
    BY DEF NoTakerLost
  <1> HIDE DEF W, V
  <1>5. /\ call \in [Threads -> ProperCalls \cup {NoCall}]
        /\ sleepingTakers \subseteq {u \in Threads : call[u].op \in Takes}
    BY DEF TypesOK, CallsOK, SleepOK
  <1>6. ~(contents' = contents /\ sleepingTakers' = sleepingTakers /\ V = W)
    BY <1>2, <1>4
  <1>7. CASE StoreStep(t, C)
    <2>1. PICK c \in ProperCalls : c.op \in Adds /\ Of(t, c) /\ Store(t, c)
      BY <1>7 DEF StoreStep, Of
    <2>2. NotEmpty!NotifyOne /\ call' = [call EXCEPT ![t] = NoCall]
      BY <2>1 DEF Store, Return, NotEmpty!Signal
    <2>3. call[t].op \notin Takes
      BY <2>1, NoCallIsNone, OpsAreApart DEF Of
    <2>4. PICK u \in sleepingTakers : sleepingTakers' = sleepingTakers \ {u}
      BY <1>2, <2>2 DEF NotEmpty!NotifyOne
    <2>5. V = W \cup {u} /\ u \notin W
      BY <1>3, <1>5, <2>2, <2>3, <2>4, NoCallIsNone
    <2>6. Cardinality(V) = Cardinality(W) + 1
      BY <1>1, <2>5, FS_AddElement
    <2>7. Len(contents) <= Cardinality(W)
      BY <1>4, <2>4
    <2>8. PICK n \in Nat \ {0} : /\ Len(contents') = Len(contents) + n
                                 /\ IsBounded => Len(contents) + n <= Capacity
      <3>1. DataOK
        BY DEF TypesOK
      <3> QED BY <2>1, <3>1, StoreAdds
    <2> QED BY <1>1, <1>2, <2>6, <2>7, <2>8
  <1>8. CASE AddSleep(t, C)
    <2>1. PICK c \in ProperCalls : c.op \in Adds /\ Of(t, c) /\ SleepNotFull(t, c)
      BY <1>8 DEF AddSleep, Of
    <2>2. /\ contents' = contents /\ sleepingTakers' = sleepingTakers
          /\ call' = [call EXCEPT ![t] = c]
      BY <2>1 DEF SleepNotFull, dataVars, notEmptyVars
    <2>3. call[t].op \notin Takes /\ c.op \notin Takes
      BY <2>1, NoCallIsNone, OpsAreApart DEF Of
    <2>4. V = W
      BY <1>3, <1>5, <2>2, <2>3
    <2> QED BY <1>6, <2>2, <2>4
  <1>9. CASE FetchStep(t, C)
    <2>1. PICK c \in ProperCalls : c.count # 0 /\ Fetch(t, c)
      BY <1>9 DEF FetchStep, Of
    <2>2. sleepingTakers' = sleepingTakers /\ call' = [call EXCEPT ![t] = NoCall]
      BY <2>1 DEF Fetch, Return, notEmptyVars
    <2>3. V = W \ {t}
      BY <1>3, <1>5, <2>2, NoCallIsNone
    <2>4. Cardinality(V) >= Cardinality(W) - 1
      <3>1. Cardinality(V) = IF t \in W THEN Cardinality(W) - 1 ELSE Cardinality(W)
        BY <1>1, <2>3, FS_RemoveElement
      <3> QED BY <1>1, <3>1
    <2>5. PICK n \in Nat \ {0} : n <= Len(contents) /\ Len(contents') = Len(contents) - n
      BY <2>1, FetchRemoves DEF TypesOK
    <2> QED BY <1>1, <1>2, <1>4, <2>2, <2>4, <2>5
  <1>10. CASE TakeSleep(t, C)
    <2>1. contents' = <<>>
      BY <1>10 DEF TakeSleep, IsEmpty, SleepNotEmpty, dataVars
    <2> QED BY <1>1, <1>2, <2>1
  <1>11. ASSUME NEW s \in Statuses, Return(t, s), UNCHANGED contents,
                sleepingTakers' = sleepingTakers, call[t] # NoCall => s # "Ok"
         PROVE  ~IsEmpty /\ GivesUp(WokenTakers)
    <2>1. call' = [call EXCEPT ![t] = NoCall] /\ returned' = s
      BY <1>11 DEF Return
    <2>2. V = W \ {t}
      BY <1>3, <1>5, <1>11, <2>1, NoCallIsNone
    <2>3. t \in W
      BY <1>6, <1>11, <2>2
    <2>4. call'[t] = NoCall /\ call[t] # NoCall
      BY <1>3, <1>5, <2>1, <2>3, NoCallIsNone
    <2>5. ~IsEmpty
      BY <1>1, <1>2, <1>11 DEF IsEmpty
    <2> QED BY <1>11, <2>1, <2>3, <2>4, <2>5 DEF GivesUp, W
  <1>12. CASE Refusal(t)
    <2>1. PICK s \in Statuses : (call[t] # NoCall => s # "Ok") /\ Refuse(t, s)
      BY <1>12 DEF Refusal
    <2> QED BY <1>11, <2>1 DEF Refuse, dataVars, notEmptyVars
  <1>13. CASE Expiry(t)
    <2>1. Return(t, "TimedOut") /\ UNCHANGED contents /\ sleepingTakers' = sleepingTakers
      BY <1>13 DEF Expiry, Expire, NotEmpty!TimedOut, dataVars, notEmptyVars
    <2> QED BY <1>11, <2>1 DEF Statuses
  <1> QED BY <1>7, <1>8, <1>9, <1>10, <1>12, <1>13 DEF ThreadStep

LEMMA TakersLost ==
    ASSUME TypesOK, Makes(Calls), FewCalls, FewCalls', consumers = {},
           "attachConsumer" \notin Controls, NoTakerLost, ~NoTakerLost', CollectionNext
    PROVE  Len(contents') > Len(contents) + 1 \/ (~IsEmpty /\ GivesUp(WokenTakers))
  <1> DEFINE W == WokenTakers
             V == WokenTakers'
  <1>1. /\ IsFiniteSet(V) /\ Cardinality(W) \in Nat /\ Cardinality(V) \in Nat
    <2>1. V \subseteq {t \in Threads : call'[t] # NoCall}
      BY NoCallIsNone DEF WokenTakers
    <2>2. IsFiniteSet({t \in Threads : call'[t] # NoCall})
      BY DEF FewCalls
    <2> HIDE DEF V
    <2>3. IsFiniteSet(V)
      BY <2>1, <2>2, FS_Subset
    <2> QED BY <2>3, FewAreWoken, FS_CardinalityType
  <1>2. sleepingTakers' # {} /\ ~(Len(contents') <= Cardinality(V))
    BY DEF NoTakerLost
  <1>3. sleepingTakers # {} => Len(contents) <= Cardinality(W)
    BY DEF NoTakerLost
  <1>4. Len(contents) \in Nat
    BY DEF TypesOK, DataOK
  <1>5. ASSUME UNCHANGED <<contents, call>>, sleepingTakers' \subseteq sleepingTakers
        PROVE  FALSE
    <2>1. W \subseteq V
      BY <1>5 DEF WokenTakers
    <2> HIDE DEF V, W
    <2>2. Cardinality(W) <= Cardinality(V)
      BY <1>1, <2>1, FS_Subset
    <2> QED BY <1>1, <1>2, <1>3, <1>4, <1>5, <2>2
  <1> HIDE DEF V, W
  <1>6. ASSUME NEW t \in Threads, WakeUp(t) PROVE FALSE
    BY <1>5, <1>6 DEF WakeUp, NotEmpty!Wake, notEmptyVars, dataVars, callVars
  <1>7. ASSUME NEW t \in Threads, Register(t) PROVE FALSE
    BY <1>5, <1>7 DEF Register, NotEmpty!Detach, notEmptyVars, dataVars, callVars
  <1>8. CASE Control
    <2>1. CASE Flush
      <3>1. Len(contents') = 0
        BY <2>1 DEF Flush
      <3> QED BY <1>1, <1>2, <3>1
    <2>2. CASE BroadcastBoth
      BY <1>2, <2>2 DEF BroadcastBoth, NotEmpty!Broadcast
    <2>3. CASE Activate
      BY <1>5, <2>3 DEF Activate, dataVars, notEmptyVars, callVars
    <2> QED BY <1>8, <2>1, <2>2, <2>3 DEF Control, CompleteAdding, Deactivate
  <1>9. ASSUME NEW t \in Threads, ThreadStep(t, Calls[t])
        PROVE  Len(contents') > Len(contents) + 1 \/ (~IsEmpty /\ GivesUp(WokenTakers))
    BY <1>9, ThreadLosesTakersOnlySo
  <1> QED BY <1>6, <1>7, <1>8, <1>9, NextSteps

LEMMA NobodyAttaches ==
    ASSUME TypesOK, Makes(Calls), [CollectionNext]_collectionVars
    PROVE  /\ consumers = {} /\ "attachConsumer" \notin Controls => consumers' = {}
           /\ producers = {} /\ "attachProducer" \notin Controls => producers' = {}
  <1>1. CASE \E t \in Threads : ThreadStep(t, Calls[t])
    BY <1>1
       DEF ThreadStep, StoreStep, Store, AddSleep, SleepNotFull, FetchStep, Fetch, SignalRoom,
           TakeSleep, SleepNotEmpty, Refusal, Refuse, Expiry, Expire, NotEmpty!Signal,
           NotFull!Signal, NotEmpty!Wait, NotFull!Wait, NotEmpty!TimedOut, NotFull!TimedOut,
           notEmptyVars, notFullVars
  <1>2. CASE \E t \in Threads : Register(t)
    BY <1>2 DEF Register, NotEmpty!Attach, NotEmpty!Detach, NotFull!Attach, NotFull!Detach,
                notEmptyVars, notFullVars
  <1>3. CASE Control \/ (\E t \in Threads : WakeUp(t)) \/ UNCHANGED collectionVars
    BY <1>3 DEF Control, Flush, CompleteAdding, Deactivate, Activate, BroadcastBoth,
                NotEmpty!Broadcast, NotFull!Broadcast, WakeUp, NotEmpty!Wake, NotFull!Wake,
                collectionVars, notEmptyVars, notFullVars
  <1> QED BY <1>1, <1>2, <1>3, NextSteps

LEMMA FewCallsAlways == CollectionSpec => []FewCalls
  <1>1. CollectionInit => FewCalls
    <2> SUFFICES ASSUME CollectionInit PROVE FewCalls
      OBVIOUS
    <2>1. {t \in Threads : call[t] # NoCall} = {}
      BY DEF CollectionInit, InitIn
    <2> QED BY <2>1, FS_EmptySet DEF FewCalls
  <1>2. TypesOK /\ Makes(Calls) /\ FewCalls /\ [CollectionNext]_collectionVars => FewCalls'
    BY NextKeepsFewCalls
  <1> QED BY <1>1, <1>2, TypesAlways, PTL DEF CollectionSpec

(* Without attached consumers, elements come to lie beside sleeping takes  *)
(* only when a bulk add wakes one take for several elements, or when a     *)
(* woken take gives up.                                                    *)
THEOREM TakersAreLostOnlySo ==
    ASSUME "attachConsumer" \notin Controls
    PROVE  CollectionSpec => TakersLostOnlySo
  <1>1. CollectionInit => consumers = {}
    BY DEF CollectionInit, InitIn, NotEmpty!Empty
  <1>2. TypesOK /\ Makes(Calls) /\ consumers = {} /\ [CollectionNext]_collectionVars
            => (consumers = {})'
    BY NobodyAttaches
  <1>3. CollectionSpec => [](consumers = {})
    BY <1>1, <1>2, TypesAlways, PTL DEF CollectionSpec
  <1>4. /\ TypesOK /\ Makes(Calls) /\ FewCalls /\ FewCalls' /\ consumers = {}
        /\ [CollectionNext]_collectionVars
        => [NoTakerLost /\ ~NoTakerLost' =>
              \/ Len(contents') > Len(contents) + 1
              \/ ~IsEmpty /\ GivesUp(WokenTakers)]_collectionVars
    BY TakersLost
  <1> QED BY <1>3, <1>4, TypesAlways, FewCallsAlways, PTL DEF CollectionSpec, TakersLostOnlySo

(* Nobody waits for room in a collection without bounds. *)
RoomIsWaitedFor == ~IsBounded => sleepingAdders = {}

LEMMA NextKeepsRoomIsWaitedFor ==
    ASSUME TypesOK, Makes(Calls), RoomIsWaitedFor, [CollectionNext]_collectionVars
    PROVE  RoomIsWaitedFor'
  <1>1. ASSUME NEW t \in Threads, AddSleep(t, Calls[t]) PROVE RoomIsWaitedFor'
    BY <1>1 DEF AddSleep, SleepNotFull, IsFull, RoomIsWaitedFor, IsBounded
  <1>2. ASSUME NEW t \in Threads, ThreadStep(t, Calls[t]), ~AddSleep(t, Calls[t])
        PROVE  sleepingAdders' \subseteq sleepingAdders
    BY <1>2 DEF ThreadStep, StoreStep, Store, FetchStep, Fetch, SignalRoom, TakeSleep,
                SleepNotEmpty, Refusal, Refuse, Expiry, NotFull!Signal, NotFull!NotifyOne,
                NotFull!TimedOut, notFullVars
  <1>3. ASSUME NEW t \in Threads, WakeUp(t) \/ Registration(t)
        PROVE  sleepingAdders' \subseteq sleepingAdders
    BY <1>3 DEF WakeUp, Registration, NotFull!Wake, NotFull!Attach, NotFull!Detach,
                NotFull!NotifyOne, notFullVars
  <1>4. ASSUME Control \/ UNCHANGED collectionVars PROVE sleepingAdders' \subseteq sleepingAdders
    BY <1>4 DEF Control, Flush, CompleteAdding, Deactivate, Activate, BroadcastBoth,
                NotFull!Broadcast, collectionVars, notFullVars
  <1>5. RoomIsWaitedFor' \/ sleepingAdders' \subseteq sleepingAdders
    BY <1>1, <1>2, <1>3, <1>4, NextSteps, RegisterIs
  <1> QED BY <1>5 DEF RoomIsWaitedFor, IsBounded

(* What makes room lie beside sleeping adds. *)
LEMMA ThreadLosesAddersOnlySo ==
    ASSUME TypesOK, FewCalls, FewCalls', RoomIsWaitedFor, producers = {},
           NoAdderLost, ~NoAdderLost',
           NEW t \in Threads, NEW C, ThreadStep(t, C)
    PROVE  \/ Len(contents') + 1 < Len(contents)
           \/ \E c \in C : c.op = "takePrioBulk" /\ Fetch(t, c)
           \/ ~IsFull /\ GivesUp(WokenAdders)
  <1> DEFINE W == WokenAdders
             V == WokenAdders'
  <1>1. /\ IsFiniteSet(W) /\ Cardinality(W) \in Nat /\ Cardinality(V) \in Nat
        /\ contents \in Seq(Items) /\ Len(contents) \in Nat /\ Capacity \in Nat
        /\ t \notin sleepingAdders
    BY FewAreWoken, FewAreWokenNext, CollectionAssumption DEF TypesOK, DataOK, ThreadStep
  <1>2. sleepingAdders' # {} /\ ~(Capacity - Len(contents') <= Cardinality(V))
    BY DEF NoAdderLost
  <1>3. W = {u \in Threads : call[u].op \in Adds} \ sleepingAdders
        /\ V = {u \in Threads : call'[u].op \in Adds} \ sleepingAdders'
    BY DEF WokenAdders
  <1>4. sleepingAdders # {} => Capacity - Len(contents) <= Cardinality(W)
    BY DEF NoAdderLost
  <1> HIDE DEF W, V
  <1>5. /\ call \in [Threads -> ProperCalls \cup {NoCall}]
        /\ sleepingAdders \subseteq {u \in Threads : call[u].op \in Adds}
    BY DEF TypesOK, CallsOK, SleepOK
  <1>6. ~(contents' = contents /\ sleepingAdders' = sleepingAdders /\ V = W)
    BY <1>2, <1>4
  <1>7. CASE StoreStep(t, C)
    <2>1. PICK c \in ProperCalls : c.op \in Adds /\ Store(t, c)
      BY <1>7 DEF StoreStep, Of
    <2>2. sleepingAdders' = sleepingAdders /\ call' = [call EXCEPT ![t] = NoCall]
      BY <2>1 DEF Store, Return, notFullVars
    <2>3. V = W \ {t}
      BY <1>3, <1>5, <2>2, NoCallIsNone
    <2>4. Cardinality(V) >= Cardinality(W) - 1
      <3>1. Cardinality(V) = IF t \in W THEN Cardinality(W) - 1 ELSE Cardinality(W)
        BY <1>1, <2>3, FS_RemoveElement
      <3> QED BY <1>1, <3>1
    <2>5. PICK n \in Nat \ {0} : /\ Len(contents') = Len(contents) + n
                                 /\ IsBounded => Len(contents) + n <= Capacity
      <3>1. DataOK
        BY DEF TypesOK
      <3> QED BY <2>1, <3>1, StoreAdds
    <2>6. Capacity - Len(contents) <= Cardinality(W)
      BY <1>2, <1>4, <2>2
    <2>7. Capacity - Len(contents') <= Cardinality(V)
      <3>1. n >= 1 /\ n \in Nat
        OBVIOUS
      <3>2. Len(contents') = Len(contents) + n
        BY <2>5
      <3> QED BY <1>1, <2>4, <2>6, <3>1, <3>2
    <2> QED BY <1>2, <2>7
  <1>8. CASE AddSleep(t, C)
    <2>1. contents' = contents /\ Len(contents) >= Capacity
      BY <1>8 DEF AddSleep, SleepNotFull, IsFull, dataVars
    <2> QED BY <1>1, <1>2, <2>1
  <1>9. CASE FetchStep(t, C)
    <2>1. PICK c \in C : c \in ProperCalls /\ c.op \in Takes /\ c.count # 0 /\ Of(t, c) /\ Fetch(t, c)
      BY <1>9 DEF FetchStep, Of
    <2>2. call' = [call EXCEPT ![t] = NoCall] /\ call[t].op \notin Adds
      BY <2>1, NoCallIsNone, OpsAreApart DEF Fetch, Return, Of
    <2>3. PICK n \in Nat \ {0} : n <= Len(contents) /\ Len(contents') = Len(contents) - n
      <3>1. DataOK
        BY DEF TypesOK
      <3> QED BY <2>1, <3>1, FetchRemoves
    <2>4. SUFFICES ASSUME n = 1, c.op # "takePrioBulk" PROVE FALSE
      BY <1>1, <2>1, <2>3
    <2>5. sleepingAdders # {} /\ IsBounded
      <3>1. sleepingAdders' \subseteq sleepingAdders
        BY <2>1 DEF Fetch, SignalRoom, NotFull!Signal, NotFull!NotifyOne, notFullVars
      <3> QED BY <1>2, <3>1 DEF RoomIsWaitedFor
    <2>6. NotFull!NotifyOne
      BY <2>1, <2>4, <2>5 DEF Fetch, SignalRoom, NotFull!Signal
    <2>7. PICK u \in sleepingAdders : sleepingAdders' = sleepingAdders \ {u}
      BY <2>5, <2>6 DEF NotFull!NotifyOne
    <2>8. V = W \cup {u} /\ u \notin W
      BY <1>3, <1>5, <2>2, <2>7, NoCallIsNone
    <2>9. Cardinality(V) = Cardinality(W) + 1
      BY <1>1, <2>8, FS_AddElement
    <2> QED BY <1>1, <1>2, <1>4, <2>3, <2>4, <2>5, <2>9
  <1>10. CASE TakeSleep(t, C)
    <2>1. PICK c \in ProperCalls : c.op \in Takes /\ Of(t, c) /\ SleepNotEmpty(t, c)
      BY <1>10 DEF TakeSleep, Of
    <2>2. /\ contents' = contents /\ sleepingAdders' = sleepingAdders
          /\ call' = [call EXCEPT ![t] = c]
      BY <2>1 DEF SleepNotEmpty, dataVars, notFullVars
    <2>3. call[t].op \notin Adds /\ c.op \notin Adds
      BY <2>1, NoCallIsNone, OpsAreApart DEF Of
    <2>4. V = W
      BY <1>3, <1>5, <2>2, <2>3
    <2> QED BY <1>6, <2>2, <2>4
  <1>11. ASSUME NEW s \in Statuses, Return(t, s), UNCHANGED contents,
                sleepingAdders' = sleepingAdders, call[t] # NoCall => s # "Ok"
         PROVE  ~IsFull /\ GivesUp(WokenAdders)
    <2>1. call' = [call EXCEPT ![t] = NoCall] /\ returned' = s
      BY <1>11 DEF Return
    <2>2. V = W \ {t}
      BY <1>3, <1>5, <1>11, <2>1, NoCallIsNone
    <2>3. t \in W
      BY <1>6, <1>11, <2>2
    <2>4. call'[t] = NoCall /\ call[t] # NoCall
      BY <1>3, <1>5, <2>1, <2>3, NoCallIsNone
    <2>5. ~IsFull
      BY <1>1, <1>2, <1>11 DEF IsFull
    <2> QED BY <1>11, <2>1, <2>3, <2>4, <2>5 DEF GivesUp, W
  <1>12. CASE Refusal(t)
    <2>1. PICK s \in Statuses : (call[t] # NoCall => s # "Ok") /\ Refuse(t, s)
      BY <1>12 DEF Refusal
    <2> QED BY <1>11, <2>1 DEF Refuse, dataVars, notFullVars
  <1>13. CASE Expiry(t)
    <2>1. Return(t, "TimedOut") /\ UNCHANGED contents /\ sleepingAdders' = sleepingAdders
      BY <1>13 DEF Expiry, Expire, NotFull!TimedOut, dataVars, notFullVars
    <2> QED BY <1>11, <2>1 DEF Statuses
  <1> QED BY <1>7, <1>8, <1>9, <1>10, <1>12, <1>13 DEF ThreadStep

LEMMA AddersLost ==
    ASSUME TypesOK, Makes(Calls), FewCalls, FewCalls', RoomIsWaitedFor, producers = {},
           "attachProducer" \notin Controls, NoAdderLost, ~NoAdderLost', CollectionNext
    PROVE  \/ "flush" \in Controls /\ Flush
           \/ Len(contents') + 1 < Len(contents)
           \/ \E t \in Threads : \E c \in Calls[t] : c.op = "takePrioBulk" /\ Fetch(t, c)
           \/ ~IsFull /\ GivesUp(WokenAdders)
  <1> DEFINE W == WokenAdders
             V == WokenAdders'
  <1>1. /\ IsFiniteSet(V) /\ Cardinality(W) \in Nat /\ Cardinality(V) \in Nat
    <2>1. V \subseteq {t \in Threads : call'[t] # NoCall}
      BY NoCallIsNone DEF WokenAdders
    <2>2. IsFiniteSet({t \in Threads : call'[t] # NoCall})
      BY DEF FewCalls
    <2> HIDE DEF V
    <2>3. IsFiniteSet(V)
      BY <2>1, <2>2, FS_Subset
    <2> QED BY <2>3, FewAreWoken, FS_CardinalityType
  <1>2. sleepingAdders' # {} /\ ~(Capacity - Len(contents') <= Cardinality(V))
    BY DEF NoAdderLost
  <1>3. sleepingAdders # {} => Capacity - Len(contents) <= Cardinality(W)
    BY DEF NoAdderLost
  <1>4. Len(contents) \in Nat /\ Capacity \in Nat
    BY CollectionAssumption DEF TypesOK, DataOK
  <1>5. ASSUME UNCHANGED <<contents, call>>, sleepingAdders' \subseteq sleepingAdders
        PROVE  FALSE
    <2>1. W \subseteq V
      BY <1>5 DEF WokenAdders
    <2> HIDE DEF V, W
    <2>2. Cardinality(W) <= Cardinality(V)
      BY <1>1, <2>1, FS_Subset
    <2> QED BY <1>1, <1>2, <1>3, <1>4, <1>5, <2>2
  <1> HIDE DEF V, W
  <1>6. ASSUME NEW t \in Threads, WakeUp(t) PROVE FALSE
    BY <1>5, <1>6 DEF WakeUp, NotFull!Wake, notFullVars, dataVars, callVars
  <1>7. ASSUME NEW t \in Threads, Register(t) PROVE FALSE
    BY <1>5, <1>7 DEF Register, NotFull!Detach, notFullVars, dataVars, callVars
  <1>8. CASE Control
    <2>1. CASE BroadcastBoth
      BY <1>2, <2>1 DEF BroadcastBoth, NotFull!Broadcast
    <2>2. CASE Activate
      BY <1>5, <2>2 DEF Activate, dataVars, notFullVars, callVars
    <2> QED BY <1>8, <2>1, <2>2 DEF Control, CompleteAdding, Deactivate
  <1>9. ASSUME NEW t \in Threads, ThreadStep(t, Calls[t])
        PROVE  \/ Len(contents') + 1 < Len(contents)
               \/ \E c \in Calls[t] : c.op = "takePrioBulk" /\ Fetch(t, c)
               \/ ~IsFull /\ GivesUp(WokenAdders)
    BY <1>9, ThreadLosesAddersOnlySo
  <1> QED BY <1>6, <1>7, <1>8, <1>9, NextSteps

(* Without attached producers, room comes to lie beside sleeping adds only *)
(* by a flush, by a bulk take that wakes one add for much room, by         *)
(* takePrioBulk, which wakes none, or when a woken add gives up.           *)
THEOREM AddersAreLostOnlySo ==
    ASSUME "attachProducer" \notin Controls
    PROVE  CollectionSpec => AddersLostOnlySo
  <1>1. CollectionInit => producers = {} /\ RoomIsWaitedFor
    BY DEF CollectionInit, InitIn, NotFull!Empty, RoomIsWaitedFor
  <1>2. TypesOK /\ Makes(Calls) /\ producers = {} /\ [CollectionNext]_collectionVars
            => (producers = {})'
    BY NobodyAttaches
  <1>3. TypesOK /\ Makes(Calls) /\ RoomIsWaitedFor /\ [CollectionNext]_collectionVars
            => RoomIsWaitedFor'
    BY NextKeepsRoomIsWaitedFor
  <1>4. CollectionSpec => [](producers = {} /\ RoomIsWaitedFor)
    BY <1>1, <1>2, <1>3, TypesAlways, PTL DEF CollectionSpec
  <1>5. /\ TypesOK /\ Makes(Calls) /\ FewCalls /\ FewCalls' /\ RoomIsWaitedFor
        /\ producers = {} /\ [CollectionNext]_collectionVars
        => [NoAdderLost /\ ~NoAdderLost' =>
              \/ "flush" \in Controls /\ Flush
              \/ Len(contents') + 1 < Len(contents)
              \/ \E t \in Threads : \E c \in Calls[t] : c.op = "takePrioBulk" /\ Fetch(t, c)
              \/ ~IsFull /\ GivesUp(WokenAdders)]_collectionVars
    BY AddersLost
  <1> QED BY <1>4, <1>5, TypesAlways, FewCallsAlways, PTL DEF CollectionSpec, AddersLostOnlySo

-----------------------------------------------------------------------------
(* The elements are handed out in order.  What the buffer of the promise   *)
(* calls by its own names is the same as here.                             *)
LEMMA SameOperators ==
    /\ \A s, S : Buffer!Kept(s, S) = Kept(s, S)
    /\ \A s : Buffer!ToSet(s) = Elements(s)
  <1>1. \A s, S : Buffer!Kept(s, S) = Kept(s, S)
    BY Zenon DEF Buffer!Kept, Kept
  <1>2. \A s : Buffer!ToSet(s) = Elements(s)
    BY Zenon DEF Buffer!ToSet, Elements
  <1> QED BY <1>1, <1>2

LEMMA ItemsCounted ==
    ASSUME NEW s, IsItems(s)
    PROVE  Cardinality(Elements(s)) = Len(s)
  <1>1. s \in Seq(Items) /\ DOMAIN s = 1 .. Len(s) /\ Len(s) \in Nat
    BY DEF IsItems
  <1>2. IsFiniteSet(1 .. Len(s)) /\ Cardinality(1 .. Len(s)) = Len(s)
    BY <1>1, FS_Interval
  <1>3. s \in Bijection(1 .. Len(s), Elements(s))
    <2>1. s \in [1 .. Len(s) -> Elements(s)]
      BY <1>1 DEF Elements
    <2>2. IsInjective(s)
      BY DEF IsItems
    <2>3. \A x \in Elements(s) : \E i \in 1 .. Len(s) : s[i] = x
      BY <1>1 DEF Elements
    <2> QED BY <2>1, <2>2, <2>3 DEF Bijection, Injection, Surjection
  <1>4. ExistsBijection(1 .. Len(s), Elements(s))
    BY <1>3 DEF ExistsBijection
  <1> QED BY <1>2, <1>4, FS_Bijection

LEMMA SortedLength ==
    ASSUME NEW c, NEW a, Sorted(c, a)
    PROVE  Len(c) = Len(a)
  BY ItemsCounted DEF Sorted

(* Standing before means having the lower position. *)
LEMMA BeforeIsOlder ==
    ASSUME IsItems(arrivals), NEW x, NEW y, Before(arrivals, x, y)
    PROVE  Buffer!Older(x, y)
  <1>1. PICK i, j \in DOMAIN arrivals : i < j /\ arrivals[i] = x /\ arrivals[j] = y
    BY DEF Before
  <1>2. \A k, m \in DOMAIN arrivals : arrivals[k] = arrivals[m] => k = m
    BY DEF IsItems, IsInjective
  <1>3. Buffer!Position(x) = i /\ Buffer!Position(y) = j
    BY <1>1, <1>2 DEF Buffer!Position
  <1> QED BY <1>1, <1>3 DEF Buffer!Older

InArrivalOrder == Sorted(contents, arrivals)

WithinBounds == IsBounded => Len(contents) <= Capacity

(* A store accepts new elements, within the bounds. *)
LEMMA StoreAccepts ==
    ASSUME TypesOK, InArrivalOrder, Kind # "stack", NEW t \in Threads, NEW C, StoreStep(t, C)
    PROVE  InArrivalOrder' /\ WithinBounds' /\ Buffer!Accept
  <1>1. PICK c \in ProperCalls : c.op \in Adds /\ Open /\ Store(t, c)
    BY DEF StoreStep, Of
  <1>2. PICK xs \in Chosen(c) : contents' = Stored(c, xs) /\ arrivals' = arrivals \o xs
    BY <1>1 DEF Store
  <1> DEFINE n == Amount(c)
  <1>3. /\ contents \in Seq(Items) /\ arrivals \in Seq(Items) /\ DataOK
        /\ c \in CallTypes /\ (c.op = "add" => c.count = 1) /\ ~IsFull /\ c.count # 0
        /\ UNCHANGED isAddingCompleted /\ ~isAddingCompleted
    BY <1>1 DEF TypesOK, DataOK, ProperCalls, Store, Return, stateVars, Open
  <1>4. n \in Nat \ {0} /\ n <= c.count /\ (IsBounded => Len(contents) + n <= Capacity)
    BY <1>3, AmountIs
  <1>5. xs \in [1 .. n -> Items \ Elements(contents)] /\ IsInjective(xs)
    BY DEF Chosen, IsInjective
  <1> HIDE DEF n
  <1>6. InArrivalOrder'
    <2>1. CASE c.op = "add"
      <3>1. n = 1
        BY <1>3, <1>4, <2>1
      <3>2. xs[1] \in Items \ Elements(contents)
        BY <1>5, <3>1
      <3>3. contents' = PushBack(contents, xs[1])
        <4>1. contents' = Emplace(contents, xs[1])
          BY <1>2, <2>1 DEF Stored
        <4>2. Emplace(contents, xs[1]) = PushBack(contents, xs[1])
          BY ContainersAssumption DEF Emplace, PushBack
        <4> QED BY <4>1, <4>2
      <3>4. arrivals' = Append(arrivals, xs[1])
        <4> DEFINE x == xs[1]
        <4>1. xs = <<x>>
          BY <1>5, <3>1
        <4>2. x \in Items /\ arrivals' = arrivals \o <<x>>
          BY <1>2, <3>2, <4>1
        <4> HIDE DEF x
        <4>3. arrivals \o <<x>> = Append(arrivals, x)
          BY <1>3, <4>2
        <4> QED BY <4>2, <4>3 DEF x
      <3>5. Sorted(PushBack(contents, xs[1]), Append(arrivals, xs[1]))
        BY <3>2, SortedPushBack DEF InArrivalOrder
      <3> QED BY <3>3, <3>4, <3>5 DEF InArrivalOrder
    <2>2. CASE c.op # "add"
      <3>1. contents' = PushAll(contents, xs)
        BY <1>2, <2>2 DEF Stored
      <3>2. Sorted(PushAll(contents, xs), arrivals \o xs)
        BY <1>4, <1>5, SortedPushAll DEF InArrivalOrder
      <3> QED BY <1>2, <3>1, <3>2 DEF InArrivalOrder
    <2> QED BY <2>1, <2>2
  <1>7. PICK m \in Nat \ {0} :
            /\ Len(contents') = Len(contents) + m
            /\ IsBounded => Len(contents) + m <= Capacity
    BY <1>1, <1>3, StoreAdds
  <1>8. WithinBounds'
    BY <1>7 DEF WithinBounds, IsBounded
  <1>9. Buffer!Accept
    <2>1. xs \in [1 .. n -> Items \ Buffer!ToSet(arrivals)]
      <3>1. Elements(contents) = Elements(arrivals)
        BY DEF InArrivalOrder, Sorted
      <3> QED BY <1>5, <3>1, SameOperators
    <2>2. n \in 1 .. Len(arrivals')
      <3>1. xs \in Seq(Items)
        BY <1>4, <1>5
      <3>2. Len(xs) = n
        BY <1>4, <1>5
      <3>3. Len(arrivals \o xs) = Len(arrivals) + Len(xs)
        BY <1>3, <3>1, ConcatProperties
      <3>4. arrivals' = arrivals \o xs
        BY <1>2
      <3>5. Len(arrivals) \in Nat
        BY <1>3, LenProperties
      <3> HIDE <1>1, <1>2, <1>3, <1>7
      <3> QED BY <1>4, <3>2, <3>3, <3>4, <3>5
    <2>3. Capacity # SizeMax => Len(arrivals') <= Capacity
      <3>1. Len(contents') = Len(arrivals')
        BY <1>6, SortedLength DEF InArrivalOrder
      <3> QED BY <1>8, <3>1 DEF WithinBounds, IsBounded
    <2> QED BY <1>2, <1>3, <2>1, <2>2, <2>3 DEF Buffer!Accept
  <1> QED BY <1>6, <1>8, <1>9

(* A fetch hands out those whose turn it is. *)
LEMMA FetchHandsOut ==
    ASSUME TypesOK, InArrivalOrder, WithinBounds, Kind # "stack",
           NEW t \in Threads, NEW c \in ProperCalls, c.op \in Takes, c.count # 0, Fetch(t, c)
    PROVE  InArrivalOrder' /\ WithinBounds' /\ HandsOut(c)
  <1>1. c \in ProperCalls /\ c.op \in Takes /\ c.count # 0 /\ Fetch(t, c)
    OBVIOUS
  <1> DEFINE n == Fetched(c)
             fromBelow == FromBelow(c)
             out == Elements(contents) \ Elements(contents')
             rest == Elements(contents')
  <1>2. /\ contents \in Seq(Items) /\ DataOK /\ Len(contents) \in Nat
        /\ c \in CallTypes /\ (fromBelow => Kind = "priority") /\ ~IsEmpty
        /\ UNCHANGED isAddingCompleted
        /\ IsItems(arrivals) /\ IsItems(contents) /\ Elements(contents) = Elements(arrivals)
    BY <1>1 DEF TypesOK, DataOK, ProperCalls, Fetch, Return, stateVars, InArrivalOrder, Sorted,
                FromBelow
  <1>3. n \in Nat \ {0} /\ n <= Len(contents)
    BY <1>1, <1>2, FetchedIs
  <1>4. contents' = IF fromBelow THEN WithoutLowest(contents, n) ELSE WithoutFirst(contents, n)
    BY <1>1 DEF Fetch, Left, Fetched, FromBelow
  <1>5. arrivals' = Kept(arrivals, Elements(contents'))
    BY <1>1 DEF Fetch
  <1>6. PICK m \in Nat \ {0} : m <= Len(contents) /\ Len(contents') = Len(contents) - m
    BY <1>1, <1>2, FetchRemoves
  <1>7. contents' \in Seq(Items) /\ Len(contents') = Len(contents) - Fetched(c)
    BY <1>1, <1>2, FetchRemoves
  <1> HIDE DEF n
  <1>8. /\ InOrder(contents', contents)
        /\ fromBelow => \A x \in out, y \in rest : FirstFromBelow(arrivals, x, y)
        /\ ~fromBelow => \A x \in out, y \in rest : First(arrivals, x, y)
    <2>1. CASE fromBelow
      BY <1>2, <1>3, <1>4, <2>1, LowestAreTaken DEF InArrivalOrder
    <2>2. CASE ~fromBelow
      BY <1>2, <1>3, <1>4, <2>2, FirstAreTaken DEF InArrivalOrder
    <2> QED BY <2>1, <2>2
  <1>9. Sorted(contents', arrivals')
    BY <1>5, <1>7, <1>8, SortedKept DEF InArrivalOrder
  <1>10. WithinBounds'
    <2>1. Capacity \in Nat
      BY CollectionAssumption
    <2> QED BY <1>2, <1>6, <2>1 DEF WithinBounds, IsBounded
  <1>11. out # {} /\ rest \subseteq Elements(contents)
    <2>1. rest \subseteq Elements(contents)
      BY <1>2, <1>7, <1>8, InOrderIsItems
    <2>2. Elements(contents') # Elements(contents)
      <3>1. IsItems(contents')
        BY <1>9 DEF Sorted
      <3>2. Cardinality(Elements(contents')) = Len(contents')
        BY <3>1, ItemsCounted
      <3>3. Cardinality(Elements(contents)) = Len(contents)
        BY <1>2, ItemsCounted
      <3>4. Len(contents') # Len(contents)
        BY <1>2, <1>6
      <3> QED BY <3>2, <3>3, <3>4
    <2> QED BY <2>1, <2>2
  <1>12. /\ out \in SUBSET Buffer!ToSet(arrivals)
         /\ Buffer!ToSet(arrivals) \ out = rest
         /\ arrivals' = Buffer!Kept(arrivals, rest)
    BY <1>2, <1>5, <1>11, SameOperators
  <1> HIDE DEF out, rest
  <1>15. Len(contents) - Len(contents') = Min({c.count, Len(contents)})
    <2>1. Fetched(c) \in Nat
      BY <1>1, <1>2, FetchedIs
    <2>2. Len(contents) - Len(contents') = Fetched(c)
      BY <1>2, <1>7, <2>1
    <2> QED BY <2>2 DEF Fetched
  <1>13. CASE fromBelow
    <2>1. ASSUME NEW x \in out, NEW y \in rest PROVE Buffer!AheadFromBelow(x, y)
      <3>1. FirstFromBelow(arrivals, x, y)
        BY <1>8, <1>13
      <3> QED BY <1>2, <1>13, <3>1, BeforeIsOlder DEF FirstFromBelow, Buffer!AheadFromBelow
    <2>2. Buffer!HandOut(Buffer!AheadFromBelow)
      BY <1>2, <1>11, <1>12, <2>1 DEF Buffer!HandOut
    <2> QED BY <1>9, <1>10, <1>13, <1>15, <2>2 DEF InArrivalOrder, HandsOut
  <1>14. CASE ~fromBelow
    <2>1. ASSUME NEW x \in out, NEW y \in rest PROVE Buffer!Ahead(x, y)
      <3>1. First(arrivals, x, y)
        BY <1>8, <1>14
      <3>2. CASE Kind = "priority"
        BY <1>2, <3>1, <3>2, BeforeIsOlder DEF First, Buffer!Ahead
      <3>3. CASE Kind = "queue"
        BY <1>2, <3>1, <3>3, BeforeIsOlder DEF First, Buffer!Ahead
      <3> QED BY <3>2, <3>3, ContainersAssumption
    <2>2. Buffer!HandOut(Buffer!Ahead)
      BY <1>2, <1>11, <1>12, <2>1 DEF Buffer!HandOut
    <2> QED BY <1>9, <1>10, <1>14, <1>15, <2>2 DEF InArrivalOrder, HandsOut
  <1> QED BY <1>13, <1>14

LEMMA NothingIsSorted == Sorted(<<>>, <<>>)
  BY DEF Sorted, IsItems, InOrder, First, Before, Elements, IsInjective

(* Neither the elements nor the flag that closes the buffer are touched by *)
(* those who only wait, wake or leave.                                     *)
LEMMA OthersLeaveTheBuffer ==
    ASSUME NEW t, NEW C,
           AddSleep(t, C) \/ TakeSleep(t, C) \/ Refusal(t) \/ Expiry(t) \/ WakeUp(t) \/ Registration(t)
    PROVE  UNCHANGED <<contents, arrivals, isAddingCompleted>>
  BY DEF AddSleep, SleepNotFull, TakeSleep, SleepNotEmpty, Refusal, Refuse, Expiry, Expire,
         Return, WakeUp, Registration, dataVars, stateVars

LEMMA ControlIsPromised ==
    ASSUME InArrivalOrder, WithinBounds, Control
    PROVE  InArrivalOrder' /\ WithinBounds' /\ [Buffer!BufferNext]_(Buffer!bufferVars)
  <1>1. CASE Flush
    <2>1. contents' = <<>> /\ arrivals' = <<>> /\ UNCHANGED isAddingCompleted
      BY <1>1 DEF Flush, stateVars
    <2>2. InArrivalOrder'
      BY <2>1, NothingIsSorted DEF InArrivalOrder
    <2>3. WithinBounds'
      BY <2>1, CollectionAssumption DEF WithinBounds, IsBounded
    <2> QED BY <2>1, <2>2, <2>3 DEF Buffer!BufferNext, Buffer!Discard
  <1>2. CASE CompleteAdding
    <2>1. isAddingCompleted' = TRUE /\ UNCHANGED <<contents, arrivals>>
      BY <1>2 DEF CompleteAdding, dataVars
    <2>2. InArrivalOrder' /\ WithinBounds'
      BY <2>1 DEF InArrivalOrder, WithinBounds, IsBounded
    <2> QED BY <2>1, <2>2 DEF Buffer!BufferNext, Buffer!Close
  <1>3. CASE UNCHANGED <<contents, arrivals, isAddingCompleted>>
    BY <1>3 DEF InArrivalOrder, WithinBounds, IsBounded, Buffer!bufferVars
  <1> QED BY <1>1, <1>2, <1>3 DEF Control, Deactivate, Activate, dataVars

LEMMA NextIsPromised ==
    ASSUME Kind # "stack", TypesOK, Makes(Calls), InArrivalOrder, WithinBounds,
           [CollectionNext]_collectionVars
    PROVE  InArrivalOrder' /\ WithinBounds' /\ [Buffer!BufferNext]_(Buffer!bufferVars)
  <1>1. CASE UNCHANGED <<contents, arrivals, isAddingCompleted>>
    BY <1>1 DEF InArrivalOrder, WithinBounds, IsBounded, Buffer!bufferVars
  <1>2. ASSUME NEW t \in Threads, StoreStep(t, Calls[t])
        PROVE  InArrivalOrder' /\ WithinBounds' /\ Buffer!BufferNext
    BY <1>2, StoreAccepts DEF Buffer!BufferNext
  <1>3. ASSUME NEW t \in Threads, FetchStep(t, Calls[t])
        PROVE  InArrivalOrder' /\ WithinBounds' /\ Buffer!BufferNext
    <2>1. PICK c \in ProperCalls : c.op \in Takes /\ c.count # 0 /\ Fetch(t, c)
      BY <1>3 DEF FetchStep, Of
    <2>2. InArrivalOrder' /\ WithinBounds' /\ HandsOut(c)
      BY <2>1, FetchHandsOut
    <2> QED BY <2>2 DEF HandsOut, Buffer!BufferNext
  <1>4. ASSUME NEW t \in Threads, ThreadStep(t, Calls[t]) \/ WakeUp(t) \/ Register(t)
        PROVE  \/ StoreStep(t, Calls[t]) \/ FetchStep(t, Calls[t])
               \/ UNCHANGED <<contents, arrivals, isAddingCompleted>>
    BY <1>4, OthersLeaveTheBuffer, RegisterIs DEF ThreadStep
  <1>5. CASE UNCHANGED collectionVars
    BY <1>1, <1>5 DEF collectionVars, dataVars, stateVars
  <1> QED BY <1>1, <1>2, <1>3, <1>4, <1>5, NextSteps, ControlIsPromised

(* A queue and a priority collection keep the promise of the buffer: the   *)
(* element that is handed out is the oldest, of the highest priority or,   *)
(* to those who ask from below, of the lowest; no more than Capacity lie   *)
(* in it; none is added after completing; and an element leaves once.      *)
THEOREM KeepsThePromise ==
    ASSUME Kind # "stack"
    PROVE  CollectionSpec => ImplementsBuffer
  <1>1. CollectionInit => InArrivalOrder /\ WithinBounds /\ Buffer!BufferInit
    <2> SUFFICES ASSUME CollectionInit PROVE InArrivalOrder /\ WithinBounds /\ Buffer!BufferInit
      OBVIOUS
    <2>1. contents = <<>> /\ arrivals = <<>> /\ isAddingCompleted = FALSE
      BY DEF CollectionInit, InitIn
    <2>2. WithinBounds
      BY <2>1, CollectionAssumption DEF WithinBounds, IsBounded
    <2> QED BY <2>1, <2>2, NothingIsSorted DEF InArrivalOrder, Buffer!BufferInit
  <1>2. TypesOK /\ Makes(Calls) /\ InArrivalOrder /\ WithinBounds /\ [CollectionNext]_collectionVars
            => InArrivalOrder' /\ WithinBounds' /\ [Buffer!BufferNext]_(Buffer!bufferVars)
    BY NextIsPromised
  <1>3. TypesOK /\ InArrivalOrder /\ WithinBounds
            => [\A t \in Threads : \A c \in Calls[t] :
                   c.op \in Takes /\ c.count # 0 /\ Fetch(t, c) => HandsOut(c)]_collectionVars
    BY FetchHandsOut, CallsAreProper
  <1> QED BY <1>1, <1>2, <1>3, TypesAlways, PTL DEF CollectionSpec, ImplementsBuffer, Buffer!BufferSpec

-----------------------------------------------------------------------------
(* The collection as ThreadDeleter uses it.  Nobody deactivates or pulses  *)
(* it, nobody flushes it.                                                  *)
Undisturbed == state = "Activated"

LEMMA CallsOfTheDeleter ==
    ASSUME Calls = DeleterCalls, NEW t \in Threads, NEW c \in Calls[t]
    PROVE  /\ c.count = 1 /\ c.wait = "forever" /\ c # NoCall
           /\ c.op = IF t = Taker THEN "take" ELSE "add"
  <1>1. c = [op |-> IF t = Taker THEN "take" ELSE "add", wait |-> "forever", count |-> 1]
    BY DEF DeleterCalls
  <1>2. /\ c.count = 1 /\ c.wait = "forever"
        /\ c.op = IF t = Taker THEN "take" ELSE "add"
    BY <1>1
  <1>3. c # NoCall
    <2>1. c.op # "none" /\ NoCall.op = "none"
      BY <1>2 DEF NoCall
    <2> QED BY <2>1
  <1> QED BY <1>2, <1>3

(* An add appends, a take removes the head. *)
LEMMA AddHands ==
    ASSUME Kind = "queue", Calls = DeleterCalls, Taker \in Threads, TypesOK,
           NEW t \in Threads, StoreStep(t, Calls[t])
    PROVE  \E x \in Items : Handover!Hand(x)
  <1>1. PICK c \in Calls[t] : c.op \in Adds /\ Open /\ Store(t, c)
    BY DEF StoreStep
  <1>2. c.count = 1 /\ c.op = "add" /\ t # Taker /\ c \in CallTypes
    BY <1>1, CallsOfTheDeleter, CallsAreProper, OpsAreApart DEF ProperCalls, Adds, Takes
  <1>3. PICK xs \in Chosen(c) : contents' = Stored(c, xs)
    BY <1>1 DEF Store
  <1> DEFINE n == Amount(c)
  <1>4. n = 1
    <2>1. DataOK /\ ~IsFull /\ c.count # 0
      BY <1>1 DEF TypesOK, Store
    <2>2. n \in Nat \ {0} /\ n <= c.count
      BY <1>2, <2>1, AmountIs
    <2> QED BY <1>2, <2>2
  <1>5. xs \in [1 .. n -> Items]
    BY DEF Chosen
  <1> HIDE DEF n
  <1>6. xs[1] \in Items
    BY <1>4, <1>5
  <1>7. contents' = Append(contents, xs[1])
    <2>1. contents' = Emplace(contents, xs[1])
      BY <1>2, <1>3 DEF Stored
    <2>2. Emplace(contents, xs[1]) = Append(contents, xs[1])
      BY Zenon DEF Emplace
    <2> QED BY <2>1, <2>2
  <1>8. UNCHANGED isAddingCompleted /\ ~isAddingCompleted /\ call'[Taker] = call[Taker]
    BY <1>1, <1>2 DEF Store, Return, stateVars, Open, TypesOK, CallsOK
  <1> QED BY <1>6, <1>7, <1>8 DEF Handover!Hand

LEMMA TakeReceives ==
    ASSUME Kind = "queue", Calls = DeleterCalls, Taker \in Threads, TypesOK,
           NEW t \in Threads, FetchStep(t, Calls[t])
    PROVE  Handover!Receive
  <1>1. PICK c \in Calls[t] : c.op \in Takes /\ Fetch(t, c)
    BY DEF FetchStep
  <1>2. c.count = 1 /\ c.op = "take" /\ t = Taker /\ c \in CallTypes
    BY <1>1, CallsOfTheDeleter, CallsAreProper, OpsAreApart DEF ProperCalls, Adds, Takes
  <1> DEFINE n == Fetched(c)
  <1>3. contents \in Seq(Items) /\ contents # <<>> /\ Len(contents) \in Nat \ {0}
    BY <1>1, EmptySeq DEF TypesOK, DataOK, Fetch, IsEmpty
  <1>4. n = 1
    <2>1. n \in Nat \ {0} /\ n <= Len(contents)
      BY <1>1, <1>2, FetchedIs DEF TypesOK, Fetch
    <2>2. n = IF c.count <= Len(contents) THEN c.count ELSE Len(contents)
      BY <1>2, <1>3, MinProperty DEF Fetched
    <2> QED BY <1>2, <1>3, <2>2
  <1>5. contents' = WithoutFirst(contents, n)
    BY <1>1, <1>2 DEF Fetch, Left, Fetched
  <1> HIDE DEF n
  <1>6. contents' = Tail(contents)
    <2>1. /\ contents' \in Seq(Items) /\ Len(contents') = Len(contents) - 1
          /\ \A j \in 1 .. Len(contents) - 1 : contents'[j] = contents[1 + j]
      <3>1. 1 \in 0 .. Len(contents)
        BY <1>3
      <3> QED BY <1>3, <1>4, <1>5, <3>1, WithoutFirstIs
    <2>2. /\ Tail(contents) \in Seq(Items) /\ Len(Tail(contents)) = Len(contents) - 1
          /\ \A j \in 1 .. Len(contents) - 1 : Tail(contents)[j] = contents[j + 1]
      BY <1>3, HeadTailProperties
    <2>3. \A j \in 1 .. Len(contents) - 1 : contents'[j] = Tail(contents)[j]
      BY <1>3, <2>1, <2>2
    <2> HIDE <1>5
    <2> QED BY <2>1, <2>2, <2>3, SeqEqual
  <1>7. UNCHANGED isAddingCompleted /\ call'[Taker] = NoCall
    BY <1>1, <1>2 DEF Fetch, Return, stateVars, TypesOK, CallsOK
  <1> QED BY <1>3, <1>6, <1>7 DEF Handover!Receive

(* The deleter's call ends empty-handed only when no worker will come. *)
LEMMA TakeGivesUp ==
    ASSUME Calls = DeleterCalls, Taker \in Threads, TypesOK, Makes(Calls), Undisturbed,
           Resume(Taker), NEW s, Refuse(Taker, s)
    PROVE  Handover!GiveUp
  <1>1. call[Taker] # NoCall /\ call[Taker].op = "take" /\ call[Taker].wait = "forever"
    <2>1. call[Taker] # NoCall
      BY NoCallIsNone DEF Resume, AddResume, TakeResume
    <2>2. call[Taker] \in Calls[Taker]
      BY <2>1 DEF Makes
    <2> QED BY <2>1, <2>2, CallsOfTheDeleter
  <1>2. TakeResume(Taker)
    BY <1>1 DEF Resume, AddResume, Adds
  <1>3. call'[Taker] = NoCall /\ UNCHANGED <<contents, isAddingCompleted, stateVars>>
    BY DEF Refuse, Return, dataVars, stateVars, TypesOK, CallsOK
  <1>4. ~Fetch(Taker, call[Taker])
    <2>1. call[Taker] \in ProperCalls /\ call[Taker].count # 0
      BY <1>1 DEF TypesOK, CallsOK, Takes
    <2>2. Fetch(Taker, call[Taker]) => Len(contents') # Len(contents)
      <3> SUFFICES ASSUME Fetch(Taker, call[Taker]) PROVE Len(contents') # Len(contents)
        OBVIOUS
      <3>1. PICK n \in Nat \ {0} : n <= Len(contents) /\ Len(contents') = Len(contents) - n
        BY <2>1, FetchRemoves DEF TypesOK
      <3>2. Len(contents) \in Nat
        BY DEF TypesOK, DataOK
      <3> QED BY <3>1, <3>2
    <2> QED BY <1>3, <2>2
  <1>5. ~SleepNotEmpty(Taker, call[Taker])
    BY <1>1, <1>3 DEF SleepNotEmpty, TypesOK, CallsOK
  <1>6. IsEmpty /\ isAddingCompleted
    BY <1>1, <1>2, <1>4, <1>5 DEF TakeResume, TakeLoop, Undisturbed
  <1> QED BY <1>3, <1>6 DEF Handover!GiveUp, IsEmpty

LEMMA DeleterSteps ==
    ASSUME Kind = "queue", Calls = DeleterCalls, Taker \in Threads, Controls = {"completeAdding"},
           TypesOK, Makes(Calls), Undisturbed, [CollectionNext]_collectionVars
    PROVE  Undisturbed' /\ [Handover!HandoverNext]_(Handover!handoverVars)
  <1> DEFINE Step == [Handover!HandoverNext]_(Handover!handoverVars)
  <1>1. ASSUME NEW t \in Threads, StoreStep(t, Calls[t]) PROVE Step
    BY <1>1, AddHands DEF Handover!HandoverNext
  <1>2. ASSUME NEW t \in Threads, FetchStep(t, Calls[t]) PROVE Step
    BY <1>2, TakeReceives DEF Handover!HandoverNext
  <1>3. ASSUME UNCHANGED <<contents, isAddingCompleted>>, call'[Taker] = call[Taker] PROVE Step
    BY <1>3 DEF Handover!handoverVars
  <1>4. ASSUME NEW t \in Threads, AddSleep(t, Calls[t]) PROVE Step
    <2>1. t # Taker
      BY <1>4, CallsOfTheDeleter DEF AddSleep, Adds
    <2> QED BY <1>3, <1>4, <2>1 DEF AddSleep, SleepNotFull, dataVars, stateVars, TypesOK, CallsOK
  <1>5. ASSUME NEW t \in Threads, TakeSleep(t, Calls[t]) PROVE Step
    <2>1. PICK c \in Calls[t] : c.op \in Takes /\ SleepNotEmpty(t, c)
      BY <1>5 DEF TakeSleep
    <2>2. t = Taker /\ c # NoCall
      BY <2>1, CallsOfTheDeleter DEF Takes
    <2>3. UNCHANGED <<contents, isAddingCompleted>> /\ call'[Taker] # NoCall
      BY <2>1, <2>2 DEF SleepNotEmpty, dataVars, stateVars, TypesOK, CallsOK
    <2>4. (call'[Taker] # NoCall) = TRUE
      BY <2>3
    <2> QED BY <2>3, <2>4 DEF Handover!Ask, Handover!HandoverNext
  <1>6. ASSUME NEW t \in Threads, Expiry(t) PROVE Step
    <2>1. call[t].wait = "timed" /\ call[t] # NoCall
      BY <1>6, NoCallIsNone DEF Expiry
    <2> QED BY <2>1, CallsOfTheDeleter DEF Makes
  <1>7. ASSUME NEW t \in Threads, NEW s, Refuse(t, s), t = Taker => Resume(t) \/ call[t] = NoCall
        PROVE  Step
    <2>1. CASE t # Taker \/ call[t] = NoCall
      <3>1. call'[Taker] = call[Taker] /\ UNCHANGED <<contents, isAddingCompleted>>
        BY <1>7, <2>1 DEF Refuse, Return, dataVars, stateVars, TypesOK, CallsOK
      <3> QED BY <1>3, <3>1
    <2>2. CASE t = Taker /\ Resume(t)
      BY <1>7, <2>2, TakeGivesUp DEF Handover!HandoverNext
    <2> QED BY <1>7, <2>1, <2>2
  <1>8. ASSUME NEW t \in Threads, Start(t) \/ Resume(t) PROVE Step
    <2>1. ThreadStep(t, Calls[t])
      BY <1>8, ThreadSteps
    <2>2. call[t] = NoCall \/ Resume(t)
      BY <1>8 DEF Start, Add, Take, FetchNothing
    <2> QED BY <1>1, <1>2, <1>4, <1>5, <1>6, <1>7, <2>1, <2>2 DEF ThreadStep, Refusal
  <1>9. ASSUME NEW t \in Threads, WakeUp(t) \/ Register(t) PROVE Step
    BY <1>3, <1>9 DEF WakeUp, Register, dataVars, stateVars, callVars
  <1>10. ASSUME Control PROVE Step
    <2>1. CompleteAdding
      BY <1>10 DEF Control
    <2> QED BY <2>1 DEF CompleteAdding, dataVars, callVars, Handover!Complete, Handover!HandoverNext
  <1>11. ASSUME UNCHANGED collectionVars PROVE Step
    BY <1>3, <1>11 DEF collectionVars, dataVars, stateVars, callVars
  <1>12. Undisturbed'
    <2>1. \A t \in Threads : Start(t) \/ Resume(t) => ThreadStep(t, Calls[t])
      BY ThreadSteps
    <2>2. ASSUME NEW t \in Threads, ThreadStep(t, Calls[t]) PROVE UNCHANGED state
      BY <2>2 DEF ThreadStep, StoreStep, Store, AddSleep, SleepNotFull, FetchStep, Fetch,
                  TakeSleep, SleepNotEmpty, Refusal, Refuse, Expiry, Expire, Return, stateVars
    <2>3. ASSUME NEW t \in Threads, WakeUp(t) \/ Register(t) PROVE UNCHANGED state
      BY <2>3 DEF WakeUp, Register, stateVars
    <2>4. Control => UNCHANGED state
      BY DEF Control, CompleteAdding
    <2>5. UNCHANGED collectionVars => UNCHANGED state
      BY DEF collectionVars, stateVars
    <2> QED BY <2>1, <2>2, <2>3, <2>4, <2>5 DEF CollectionNext, Undisturbed
  <1> QED BY <1>8, <1>9, <1>10, <1>11, <1>12 DEF CollectionNext

(* For any number of threads that hand workers over, threads_ behaves like *)
(* the queue that the ThreadDeleter of the server's model has: in order,   *)
(* nothing lost, nothing twice, and the deleter is sent home only when     *)
(* adding is completed and the queue is empty.                             *)
THEOREM DeleterHasAQueue ==
    ASSUME Kind = "queue", Calls = DeleterCalls, Taker \in Threads,
           Controls = {"completeAdding"}
    PROVE  CollectionSpec => Handover!HandoverSafety
  <1>1. CollectionInit => /\ Undisturbed /\ contents = <<>> /\ ~isAddingCompleted
                          /\ (call[Taker] # NoCall) \in BOOLEAN
    BY DEF CollectionInit, InitIn, Undisturbed
  <1>2. TypesOK /\ Makes(Calls) /\ Undisturbed /\ [CollectionNext]_collectionVars
            => Undisturbed' /\ [Handover!HandoverNext]_(Handover!handoverVars)
    BY DeleterSteps
  <1> QED BY <1>1, <1>2, TypesAlways, PTL DEF CollectionSpec, Handover!HandoverSafety
=============================================================================
