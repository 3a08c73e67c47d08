------------------------- MODULE BlockingCollection -------------------------
(***************************************************************************)
(* code_machina::BlockingCollection and PriorityBlockingCollection: a      *)
(* container with blocking, timed and immediate adds and takes, that can   *)
(* be completed, deactivated, pulsed and flushed.                          *)
(*                                                                         *)
(* Everything an operation does between taking the lock and releasing it,  *)
(* at its end or in a wait, is one step.  A waiting call is in call[t]; it *)
(* sleeps as long as t is asleep on the call's condition variable.  The    *)
(* elements that are in the collection differ from each other, so that     *)
(* they can be told apart; which element an add stores is chosen when it   *)
(* is stored, since nothing depends on it before.                          *)
(***************************************************************************)
EXTENDS Containers, Subsequences, FiniteSets

CONSTANTS
    Threads,
    Calls,          \* the calls each thread makes
    Controls,       \* the other operations they use
    Capacity,       \* bounded_capacity_
    SizeMax,        \* SIZE_MAX, the capacity of an unbounded collection
    ItemsPerThread  \* of the signal strategies

Adds  == {"add", "addBulk"}
Takes == {"take", "takeBulk", "takePrio", "takePrioBulk"}
Waits == {"now", "timed", "forever"}
CallTypes == [op : Adds \cup Takes, wait : Waits, count : Nat]

(* A bulk call carries any number of elements, the others one; only a      *)
(* PriorityBlockingCollection takes from the low end.                      *)
ASSUME CollectionAssumption ==
    /\ Calls \in [Threads -> SUBSET CallTypes]
    /\ \A t \in Threads : \A c \in Calls[t] :
         /\ c.op \in {"add", "take", "takePrio"} => c.count = 1
         /\ c.op \in {"takePrio", "takePrioBulk"} => Kind = "priority"
    /\ Capacity \in Nat /\ SizeMax \in Nat /\ Capacity <= SizeMax
    /\ ItemsPerThread \in Nat

NoCall == [op |-> "none"]

VARIABLES
    contents,           \* container_
    state,              \* state_
    isAddingCompleted,  \* is_adding_completed_
    consumers, activeConsumers, sleepingTakers, \* not_empty_condition_var_
    producers, activeProducers, sleepingAdders, \* not_full_condition_var_
    call,               \* the call a thread waits in, or NoCall
    returned,           \* what the call that ended last returned
    arrivals            \* auxiliary: the contents in order of arrival

NotEmpty == INSTANCE ConditionVariable WITH
    attached <- consumers, active <- activeConsumers, asleep <- sleepingTakers
NotFull == INSTANCE ConditionVariable WITH
    attached <- producers, active <- activeProducers, asleep <- sleepingAdders

notEmptyVars == <<consumers, activeConsumers, sleepingTakers>>
notFullVars  == <<producers, activeProducers, sleepingAdders>>
dataVars     == <<contents, arrivals>>
stateVars    == <<state, isAddingCompleted>>
callVars     == <<call, returned>>
collectionVars == <<dataVars, stateVars, notEmptyVars, notFullVars, callVars>>

IsBounded == Capacity # SizeMax

IsFull  == IsBounded /\ Len(contents) >= Capacity
IsEmpty == contents = <<>>
IsCompleted == isAddingCompleted /\ IsEmpty

-----------------------------------------------------------------------------
Return(t, s) ==
    /\ call' = [call EXCEPT ![t] = NoCall]
    /\ returned' = s
    /\ UNCHANGED stateVars

(* The call is over without effect on the collection. *)
Refuse(t, s) == Return(t, s) /\ UNCHANGED <<dataVars, notEmptyVars, notFullVars>>

Expire(t) == Return(t, "TimedOut") /\ UNCHANGED dataVars

(* The elements an add stores: a bulk add stops when the collection is     *)
(* full.                                                                   *)
Amount(c) ==
    IF IsBounded THEN Min({c.count, Capacity - Len(contents)}) ELSE c.count

Chosen(c) ==
    {xs \in [1 .. Amount(c) -> Items \ Elements(contents)] :
        \A i, j \in DOMAIN xs : xs[i] = xs[j] => i = j}

Stored(c, xs) == IF c.op = "add" THEN Emplace(contents, xs[1]) ELSE PushAll(contents, xs)

(* Mutation: the consumers are not told. *)
StoreQuietly(t, c) ==
    /\ ~IsFull
    /\ c.count # 0
    /\ \E xs \in Chosen(c) : contents' = Stored(c, xs) /\ arrivals' = arrivals \o xs
    /\ Return(t, "Ok")
    /\ UNCHANGED <<notEmptyVars, notFullVars>>

(* Room was found: store, and signal once. *)
Store(t, c) ==
    /\ ~IsFull
    /\ c.count # 0
    /\ \E xs \in Chosen(c) : contents' = Stored(c, xs) /\ arrivals' = arrivals \o xs
    /\ NotEmpty!Signal(Len(contents'))
    /\ Return(t, "Ok")
    /\ UNCHANGED notFullVars

(* A bulk add without elements finds out when there is room. *)
StoreNothing(t, c) ==
    /\ ~IsFull
    /\ c.count = 0
    /\ Refuse(t, "InvalidIterators")

SleepNotFull(t, c) ==
    /\ IsFull
    /\ c.wait # "now"
    /\ call' = [call EXCEPT ![t] = c]
    /\ NotFull!Wait(t)
    /\ UNCHANGED <<dataVars, stateVars, notEmptyVars, returned>>

(* The loop of wait_not_full_condition.  That adding is completed is seen  *)
(* before, on entry or after a wait.                                       *)
AddLoop(t, c) ==
    \/ Store(t, c)
    \/ StoreNothing(t, c)
    \/ IsFull /\ c.wait = "now" /\ Refuse(t, "TimedOut")
    \/ SleepNotFull(t, c)

Add(t, c) ==
    /\ call[t] = NoCall
    /\ \/ state = "Deactivated" /\ Refuse(t, "NotActivated")
       \/ state # "Deactivated" /\ isAddingCompleted /\ Refuse(t, "AddingCompleted")
       \/ state # "Deactivated" /\ ~isAddingCompleted /\ AddLoop(t, c)

(* A timed wait may report a timeout although a notification ended it: the *)
(* clock is read when the lock has been taken again.                       *)
AddResume(t) ==
    /\ call[t].op \in Adds
    /\ t \notin sleepingAdders
    /\ \/ /\ call[t].wait = "timed"
          /\ NotFull!TimedOut
          /\ Expire(t)
          /\ UNCHANGED notEmptyVars
       \/ isAddingCompleted /\ Refuse(t, "CompleteAddingConcurrent")
       \/ ~isAddingCompleted /\ state # "Activated" /\ Refuse(t, "NotActivated")
       \/ ~isAddingCompleted /\ state = "Activated" /\ AddLoop(t, call[t])

-----------------------------------------------------------------------------
(* The contents after a take. *)
Left(c) ==
    LET n == Min({c.count, Len(contents)})
    IN  IF c.op \in {"takePrio", "takePrioBulk"}
        THEN WithoutLowest(contents, n) ELSE WithoutFirst(contents, n)

(* Mutation: nobody is told that there is room. *)
SignalNoRoom(c) == UNCHANGED notFullVars

(* try_take_prio_bulk is the one that tells nobody. *)
SignalRoom(c) ==
    IF IsBounded /\ c.op # "takePrioBulk"
    THEN NotFull!Signal(Capacity - Len(contents')) ELSE UNCHANGED notFullVars

(* An element was found: remove as many as there are, up to count. *)
Fetch(t, c) ==
    /\ ~IsEmpty
    /\ contents' = Left(c)
    /\ arrivals' = Kept(arrivals, Elements(contents'))
    /\ SignalRoom(c)
    /\ Return(t, "Ok")
    /\ UNCHANGED notEmptyVars

(* A bulk take of no elements does not even take the lock. *)
FetchNothing(t, c) ==
    /\ call[t] = NoCall
    /\ c.count = 0
    /\ Refuse(t, "Ok")

SleepNotEmpty(t, c) ==
    /\ call' = [call EXCEPT ![t] = c]
    /\ NotEmpty!Wait(t)
    /\ UNCHANGED <<dataVars, stateVars, notFullVars, returned>>

(* Mutation: adding may have been completed during the wait. *)
TakeLoopForgetful(t, c) ==
    \/ Fetch(t, c)
    \/ IsEmpty /\ c.wait = "now" /\ Refuse(t, "TimedOut")
    \/ IsEmpty /\ c.wait # "now" /\ SleepNotEmpty(t, c)

(* The loop of wait_not_empty_condition. *)
TakeLoop(t, c) ==
    \/ Fetch(t, c)
    \/ IsEmpty /\ c.wait = "now" /\ Refuse(t, "TimedOut")
    \/ IsEmpty /\ c.wait # "now" /\ isAddingCompleted /\ Refuse(t, "AddingCompleted")
    \/ IsEmpty /\ c.wait # "now" /\ ~isAddingCompleted /\ SleepNotEmpty(t, c)

Take(t, c) ==
    /\ call[t] = NoCall
    /\ c.count # 0
    /\ \/ state = "Deactivated" /\ Refuse(t, "NotActivated")
       \/ state # "Deactivated" /\ IsCompleted /\ Refuse(t, "Completed")
       \/ state # "Deactivated" /\ ~IsCompleted /\ TakeLoop(t, c)

TakeResume(t) ==
    /\ call[t].op \in Takes
    /\ t \notin sleepingTakers
    /\ \/ /\ call[t].wait = "timed"
          /\ NotEmpty!TimedOut
          /\ Expire(t)
          /\ UNCHANGED notFullVars
       \/ state # "Activated" /\ Refuse(t, "NotActivated")
       \/ state = "Activated" /\ TakeLoop(t, call[t])

-----------------------------------------------------------------------------
(* The condition variables wake their sleepers up spuriously, or when      *)
(* their time is over.                                                     *)
WakeUp(t) ==
    /\ \/ NotEmpty!Wake(t) /\ UNCHANGED notFullVars
       \/ NotFull!Wake(t) /\ UNCHANGED notEmptyVars
    /\ UNCHANGED <<dataVars, stateVars, callVars>>

BroadcastBoth == NotEmpty!Broadcast /\ NotFull!Broadcast

Flush ==
    /\ contents' = <<>> /\ arrivals' = <<>>
    /\ UNCHANGED <<stateVars, notEmptyVars, notFullVars, callVars>>

(* Mutation: only the producers are woken. *)
CompleteAddingHalf ==
    /\ ~isAddingCompleted
    /\ isAddingCompleted' = TRUE
    /\ NotFull!Broadcast
    /\ UNCHANGED <<dataVars, state, callVars, notEmptyVars>>

CompleteAdding ==
    /\ ~isAddingCompleted
    /\ isAddingCompleted' = TRUE
    /\ BroadcastBoth
    /\ UNCHANGED <<dataVars, state, callVars>>

(* deactivate and pulse; neither has an effect on a deactivated collection.*)
Deactivate(to) ==
    /\ state # "Deactivated"
    /\ state' = to
    /\ BroadcastBoth
    /\ UNCHANGED <<dataVars, isAddingCompleted, callVars>>

Activate ==
    /\ state' = "Activated"
    /\ UNCHANGED <<dataVars, isAddingCompleted, notEmptyVars, notFullVars, callVars>>

(* A thread attaches or detaches itself, so it is not waiting meanwhile. *)
Register(t) ==
    /\ call[t] = NoCall
    /\ \/ /\ \/ "attachConsumer" \in Controls /\ NotEmpty!Attach(t)
             \/ "detachConsumer" \in Controls /\ NotEmpty!Detach(t)
          /\ UNCHANGED notFullVars
       \/ /\ \/ "attachProducer" \in Controls /\ NotFull!Attach(t)
             \/ "detachProducer" \in Controls /\ NotFull!Detach(t)
          /\ UNCHANGED notEmptyVars
    /\ UNCHANGED <<dataVars, stateVars, callVars>>

Control ==
    \/ "flush" \in Controls /\ Flush
    \/ "completeAdding" \in Controls /\ CompleteAdding
    \/ "deactivate" \in Controls /\ Deactivate("Deactivated")
    \/ "pulse" \in Controls /\ Deactivate("Pulsed")
    \/ "activate" \in Controls /\ Activate

-----------------------------------------------------------------------------
InitIn(s) ==
    /\ contents = <<>> /\ arrivals = <<>>
    /\ state = s
    /\ isAddingCompleted = FALSE
    /\ NotEmpty!Empty /\ NotFull!Empty
    /\ call = [t \in Threads |-> NoCall]
    /\ returned = "none"

CollectionInit == InitIn("Activated")

Start(t) ==
    \E c \in Calls[t] :
        \/ c.op \in Adds /\ Add(t, c)
        \/ c.op \in Takes /\ Take(t, c)
        \/ c.op \in Takes /\ FetchNothing(t, c)

Resume(t) == AddResume(t) \/ TakeResume(t)

CollectionNext ==
    \/ \E t \in Threads : Start(t) \/ Resume(t) \/ WakeUp(t) \/ Register(t)
    \/ Control

CollectionSpec == CollectionInit /\ [][CollectionNext]_collectionVars

(* A thread that is awake in a call is scheduled again and again. *)
FairCollection == CollectionSpec /\ \A t \in Threads : WF_collectionVars(Resume(t))
=============================================================================
