-------------------------- MODULE ConditionVariable --------------------------
(***************************************************************************)
(* code_machina::ConditionVariable: an operating system's condition        *)
(* variable, with the threads attached to it and a count of those of them  *)
(* that are thought to be active, which spares notifications.  Every       *)
(* operation runs under the collection's lock.                             *)
(***************************************************************************)
EXTENDS Naturals, FiniteSets

CONSTANT ItemsPerThread     \* of the signal strategies

VARIABLES
    attached,   \* container_: the attached threads; total_workers_ is their number
    active,     \* active_workers_
    asleep      \* the threads blocked in wait or wait_for

cvVars == <<attached, active, asleep>>

Total == Cardinality(attached)

Increment(n, total) == IF n + 1 > total THEN total ELSE n + 1
Decrement(n) == IF n > 0 THEN n - 1 ELSE 0

(* notify_one: some sleeping thread wakes up, if there is one. *)
NotifyOne ==
    \/ asleep = {} /\ UNCHANGED asleep
    \/ \E t \in asleep : asleep' = asleep \ {t}

(* Mutation: a thread that is attached already is counted again. *)
AttachAgain(t) ==
    /\ attached' = attached \cup {t}
    /\ active' = Increment(active, Total + 1)
    /\ UNCHANGED asleep

Attach(t) ==
    /\ attached' = attached \cup {t}
    /\ active' = IF t \in attached THEN active ELSE Increment(active, Total + 1)
    /\ UNCHANGED asleep

(* Mutation: the last active worker leaves without waking another. *)
DetachQuietly(t) ==
    /\ attached' = attached \ {t}
    /\ active' = IF t \in attached THEN Decrement(active) ELSE active
    /\ UNCHANGED asleep

(* When the last active worker leaves, a sleeping one takes over. *)
Detach(t) ==
    LET remaining == IF t \in attached THEN Decrement(active) ELSE active
    IN  /\ attached' = attached \ {t}
        /\ IF attached' # {} /\ remaining = 0
           THEN active' = 1 /\ NotifyOne
           ELSE active' = remaining /\ UNCHANGED asleep

(* Mutation: nobody is notified when no worker is active. *)
ShouldSignalIfBusy(amount) ==
    IF active = 0 THEN FALSE ELSE active < Total /\ amount \div active > ItemsPerThread

(* Without attached workers always; with them, only when none is active,   *)
(* or when each of the active ones would have more than its share of       *)
(* "amount", the items to take or the room to fill.                        *)
ShouldSignal(amount) ==
    active # 0 => active < Total /\ amount \div active > ItemsPerThread

Signal(amount) ==
    /\ UNCHANGED attached
    /\ \/ attached = {} /\ NotifyOne /\ UNCHANGED active
       \/ attached # {} /\ ShouldSignal(amount)
            /\ NotifyOne /\ active' = Increment(active, Total)
       \/ attached # {} /\ ~ShouldSignal(amount) /\ UNCHANGED <<active, asleep>>

Broadcast ==
    /\ active' = IF attached = {} THEN active ELSE Total
    /\ asleep' = {}
    /\ UNCHANGED attached

(* Mutation: a thread that waits still counts as active. *)
WaitUncounted(t) ==
    /\ asleep' = asleep \cup {t}
    /\ UNCHANGED <<attached, active>>

Wait(t) ==
    /\ active' = Decrement(active)
    /\ asleep' = asleep \cup {t}
    /\ UNCHANGED attached

(* The end of a wait_for that reports a timeout. *)
TimedOut ==
    /\ active' = Increment(active, Total)
    /\ UNCHANGED <<attached, asleep>>

(* A thread may also wake up unasked, or because its time is over. *)
Wake(t) ==
    /\ t \in asleep
    /\ asleep' = asleep \ {t}
    /\ UNCHANGED <<attached, active>>

Empty == attached = {} /\ active = 0 /\ asleep = {}
=============================================================================
