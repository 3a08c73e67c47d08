------------------------ MODULE CollectionProperties ------------------------
(***************************************************************************)
(* What a BlockingCollection does right, for which calls.                  *)
(***************************************************************************)
EXTENDS BlockingCollection

Statuses == {"none", "Ok", "AddingCompleted", "TimedOut", "NotActivated",
             "Completed", "InvalidIterators", "CompleteAddingConcurrent"}

WokenTakers == {t \in Threads : call[t].op \in Takes} \ sleepingTakers
WokenAdders == {t \in Threads : call[t].op \in Adds} \ sleepingAdders

(* Every variable has its type; a thread sleeps only in a call of the      *)
(* right side; and the counts of active workers stay below the totals.     *)
CollectionTypeOK ==
    /\ contents \in Seq(Items) /\ arrivals \in Seq(Items)
    /\ state \in {"Activated", "Deactivated", "Pulsed"}
    /\ isAddingCompleted \in BOOLEAN
    /\ consumers \subseteq Threads /\ producers \subseteq Threads
    /\ activeConsumers \in 0 .. Cardinality(consumers)
    /\ activeProducers \in 0 .. Cardinality(producers)
    /\ call \in [Threads -> CallTypes \cup {NoCall}]
    /\ returned \in Statuses
    /\ sleepingTakers \subseteq {t \in Threads : call[t].op \in Takes}
    /\ sleepingAdders \subseteq {t \in Threads : call[t].op \in Adds}

(* While one take sleeps, every item there is has a woken take coming for  *)
(* it.                                                                     *)
NoTakerLost ==
    sleepingTakers # {} => Len(contents) <= Cardinality(WokenTakers)

(* The same for adds and the room they wait for. *)
NoAdderLost ==
    sleepingAdders # {} => Capacity - Len(contents) <= Cardinality(WokenAdders)

(* A woken call returns with nothing done. *)
GivesUp(woken) ==
    /\ \E t \in woken : call'[t] = NoCall /\ returned' # "Ok"
    /\ UNCHANGED contents

(* Items come to lie beside sleeping takes in two ways only: a bulk add    *)
(* stores several and wakes one take, or a woken take gives up although    *)
(* there is an item, because its time is over or the collection is pulsed. *)
TakersLostOnlySo ==
    [][NoTakerLost /\ ~NoTakerLost' =>
         \/ Len(contents') > Len(contents) + 1
         \/ ~IsEmpty /\ GivesUp(WokenTakers)
      ]_collectionVars

(* Room comes to lie beside sleeping adds in four ways only: flush makes   *)
(* it, a bulk take makes more of it than for one, takePrioBulk makes it,   *)
(* or a woken add gives up although there is room.                         *)
AddersLostOnlySo ==
    [][NoAdderLost /\ ~NoAdderLost' =>
         \/ "flush" \in Controls /\ Flush
         \/ Len(contents') + 1 < Len(contents)
         \/ \E t \in Threads : \E c \in Calls[t] : c.op = "takePrioBulk" /\ Fetch(t, c)
         \/ ~IsFull /\ GivesUp(WokenAdders)
      ]_collectionVars

(* Completing or deactivating the collection gets every sleeper out, and   *)
(* none falls asleep again: a woken thread looks at both before it sleeps. *)
ClosedWakesAll ==
    isAddingCompleted \/ state = "Deactivated" =>
        sleepingTakers = {} /\ sleepingAdders = {}

(* The container, the locks and the waits implement the promise; and each *)
(* take removes what its caller asked for: from the end it asked for, as   *)
(* many elements as it asked for or all there are.                         *)
Buffer == INSTANCE BoundedBuffer WITH closed <- isAddingCompleted

FromBelow(c) == c.op \in {"takePrio", "takePrioBulk"}

HandsOut(c) ==
    /\ ~FromBelow(c) => Buffer!HandOut(Buffer!Ahead)
    /\ FromBelow(c) => Buffer!HandOut(Buffer!AheadFromBelow)
    /\ Len(contents) - Len(contents') = Min({c.count, Len(contents)})

ImplementsBuffer ==
    /\ Buffer!BufferSpec
    /\ [][\A t \in Threads : \A c \in Calls[t] :
            c.op \in Takes /\ c.count # 0 /\ Fetch(t, c) => HandsOut(c)]_collectionVars

-----------------------------------------------------------------------------
(* What the documentation says.  No thread is on its way: each is asleep   *)
(* in a call or in none.                                                   *)
AtRest == WokenTakers = {} /\ WokenAdders = {}

(* "A call to Take may block until an item is available to be removed."    *)
TakeWaitsForItem == AtRest /\ sleepingTakers # {} => IsEmpty

(* "a call to Add may block until space is available to store the provided *)
(* item."                                                                  *)
AddWaitsForSpace == AtRest /\ sleepingAdders # {} => IsFull

(* "Future Add and Take operations proceed as in the Activated state", in  *)
(* which no operation returns NotActivated.                                *)
PulsedProceeds == returned # "NotActivated"
=============================================================================
