------------------------------ MODULE Pipeline ------------------------------
(***************************************************************************)
(* A BlockingCollection used the way its helper classes intend: threads    *)
(* that attach themselves for a scope with a ProducerGuard or a            *)
(* ConsumerGuard, consumers that loop over the collection with its         *)
(* Iterator, and adding completed when the producers have left.            *)
(***************************************************************************)
EXTENDS CollectionProperties

CONSTANTS Producers, Consumers

ASSUME PipelineAssumption ==
    /\ Producers \cup Consumers = Threads
    /\ Producers \cap Consumers = {}

VARIABLE stage  \* a thread's: "before", "inside", "leaving" or "after" its guard

pipelineVars == <<collectionVars, stage>>

AddOne  == [op |-> "add", wait |-> "forever", count |-> 1]
TakeOne == [op |-> "take", wait |-> "forever", count |-> 1]

Move(t, from, to) == stage[t] = from /\ stage' = [stage EXCEPT ![t] = to]

(* Guard's constructor. *)
Enter(t) ==
    /\ Move(t, "before", "inside")
    /\ \/ t \in Consumers /\ NotEmpty!Attach(t) /\ UNCHANGED notFullVars
       \/ t \in Producers /\ NotFull!Attach(t) /\ UNCHANGED notEmptyVars
    /\ UNCHANGED <<dataVars, stateVars, callVars>>

(* Its destructor. *)
Leave(t) ==
    /\ Move(t, "leaving", "after")
    /\ \/ t \in Consumers /\ NotEmpty!Detach(t) /\ UNCHANGED notFullVars
       \/ t \in Producers /\ NotFull!Detach(t) /\ UNCHANGED notEmptyVars
    /\ UNCHANGED <<dataVars, stateVars, callVars>>

(* A producer has had enough; a consumer breaks out of its loop. *)
Break(t) ==
    /\ call[t] = NoCall
    /\ Move(t, "inside", "leaving")
    /\ UNCHANGED collectionVars

Produce(t) ==
    /\ t \in Producers /\ stage[t] = "inside"
    /\ Add(t, AddOne) \/ AddResume(t)
    /\ UNCHANGED stage

(* Iterator: operator!= and operator++ take an element, and the loop ends  *)
(* when the status is not Ok.                                              *)
Iterate(t) ==
    /\ t \in Consumers /\ stage[t] = "inside"
    /\ Take(t, TakeOne) \/ TakeResume(t)
    /\ stage' = IF call'[t] = NoCall /\ returned' # "Ok"
                THEN [stage EXCEPT ![t] = "leaving"] ELSE stage

Finish ==
    /\ \A t \in Producers : stage[t] = "after"
    /\ CompleteAdding
    /\ UNCHANGED stage

PipelineInit == CollectionInit /\ stage = [t \in Threads |-> "before"]

PipelineNext ==
    \/ \E t \in Threads : Enter(t) \/ Leave(t) \/ Break(t) \/ Produce(t) \/ Iterate(t)
    \/ \E t \in Threads : WakeUp(t) /\ UNCHANGED stage
    \/ Finish

PipelineSpec == PipelineInit /\ [][PipelineNext]_pipelineVars

(* A thread inside its guard goes on, if only to leave it. *)
FairPipeline ==
    PipelineSpec /\ \A t \in Threads : WF_pipelineVars(Leave(t) \/ Produce(t) \/ Iterate(t))

-----------------------------------------------------------------------------
(* The count of active workers, which decides whether anybody is notified, *)
(* never exceeds the attached workers that are really awake.               *)
ActiveAreAwake ==
    /\ activeConsumers <= Cardinality(consumers \ sleepingTakers)
    /\ activeProducers <= Cardinality(producers \ sleepingAdders)

(* Although most adds notify nobody, the attached consumers never all      *)
(* sleep while there is something to take, nor the producers while there   *)
(* is room.                                                                *)
NeverAllAsleep ==
    /\ ~IsEmpty /\ consumers # {} => ~(consumers \subseteq sleepingTakers)
    /\ ~IsFull /\ producers # {} => ~(producers \subseteq sleepingAdders)

(* Every element is taken, unless the last consumer breaks out. *)
EveryItemTaken ==
    \A x \in Items : x \in Elements(contents) ~> x \notin Elements(contents) \/ consumers = {}

(* Completing the collection ends the consumers' loops. *)
LoopsEnd ==
    isAddingCompleted ~> \A t \in Consumers : stage[t] # "inside"
=============================================================================
