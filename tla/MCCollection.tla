---------------------------- MODULE MCCollection ----------------------------
EXTENDS DeleterQueue, TLC

CallsOf(ops, waits, counts) ==
    {c \in [op : ops, wait : waits, count : counts] :
        c.op \in {"add", "take", "takePrio"} => c.count = 1}

CONSTANT Adder  \* with Taker, a thread that does one thing only, where a run has such

(* Every form of every call; a bulk call is for nothing or for two.        *)
Divided ==
    Adder :> CallsOf({"add"}, Waits, {1}) \cup CallsOf({"addBulk"}, Waits, {0, 2}) @@
    Taker :> CallsOf({"take", "takePrio"}, Waits, {1}) \cup
             CallsOf({"takeBulk", "takePrioBulk"}, Waits, {0, 2})
Plain == [t \in Threads |-> CallsOf({"add", "take"}, {"now", "forever"}, {1})]

With(ops, waits, counts) == [t \in Threads |-> Plain[t] \cup CallsOf(ops, waits, counts)]
BulkAdds      == With({"addBulk"}, {"forever"}, {2})
BulkTakes     == With({"takeBulk"}, {"forever"}, {2})
PrioBulkTakes == With({"takePrioBulk"}, {"forever"}, {2})
TimedTakes    == With({"take"}, {"timed"}, {1})

(* Every call of a priority collection that may sleep, and the immediate   *)
(* forms of the plain ones.                                                *)
Sleepy == [t \in Threads |->
    CallsOf({"add", "take", "takePrio"}, {"timed", "forever"}, {1}) \cup
    CallsOf({"addBulk"}, {"forever"}, {0, 2}) \cup
    CallsOf({"takeBulk", "takePrioBulk"}, {"forever"}, {2})]

(* The threads are alike. *)
AnyThread == Permutations(Threads)

TwoPriorities == [x \in Items |-> x % 2]
WithConsumers == {"flush", "completeAdding", "deactivate", "pulse", "activate",
                  "attachConsumer", "detachConsumer"}
NoControls == {}
FlushOnly == {"flush"}
CompleteOnly == {"completeAdding"}
AnyState == {"flush", "completeAdding", "deactivate", "pulse", "activate"}

(* The collection after a pulse that found nobody waiting. *)
PulsedSpec == InitIn("Pulsed") /\ [][CollectionNext]_collectionVars
=============================================================================
