---------------------------- MODULE DeleterQueue ----------------------------
(***************************************************************************)
(* threads_, the collection that ThreadDeleter instantiates: other threads *)
(* add workers to it, one at a time, and the deleter takes them.  It is    *)
(* the queue ThreadDeleter's module models, waits and notifications        *)
(* included.                                                               *)
(***************************************************************************)
EXTENDS CollectionProperties

CONSTANT Taker  \* the deleter's thread

DeleterCalls == [t \in Threads |->
    {[op |-> IF t = Taker THEN "take" ELSE "add", wait |-> "forever", count |-> 1]}]

Handover == INSTANCE HandoverQueue WITH
    queue <- contents, completed <- isAddingCompleted, waiting <- call[Taker] # NoCall

ImplementsHandover == Handover!HandoverSpec
=============================================================================
