---------------------------- MODULE HandoverQueue ----------------------------
(***************************************************************************)
(* The queue ThreadDeleter is written against: any thread hands an element *)
(* over unless the queue is completed, and the one consumer's call gets    *)
(* the oldest element, waits while there is none, and returns empty-handed *)
(* once there will be none.                                                *)
(***************************************************************************)
EXTENDS Naturals, Sequences

CONSTANT Items

VARIABLES queue, completed, waiting

handoverVars == <<queue, completed, waiting>>

Hand(x) ==
    /\ ~completed
    /\ queue' = Append(queue, x)
    /\ UNCHANGED <<completed, waiting>>

Complete == completed' = TRUE /\ UNCHANGED <<queue, waiting>>

Ask == waiting' = TRUE /\ UNCHANGED <<queue, completed>>

Receive ==
    /\ queue # <<>>
    /\ queue' = Tail(queue)
    /\ waiting' = FALSE
    /\ UNCHANGED completed

GiveUp ==
    /\ queue = <<>> /\ completed
    /\ waiting' = FALSE
    /\ UNCHANGED <<queue, completed>>

HandoverNext == (\E x \in Items : Hand(x)) \/ Complete \/ Ask \/ Receive \/ GiveUp

HandoverSafety ==
    /\ queue = <<>> /\ ~completed /\ waiting \in BOOLEAN
    /\ [][HandoverNext]_handoverVars

(* A consumer that waits gets an answer as soon as there is one. *)
HandoverSpec == HandoverSafety /\ WF_handoverVars(waiting /\ (Receive \/ GiveUp))
=============================================================================
