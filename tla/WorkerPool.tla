----------------------------- MODULE WorkerPool -----------------------------
(***************************************************************************)
(* What the server promises about its connection objects, whatever threads *)
(* and locks it takes: a connection is admitted, serves, retires, and is   *)
(* then reaped exactly once.  Only one that retires after the pool has     *)
(* begun to close may be abandoned, neither reaped nor used again.         *)
(***************************************************************************)
CONSTANT Conns

VARIABLES
    stage,      \* "absent", "serving", "retired", "reaped" or "abandoned"
    closing     \* retired connections are no longer collected

poolVars == <<stage, closing>>

Move(c, from, to) ==
    /\ stage[c] = from
    /\ stage' = [stage EXCEPT ![c] = to]
    /\ UNCHANGED closing

Admit(c)  == Move(c, "absent", "serving")
Retire(c) == Move(c, "serving", IF closing THEN "abandoned" ELSE "retired")
Reap(c)   == Move(c, "retired", "reaped")

Close ==
    /\ ~closing
    /\ closing' = TRUE
    /\ UNCHANGED stage

PoolInit ==
    /\ stage = [c \in Conns |-> "absent"]
    /\ closing = FALSE

PoolNext ==
    \/ \E c \in Conns : Admit(c) \/ Retire(c) \/ Reap(c)
    \/ Close

PoolSpec == PoolInit /\ [][PoolNext]_poolVars
=============================================================================
