---------------------------- MODULE BoundedBuffer ----------------------------
(***************************************************************************)
(* What a blocking collection promises about its elements, whoever waits   *)
(* for whom: up to Capacity of them, handed out in the order its kind      *)
(* says, and none added once it is closed.                                 *)
(***************************************************************************)
EXTENDS Naturals, SequencesExt, Subsequences

CONSTANTS Items, Kind, priority, Capacity, SizeMax

VARIABLES
    arrivals,   \* the elements in the order of their arrival
    closed      \* no more elements will be accepted

bufferVars == <<arrivals, closed>>

Position(x) == CHOOSE i \in DOMAIN arrivals : arrivals[i] = x

Older(x, y) == Position(x) < Position(y)

(* x is handed out before y. *)
Ahead(x, y) ==
    CASE Kind = "queue" -> Older(x, y)
      [] Kind = "stack" -> Older(y, x)
      [] Kind = "priority" -> \/ priority[x] > priority[y]
                              \/ priority[x] = priority[y] /\ Older(x, y)

(* x is handed out before y to those who ask for the lowest priority. *)
AheadFromBelow(x, y) ==
    /\ Kind = "priority"
    /\ \/ priority[x] < priority[y]
       \/ priority[x] = priority[y] /\ Older(x, y)

HandOut(Before(_, _)) ==
    /\ \E out \in SUBSET ToSet(arrivals) :
         /\ out # {}
         /\ \A x \in out, y \in ToSet(arrivals) \ out : Before(x, y)
         /\ arrivals' = Kept(arrivals, ToSet(arrivals) \ out)
    /\ UNCHANGED closed

Accept ==
    /\ ~closed
    /\ \E n \in 1 .. Len(arrivals') :
         \E xs \in [1 .. n -> Items \ ToSet(arrivals)] : arrivals' = arrivals \o xs
    /\ Capacity # SizeMax => Len(arrivals') <= Capacity
    /\ UNCHANGED closed

Discard == arrivals' = <<>> /\ UNCHANGED closed

Close == closed' = TRUE /\ UNCHANGED arrivals

BufferInit == arrivals = <<>> /\ closed = FALSE

BufferNext == Accept \/ HandOut(Ahead) \/ HandOut(AheadFromBelow) \/ Discard \/ Close

BufferSpec == BufferInit /\ [][BufferNext]_bufferVars
=============================================================================
