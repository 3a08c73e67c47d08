----------------------------- MODULE Containers -----------------------------
(***************************************************************************)
(* The containers a BlockingCollection can be built on                     *)
(* (BlockingCollection.h): detail::Container as a queue or as a stack, and *)
(* PriorityContainer.  All three keep a deque, here a sequence whose head  *)
(* is the deque's front.                                                   *)
(***************************************************************************)
EXTENDS Integers, SequencesExt

CONSTANTS
    Items,      \* the elements
    Kind,       \* the container: "queue", "stack" or "priority"
    priority    \* what PriorityComparer compares

ASSUME ContainersAssumption ==
    /\ Kind \in {"queue", "stack", "priority"}
    /\ priority \in [Items -> Nat]

Elements(s) == {s[i] : i \in DOMAIN s}

(* Mutation: the comparer finds all priorities equal. *)
InsertBehindAll(s, x) == Append(s, x)

(* PriorityContainer::try_emplace: from the back, the first element whose  *)
(* priority is at least the new one's; the new element goes behind it, or  *)
(* to the front when there is none.                                        *)
Insert(s, x) ==
    LET atLeast == {i \in DOMAIN s : priority[s[i]] >= priority[x]}
    IN  InsertAt(s, Max({0} \cup atLeast) + 1, x)

(* try_emplace, which add and emplace call. *)
Emplace(s, x) ==
    CASE Kind = "queue"    -> Append(s, x)
      [] Kind = "stack"    -> <<x>> \o s
      [] Kind = "priority" -> Insert(s, x)

(* try_add, which the bulk operations call. *)
PushBack(s, x) == IF Kind = "priority" THEN Insert(s, x) ELSE Append(s, x)

(* try_take, n times: what is left. *)
WithoutFirst(s, n) ==
    IF Kind = "stack" THEN SubSeq(s, 1, Len(s) - n) ELSE SubSeq(s, n + 1, Len(s))

(* try_take_prio: going forward from the back while the priority does not  *)
(* rise, the element the walk ends at.                                     *)
Lowest(s) ==
    CHOOSE i \in DOMAIN s :
        /\ \A j \in i .. Len(s) - 1 : priority[s[j]] <= priority[s[j + 1]]
        /\ i > 1 => priority[s[i - 1]] > priority[s[i]]

(* try_take_prio, n times: what is left. *)
WithoutLowest(s, n) ==
    LET left[k \in 0 .. n] ==
            IF k = 0 THEN s ELSE RemoveAt(left[k - 1], Lowest(left[k - 1]))
    IN  left[n]

(* The bulk operations add one by one and stop at the first refusal. *)
PushAll(s, xs) ==
    LET grown[k \in 0 .. Len(xs)] ==
            IF k = 0 THEN s ELSE PushBack(grown[k - 1], xs[k])
    IN  grown[Len(xs)]
=============================================================================
