--------------------------- MODULE PipelineProofs ---------------------------
(***************************************************************************)
(* Proofs about a collection whose users attach themselves with guards:    *)
(* the counts by which notifications are spared never let all the attached *)
(* consumers sleep beside an element, nor all the producers beside room.   *)
(***************************************************************************)
EXTENDS Pipeline, CollectionProofs

(* What a guarded thread calls. *)
PipelineCalls == [t \in Threads |-> IF t \in Producers THEN {AddOne} ELSE {TakeOne}]

ConsumersCounted == activeConsumers <= Cardinality(consumers \ sleepingTakers)
ProducersCounted == activeProducers <= Cardinality(producers \ sleepingAdders)

LEMMA ActiveAreAwakeIs ==
    /\ ActiveAreAwake <=> ConsumersCounted /\ ProducersCounted
    /\ ActiveAreAwake' <=> ConsumersCounted' /\ ProducersCounted'
  BY DEF ActiveAreAwake, ConsumersCounted, ProducersCounted

(* A thread is attached as long as its guard lives, and calls meanwhile. *)
Guarded ==
    /\ stage \in [Threads -> {"before", "inside", "leaving", "after"}]
    /\ consumers = {t \in Consumers : stage[t] \in {"inside", "leaving"}}
    /\ producers = {t \in Producers : stage[t] \in {"inside", "leaving"}}
    /\ \A t \in Threads : stage[t] # "inside" => call[t] = NoCall

(* The inductive invariant. *)
PipelineOK ==
    TypesOK /\ Makes(PipelineCalls) /\ Guarded /\ ActiveAreAwake /\ NeverAllAsleep

-----------------------------------------------------------------------------
(* Those of A that are not in S are awake. *)
LEMMA MoreAwake ==
    ASSUME NEW A, IsFiniteSet(A), NEW S, NEW T, T \subseteq S
    PROVE  /\ Cardinality(A \ S) \in Nat /\ Cardinality(A \ T) \in Nat
           /\ Cardinality(A \ S) <= Cardinality(A \ T)
  <1>1. IsFiniteSet(A \ S) /\ IsFiniteSet(A \ T) /\ A \ S \subseteq A \ T
    BY FS_Difference
  <1> QED BY <1>1, FS_Subset, FS_CardinalityType

LEMMA SomeAwake ==
    ASSUME NEW A, IsFiniteSet(A), NEW S, NEW x \in A \ S
    PROVE  Cardinality(A \ S) >= 1
  <1>1. IsFiniteSet(A \ S) /\ A \ S # {}
    BY FS_Difference
  <1> QED BY <1>1, FS_EmptySet, FS_CardinalityType

LEMMA NoneAwake ==
    ASSUME NEW A, NEW S, A \subseteq S
    PROVE  Cardinality(A \ S) = 0
  <1>1. A \ S = {}
    OBVIOUS
  <1> QED BY <1>1, FS_EmptySet

LEMMA OneMoreAwake ==
    ASSUME NEW A, IsFiniteSet(A), NEW S, NEW x \in A \cap S
    PROVE  Cardinality(A \ (S \ {x})) = Cardinality(A \ S) + 1
  <1>1. IsFiniteSet(A \ S) /\ x \notin A \ S
    BY FS_Difference
  <1>2. A \ (S \ {x}) = (A \ S) \cup {x}
    OBVIOUS
  <1> QED BY <1>1, <1>2, FS_AddElement

LEMMA OneFewerAwake ==
    ASSUME NEW A, IsFiniteSet(A), NEW S, NEW x \in A \ S
    PROVE  /\ Cardinality(A \ (S \cup {x})) = Cardinality(A \ S) - 1
           /\ Cardinality((A \ {x}) \ S) = Cardinality(A \ S) - 1
           /\ Cardinality(A \ S) >= 1
  <1>1. IsFiniteSet(A \ S) /\ x \in A \ S
    BY FS_Difference
  <1>2. A \ (S \cup {x}) = (A \ S) \ {x} /\ (A \ {x}) \ S = (A \ S) \ {x}
    OBVIOUS
  <1> QED BY <1>1, <1>2, FS_RemoveElement, SomeAwake

-----------------------------------------------------------------------------
(* The operations of the two condition variables. *)
LEMMA NotEmptyStaysCounted ==
    ASSUME Counted(consumers, activeConsumers), sleepingTakers \subseteq consumers, ConsumersCounted, NEW t, NEW amount,
           \/ NotEmpty!Signal(amount) \/ NotEmpty!Wake(t) \/ NotEmpty!Broadcast \/ UNCHANGED notEmptyVars
           \/ t \in consumers \ sleepingTakers /\ NotEmpty!Wait(t)
    PROVE  ConsumersCounted'
  <1> DEFINE total == Cardinality(consumers)
             awake == Cardinality(consumers \ sleepingTakers)
             awakeNext == Cardinality(consumers \ sleepingTakers')
  <1>1. IsFiniteSet(consumers) /\ total \in Nat /\ activeConsumers \in 0 .. total
    BY FS_CardinalityType DEF Counted
  <1>2. awake \in Nat /\ activeConsumers <= awake
    BY <1>1, MoreAwake DEF ConsumersCounted
  <1>3. consumers' = consumers
    BY DEF NotEmpty!Signal, NotEmpty!Wake, NotEmpty!Broadcast, NotEmpty!Wait, notEmptyVars
  <1>4. ASSUME sleepingTakers' \subseteq sleepingTakers, activeConsumers' = activeConsumers PROVE ConsumersCounted'
    <2>1. awakeNext \in Nat /\ awake <= awakeNext
      BY <1>1, <1>4, MoreAwake
    <2> QED BY <1>1, <1>2, <1>3, <1>4, <2>1 DEF ConsumersCounted
  <1>5. ASSUME NotEmpty!NotifyOne, activeConsumers' = NotEmpty!Increment(activeConsumers, NotEmpty!Total) PROVE ConsumersCounted'
    <2>1. activeConsumers' \in 0 .. total /\ activeConsumers' <= activeConsumers + 1
      BY <1>1, <1>5, SameCardinality DEF NotEmpty!Increment
    <2>2. CASE sleepingTakers = {}
      <3>1. sleepingTakers' = {} /\ consumers' \ sleepingTakers' = consumers
        BY <1>3, <1>5, <2>2 DEF NotEmpty!NotifyOne
      <3> QED BY <2>1, <3>1 DEF ConsumersCounted
    <2>3. CASE sleepingTakers # {}
      <3>1. PICK u \in sleepingTakers : sleepingTakers' = sleepingTakers \ {u}
        BY <1>5, <2>3 DEF NotEmpty!NotifyOne
      <3>2. awakeNext = awake + 1
        BY <1>1, <3>1, OneMoreAwake
      <3> HIDE DEF awake
      <3> QED BY <1>1, <1>2, <1>3, <2>1, <3>2 DEF ConsumersCounted
    <2> QED BY <2>2, <2>3
  <1>6. CASE NotEmpty!Signal(amount)
    <2>1. CASE consumers = {}
      <3>1. sleepingTakers = {}
        BY <2>1
      <3> QED BY <1>4, <1>6, <2>1, <3>1 DEF NotEmpty!Signal, NotEmpty!NotifyOne
    <2> QED BY <1>4, <1>5, <1>6, <2>1 DEF NotEmpty!Signal
  <1>7. CASE NotEmpty!Broadcast
    <2>1. sleepingTakers' = {} /\ activeConsumers' = IF consumers = {} THEN activeConsumers ELSE total
      BY <1>7, SameCardinality DEF NotEmpty!Broadcast
    <2>2. consumers' \ sleepingTakers' = consumers
      BY <1>3, <2>1
    <2>3. consumers = {} => total = 0
      BY FS_EmptySet
    <2> QED BY <1>1, <2>1, <2>2, <2>3 DEF ConsumersCounted
  <1>8. CASE t \in consumers \ sleepingTakers /\ NotEmpty!Wait(t)
    <2>1. sleepingTakers' = sleepingTakers \cup {t} /\ activeConsumers' = IF activeConsumers > 0 THEN activeConsumers - 1 ELSE 0
      BY <1>8 DEF NotEmpty!Wait, NotEmpty!Decrement
    <2>2. awakeNext = awake - 1 /\ awake >= 1
      BY <1>1, <1>8, <2>1, OneFewerAwake
    <2> HIDE DEF awake
    <2> QED BY <1>1, <1>2, <1>3, <2>1, <2>2 DEF ConsumersCounted
  <1>9. CASE NotEmpty!Wake(t) \/ UNCHANGED notEmptyVars
    BY <1>4, <1>9 DEF NotEmpty!Wake, notEmptyVars
  <1> QED BY <1>6, <1>7, <1>8, <1>9

(* When all are asleep none counts as active, so the signal is given. *)
LEMMA NotEmptySignalWakes ==
    ASSUME Counted(consumers, activeConsumers), sleepingTakers \subseteq consumers, ConsumersCounted, consumers # {},
           NEW amount, NotEmpty!Signal(amount)
    PROVE  ~(consumers \subseteq sleepingTakers')
  <1>1. CASE consumers \subseteq sleepingTakers
    <2>1. IsFiniteSet(consumers) /\ activeConsumers \in Nat
      BY FS_CardinalityType DEF Counted
    <2>2. activeConsumers = 0
      BY <1>1, <2>1, NoneAwake DEF ConsumersCounted
    <2>3. NotEmpty!NotifyOne
      BY <2>2 DEF NotEmpty!Signal, NotEmpty!ShouldSignal
    <2>4. PICK u \in sleepingTakers : sleepingTakers' = sleepingTakers \ {u}
      BY <1>1, <2>3 DEF NotEmpty!NotifyOne
    <2> QED BY <2>4
  <1>2. CASE ~(consumers \subseteq sleepingTakers)
    <2>1. sleepingTakers' \subseteq sleepingTakers
      BY DEF NotEmpty!Signal, NotEmpty!NotifyOne
    <2> QED BY <1>2, <2>1
  <1> QED BY <1>1, <1>2

LEMMA NotEmptyAttaches ==
    ASSUME Counted(consumers, activeConsumers), ConsumersCounted, NEW t, t \notin consumers \cup sleepingTakers, NotEmpty!Attach(t)
    PROVE  ConsumersCounted' /\ consumers' = consumers \cup {t} /\ sleepingTakers' = sleepingTakers
  <1> DEFINE total == Cardinality(consumers)
             awake == Cardinality(consumers \ sleepingTakers)
  <1>1. IsFiniteSet(consumers) /\ total \in Nat /\ activeConsumers \in 0 .. total
    BY FS_CardinalityType DEF Counted
  <1>2. awake \in Nat /\ activeConsumers <= awake
    BY <1>1, MoreAwake DEF ConsumersCounted
  <1>3. consumers' = consumers \cup {t} /\ sleepingTakers' = sleepingTakers
    BY DEF NotEmpty!Attach
  <1>4. activeConsumers' <= activeConsumers + 1
    <2>1. activeConsumers' = NotEmpty!Increment(activeConsumers, total + 1)
      BY SameCardinality DEF NotEmpty!Attach
    <2> QED BY <1>1, <2>1 DEF NotEmpty!Increment
  <1>5. Cardinality(consumers' \ sleepingTakers') = awake + 1
    <2>1. consumers' \ sleepingTakers' = (consumers \ sleepingTakers) \cup {t}
      BY <1>3
    <2>2. IsFiniteSet(consumers \ sleepingTakers)
      BY <1>1, FS_Difference
    <2> QED BY <2>1, <2>2, FS_AddElement
  <1>6. activeConsumers' \in Nat
    BY <1>1, SameCardinality DEF NotEmpty!Attach, NotEmpty!Increment
  <1> HIDE DEF total, awake
  <1>7. activeConsumers' <= Cardinality(consumers' \ sleepingTakers')
    BY <1>1, <1>2, <1>4, <1>5, <1>6
  <1> QED BY <1>3, <1>7 DEF ConsumersCounted

(* The last one that is awake hands over when it leaves. *)
LEMMA NotEmptyHandsOver ==
    ASSUME Counted(consumers, activeConsumers), sleepingTakers \subseteq consumers, ConsumersCounted,
           NEW t \in consumers \ sleepingTakers, NotEmpty!Detach(t)
    PROVE  /\ ConsumersCounted' /\ consumers' = consumers \ {t} /\ sleepingTakers' \subseteq sleepingTakers
           /\ consumers' # {} => ~(consumers' \subseteq sleepingTakers')
  <1> DEFINE awake == Cardinality(consumers \ sleepingTakers)
             remaining == NotEmpty!Decrement(activeConsumers)
  <1>1. IsFiniteSet(consumers) /\ activeConsumers \in Nat
    BY FS_CardinalityType DEF Counted
  <1>2. awake \in Nat /\ activeConsumers <= awake
    BY <1>1, MoreAwake DEF ConsumersCounted
  <1>3. consumers' = consumers \ {t} /\ IsFiniteSet(consumers')
    BY <1>1, FS_RemoveElement DEF NotEmpty!Detach
  <1>4. Cardinality(consumers' \ sleepingTakers) = awake - 1 /\ awake >= 1
    BY <1>1, <1>3, OneFewerAwake
  <1>5. remaining \in Nat /\ remaining <= awake - 1
    BY <1>1, <1>2, <1>4 DEF NotEmpty!Decrement
  <1> HIDE DEF awake
  <1>6. CASE consumers' # {} /\ remaining = 0
    <2>1. activeConsumers' = 1 /\ NotEmpty!NotifyOne
      BY <1>6 DEF NotEmpty!Detach
    <2>2. sleepingTakers' \subseteq sleepingTakers
      BY <2>1 DEF NotEmpty!NotifyOne
    <2>3. PICK u \in consumers' : u \notin sleepingTakers'
      BY <1>3, <1>6, <2>1 DEF NotEmpty!NotifyOne
    <2>4. Cardinality(consumers' \ sleepingTakers') >= 1
      BY <1>3, <2>3, SomeAwake
    <2> QED BY <1>3, <2>1, <2>2, <2>3, <2>4 DEF ConsumersCounted
  <1>7. CASE ~(consumers' # {} /\ remaining = 0)
    <2>1. activeConsumers' = remaining /\ sleepingTakers' = sleepingTakers
      BY <1>7 DEF NotEmpty!Detach
    <2>2. ASSUME consumers' # {}, consumers' \subseteq sleepingTakers PROVE FALSE
      <3>1. Cardinality(consumers' \ sleepingTakers) = 0
        BY <1>3, <2>2, NoneAwake
      <3> QED BY <1>2, <1>4, <1>5, <1>7, <2>2, <3>1
    <2>3. ConsumersCounted'
      BY <1>4, <1>5, <2>1 DEF ConsumersCounted
    <2> QED BY <1>3, <2>1, <2>2, <2>3
  <1> QED BY <1>6, <1>7

LEMMA NotFullStaysCounted ==
    ASSUME Counted(producers, activeProducers), sleepingAdders \subseteq producers, ProducersCounted, NEW t, NEW amount,
           \/ NotFull!Signal(amount) \/ NotFull!Wake(t) \/ NotFull!Broadcast \/ UNCHANGED notFullVars
           \/ t \in producers \ sleepingAdders /\ NotFull!Wait(t)
    PROVE  ProducersCounted'
  <1> DEFINE total == Cardinality(producers)
             awake == Cardinality(producers \ sleepingAdders)
             awakeNext == Cardinality(producers \ sleepingAdders')
  <1>1. IsFiniteSet(producers) /\ total \in Nat /\ activeProducers \in 0 .. total
    BY FS_CardinalityType DEF Counted
  <1>2. awake \in Nat /\ activeProducers <= awake
    BY <1>1, MoreAwake DEF ProducersCounted
  <1>3. producers' = producers
    BY DEF NotFull!Signal, NotFull!Wake, NotFull!Broadcast, NotFull!Wait, notFullVars
  <1>4. ASSUME sleepingAdders' \subseteq sleepingAdders, activeProducers' = activeProducers PROVE ProducersCounted'
    <2>1. awakeNext \in Nat /\ awake <= awakeNext
      BY <1>1, <1>4, MoreAwake
    <2> QED BY <1>1, <1>2, <1>3, <1>4, <2>1 DEF ProducersCounted
  <1>5. ASSUME NotFull!NotifyOne, activeProducers' = NotFull!Increment(activeProducers, NotFull!Total) PROVE ProducersCounted'
    <2>1. activeProducers' \in 0 .. total /\ activeProducers' <= activeProducers + 1
      BY <1>1, <1>5, SameCardinality DEF NotFull!Increment
    <2>2. CASE sleepingAdders = {}
      <3>1. sleepingAdders' = {} /\ producers' \ sleepingAdders' = producers
        BY <1>3, <1>5, <2>2 DEF NotFull!NotifyOne
      <3> QED BY <2>1, <3>1 DEF ProducersCounted
    <2>3. CASE sleepingAdders # {}
      <3>1. PICK u \in sleepingAdders : sleepingAdders' = sleepingAdders \ {u}
        BY <1>5, <2>3 DEF NotFull!NotifyOne
      <3>2. awakeNext = awake + 1
        BY <1>1, <3>1, OneMoreAwake
      <3> HIDE DEF awake
      <3> QED BY <1>1, <1>2, <1>3, <2>1, <3>2 DEF ProducersCounted
    <2> QED BY <2>2, <2>3
  <1>6. CASE NotFull!Signal(amount)
    <2>1. CASE producers = {}
      <3>1. sleepingAdders = {}
        BY <2>1
      <3> QED BY <1>4, <1>6, <2>1, <3>1 DEF NotFull!Signal, NotFull!NotifyOne
    <2> QED BY <1>4, <1>5, <1>6, <2>1 DEF NotFull!Signal
  <1>7. CASE NotFull!Broadcast
    <2>1. sleepingAdders' = {} /\ activeProducers' = IF producers = {} THEN activeProducers ELSE total
      BY <1>7, SameCardinality DEF NotFull!Broadcast
    <2>2. producers' \ sleepingAdders' = producers
      BY <1>3, <2>1
    <2>3. producers = {} => total = 0
      BY FS_EmptySet
    <2> QED BY <1>1, <2>1, <2>2, <2>3 DEF ProducersCounted
  <1>8. CASE t \in producers \ sleepingAdders /\ NotFull!Wait(t)
    <2>1. sleepingAdders' = sleepingAdders \cup {t} /\ activeProducers' = IF activeProducers > 0 THEN activeProducers - 1 ELSE 0
      BY <1>8 DEF NotFull!Wait, NotFull!Decrement
    <2>2. awakeNext = awake - 1 /\ awake >= 1
      BY <1>1, <1>8, <2>1, OneFewerAwake
    <2> HIDE DEF awake
    <2> QED BY <1>1, <1>2, <1>3, <2>1, <2>2 DEF ProducersCounted
  <1>9. CASE NotFull!Wake(t) \/ UNCHANGED notFullVars
    BY <1>4, <1>9 DEF NotFull!Wake, notFullVars
  <1> QED BY <1>6, <1>7, <1>8, <1>9

(* When all are asleep none counts as active, so the signal is given. *)
LEMMA NotFullSignalWakes ==
    ASSUME Counted(producers, activeProducers), sleepingAdders \subseteq producers, ProducersCounted, producers # {},
           NEW amount, NotFull!Signal(amount)
    PROVE  ~(producers \subseteq sleepingAdders')
  <1>1. CASE producers \subseteq sleepingAdders
    <2>1. IsFiniteSet(producers) /\ activeProducers \in Nat
      BY FS_CardinalityType DEF Counted
    <2>2. activeProducers = 0
      BY <1>1, <2>1, NoneAwake DEF ProducersCounted
    <2>3. NotFull!NotifyOne
      BY <2>2 DEF NotFull!Signal, NotFull!ShouldSignal
    <2>4. PICK u \in sleepingAdders : sleepingAdders' = sleepingAdders \ {u}
      BY <1>1, <2>3 DEF NotFull!NotifyOne
    <2> QED BY <2>4
  <1>2. CASE ~(producers \subseteq sleepingAdders)
    <2>1. sleepingAdders' \subseteq sleepingAdders
      BY DEF NotFull!Signal, NotFull!NotifyOne
    <2> QED BY <1>2, <2>1
  <1> QED BY <1>1, <1>2

LEMMA NotFullAttaches ==
    ASSUME Counted(producers, activeProducers), ProducersCounted, NEW t, t \notin producers \cup sleepingAdders, NotFull!Attach(t)
    PROVE  ProducersCounted' /\ producers' = producers \cup {t} /\ sleepingAdders' = sleepingAdders
  <1> DEFINE total == Cardinality(producers)
             awake == Cardinality(producers \ sleepingAdders)
  <1>1. IsFiniteSet(producers) /\ total \in Nat /\ activeProducers \in 0 .. total
    BY FS_CardinalityType DEF Counted
  <1>2. awake \in Nat /\ activeProducers <= awake
    BY <1>1, MoreAwake DEF ProducersCounted
  <1>3. producers' = producers \cup {t} /\ sleepingAdders' = sleepingAdders
    BY DEF NotFull!Attach
  <1>4. activeProducers' <= activeProducers + 1
    <2>1. activeProducers' = NotFull!Increment(activeProducers, total + 1)
      BY SameCardinality DEF NotFull!Attach
    <2> QED BY <1>1, <2>1 DEF NotFull!Increment
  <1>5. Cardinality(producers' \ sleepingAdders') = awake + 1
    <2>1. producers' \ sleepingAdders' = (producers \ sleepingAdders) \cup {t}
      BY <1>3
    <2>2. IsFiniteSet(producers \ sleepingAdders)
      BY <1>1, FS_Difference
    <2> QED BY <2>1, <2>2, FS_AddElement
  <1>6. activeProducers' \in Nat
    BY <1>1, SameCardinality DEF NotFull!Attach, NotFull!Increment
  <1> HIDE DEF total, awake
  <1>7. activeProducers' <= Cardinality(producers' \ sleepingAdders')
    BY <1>1, <1>2, <1>4, <1>5, <1>6
  <1> QED BY <1>3, <1>7 DEF ProducersCounted

(* The last one that is awake hands over when it leaves. *)
LEMMA NotFullHandsOver ==
    ASSUME Counted(producers, activeProducers), sleepingAdders \subseteq producers, ProducersCounted,
           NEW t \in producers \ sleepingAdders, NotFull!Detach(t)
    PROVE  /\ ProducersCounted' /\ producers' = producers \ {t} /\ sleepingAdders' \subseteq sleepingAdders
           /\ producers' # {} => ~(producers' \subseteq sleepingAdders')
  <1> DEFINE awake == Cardinality(producers \ sleepingAdders)
             remaining == NotFull!Decrement(activeProducers)
  <1>1. IsFiniteSet(producers) /\ activeProducers \in Nat
    BY FS_CardinalityType DEF Counted
  <1>2. awake \in Nat /\ activeProducers <= awake
    BY <1>1, MoreAwake DEF ProducersCounted
  <1>3. producers' = producers \ {t} /\ IsFiniteSet(producers')
    BY <1>1, FS_RemoveElement DEF NotFull!Detach
  <1>4. Cardinality(producers' \ sleepingAdders) = awake - 1 /\ awake >= 1
    BY <1>1, <1>3, OneFewerAwake
  <1>5. remaining \in Nat /\ remaining <= awake - 1
    BY <1>1, <1>2, <1>4 DEF NotFull!Decrement
  <1> HIDE DEF awake
  <1>6. CASE producers' # {} /\ remaining = 0
    <2>1. activeProducers' = 1 /\ NotFull!NotifyOne
      BY <1>6 DEF NotFull!Detach
    <2>2. sleepingAdders' \subseteq sleepingAdders
      BY <2>1 DEF NotFull!NotifyOne
    <2>3. PICK u \in producers' : u \notin sleepingAdders'
      BY <1>3, <1>6, <2>1 DEF NotFull!NotifyOne
    <2>4. Cardinality(producers' \ sleepingAdders') >= 1
      BY <1>3, <2>3, SomeAwake
    <2> QED BY <1>3, <2>1, <2>2, <2>3, <2>4 DEF ProducersCounted
  <1>7. CASE ~(producers' # {} /\ remaining = 0)
    <2>1. activeProducers' = remaining /\ sleepingAdders' = sleepingAdders
      BY <1>7 DEF NotFull!Detach
    <2>2. ASSUME producers' # {}, producers' \subseteq sleepingAdders PROVE FALSE
      <3>1. Cardinality(producers' \ sleepingAdders) = 0
        BY <1>3, <2>2, NoneAwake
      <3> QED BY <1>2, <1>4, <1>5, <1>7, <2>2, <3>1
    <2>3. ProducersCounted'
      BY <1>4, <1>5, <2>1 DEF ProducersCounted
    <2> QED BY <1>3, <2>1, <2>2, <2>3
  <1> QED BY <1>6, <1>7

-----------------------------------------------------------------------------
(* The steps of the pipeline.                                              *)
LEMMA CallsOfThePipeline ==
    ASSUME NEW t \in Threads
    PROVE  /\ PipelineCalls[t] \subseteq ProperCalls
           /\ t \in Producers => PipelineCalls[t] = {AddOne}
           /\ t \in Consumers => PipelineCalls[t] = {TakeOne}
           /\ t \in Producers \/ t \in Consumers
  <1>1. t \in Producers \/ t \in Consumers
    BY PipelineAssumption
  <1>2. t \in Consumers => t \notin Producers
    BY PipelineAssumption
  <1>3. AddOne \in ProperCalls /\ TakeOne \in ProperCalls
    BY DEF AddOne, TakeOne, ProperCalls, CallTypes, Adds, Takes, Waits
  <1> QED BY <1>1, <1>2, <1>3 DEF PipelineCalls

LEMMA OpsOfThePipeline ==
    /\ AddOne.op \in Adds /\ AddOne.op \notin Takes /\ AddOne.wait = "forever"
    /\ TakeOne.op \in Takes /\ TakeOne.op \notin Adds /\ TakeOne.wait = "forever"
    /\ TakeOne.op = "take" /\ AddOne # NoCall /\ TakeOne # NoCall
  <1>1. AddOne # NoCall /\ TakeOne # NoCall
    <2>1. AddOne.op # "none" /\ TakeOne.op # "none" /\ NoCall.op = "none"
      BY DEF AddOne, TakeOne, NoCall
    <2> QED BY <2>1
  <1> QED BY <1>1 DEF AddOne, TakeOne, Adds, Takes

(* A thread that calls stays inside or, when its loop ends, leaves. *)
Proceeds(t) ==
    /\ stage[t] = "inside"
    /\ \/ UNCHANGED stage
       \/ call'[t] = NoCall /\ stage' = [stage EXCEPT ![t] = "leaving"]

LEMMA PipelineSteps ==
    ASSUME TypesOK, Makes(PipelineCalls), NEW t \in Threads, Produce(t) \/ Iterate(t)
    PROVE  ThreadStep(t, PipelineCalls[t]) /\ Proceeds(t)
  <1>1. call[t] # NoCall => call[t] \in PipelineCalls[t]
    BY DEF Makes
  <1>2. CASE Produce(t)
    <2>1. AddOne \in PipelineCalls[t] \cap ProperCalls
      BY <1>2, CallsOfThePipeline DEF Produce
    <2>2. ThreadStep(t, PipelineCalls[t])
      BY <1>1, <1>2, <2>1, OpsOfThePipeline, AddSteps, AddResumeSteps DEF Produce, TypesOK
    <2> QED BY <1>2, <2>2 DEF Produce, Proceeds
  <1>3. CASE Iterate(t)
    <2>1. TakeOne \in PipelineCalls[t] \cap ProperCalls
      BY <1>3, CallsOfThePipeline DEF Iterate
    <2>2. ThreadStep(t, PipelineCalls[t])
      BY <1>1, <1>3, <2>1, OpsOfThePipeline, TakeSteps, TakeResumeSteps DEF Iterate, TypesOK
    <2> QED BY <1>3, <2>2 DEF Iterate, Proceeds
  <1> QED BY <1>2, <1>3

(* Who sleeps is attached. *)
LEMMA SleepersAreAttached ==
    ASSUME TypesOK, Makes(PipelineCalls), Guarded
    PROVE  sleepingTakers \subseteq consumers /\ sleepingAdders \subseteq producers
  <1>1. ASSUME NEW t \in sleepingTakers PROVE t \in consumers
    <2>1. t \in Threads /\ call[t].op \in Takes
      BY DEF TypesOK, SleepOK
    <2>2. call[t] # NoCall
      BY <2>1, NoCallIsNone
    <2>3. stage[t] = "inside" /\ call[t] \in PipelineCalls[t]
      BY <2>1, <2>2 DEF Guarded, Makes
    <2>4. t \notin Producers
      BY <2>1, <2>3, CallsOfThePipeline, OpsOfThePipeline
    <2> QED BY <2>1, <2>3, <2>4, CallsOfThePipeline DEF Guarded
  <1>2. ASSUME NEW t \in sleepingAdders PROVE t \in producers
    <2>1. t \in Threads /\ call[t].op \in Adds
      BY DEF TypesOK, SleepOK
    <2>2. call[t] # NoCall
      BY <2>1, NoCallIsNone
    <2>3. stage[t] = "inside" /\ call[t] \in PipelineCalls[t]
      BY <2>1, <2>2 DEF Guarded, Makes
    <2>4. t \notin Consumers
      BY <2>1, <2>3, CallsOfThePipeline, OpsOfThePipeline
    <2> QED BY <2>1, <2>3, <2>4, CallsOfThePipeline DEF Guarded
  <1> QED BY <1>1, <1>2

-----------------------------------------------------------------------------
(* A call of a guarded thread.                                             *)
LEMMA ThreadKeepsAwake ==
    ASSUME PipelineOK, NEW t \in Threads, stage[t] = "inside",
           ThreadStep(t, PipelineCalls[t])
    PROVE  ActiveAreAwake' /\ NeverAllAsleep' /\ UNCHANGED <<consumers, producers>>
  <1> DEFINE C == PipelineCalls[t]
  <1>1. /\ TypesOK /\ Makes(PipelineCalls) /\ Guarded /\ NeverAllAsleep
        /\ ConsumersCounted /\ ProducersCounted
        /\ Counted(consumers, activeConsumers) /\ Counted(producers, activeProducers)
        /\ sleepingTakers \subseteq consumers /\ sleepingAdders \subseteq producers
        /\ t \notin sleepingTakers \cup sleepingAdders
    BY ActiveAreAwakeIs, SleepersAreAttached DEF PipelineOK, TypesOK, CountsOK, ThreadStep
  <1>2. /\ \A c \in C : c.op \in Adds => t \in producers
        /\ \A c \in C : c.op \in Takes => t \in consumers /\ c.op = "take"
    BY <1>1, CallsOfThePipeline, OpsOfThePipeline DEF Guarded
  <1>3. CASE StoreStep(t, C)
    <2>1. /\ ~IsFull /\ NotEmpty!Signal(Len(contents')) /\ UNCHANGED notFullVars
      BY <1>3 DEF StoreStep, Store
    <2>2. UNCHANGED <<consumers, producers>>
      BY <2>1 DEF NotEmpty!Signal, notFullVars
    <2>3. ConsumersCounted' /\ ProducersCounted'
      BY <1>1, <2>1, NotEmptyStaysCounted, NotFullStaysCounted
    <2>4. consumers # {} => ~(consumers \subseteq sleepingTakers')
      BY <1>1, <2>1, NotEmptySignalWakes
    <2>5. NeverAllAsleep'
      BY <1>1, <2>1, <2>2, <2>4 DEF NeverAllAsleep, notFullVars
    <2> QED BY <2>2, <2>3, <2>5, ActiveAreAwakeIs
  <1>4. CASE AddSleep(t, C)
    <2>1. /\ t \in producers \ sleepingAdders /\ IsFull /\ NotFull!Wait(t)
          /\ UNCHANGED notEmptyVars /\ UNCHANGED contents
      BY <1>1, <1>2, <1>4 DEF AddSleep, SleepNotFull, dataVars
    <2>2. UNCHANGED <<consumers, producers>>
      BY <2>1 DEF NotFull!Wait, notEmptyVars
    <2>3. ConsumersCounted' /\ ProducersCounted'
      BY <1>1, <2>1, NotEmptyStaysCounted, NotFullStaysCounted
    <2>4. IsFull' /\ IsEmpty' = IsEmpty
      BY <2>1 DEF IsFull, IsEmpty, IsBounded
    <2>5. NeverAllAsleep'
      BY <1>1, <2>1, <2>4 DEF NeverAllAsleep, notEmptyVars
    <2> QED BY <2>2, <2>3, <2>5, ActiveAreAwakeIs
  <1>5. CASE FetchStep(t, C)
    <2>1. PICK c \in C : c.op = "take" /\ Fetch(t, c)
      BY <1>2, <1>5 DEF FetchStep
    <2>2. /\ ~IsEmpty /\ UNCHANGED notEmptyVars
          /\ \/ IsBounded /\ NotFull!Signal(Capacity - Len(contents'))
             \/ ~IsBounded /\ UNCHANGED notFullVars
      BY <2>1 DEF Fetch, SignalRoom
    <2>3. UNCHANGED <<consumers, producers>>
      BY <2>2 DEF NotFull!Signal, notEmptyVars, notFullVars
    <2>4. ConsumersCounted' /\ ProducersCounted'
      BY <1>1, <2>2, NotEmptyStaysCounted, NotFullStaysCounted
    <2>5. IsBounded /\ producers # {} => ~(producers \subseteq sleepingAdders')
      BY <1>1, <2>2, NotFullSignalWakes
    <2>6. ~IsBounded => ~IsFull /\ sleepingAdders' = sleepingAdders
      BY <2>2 DEF IsFull, notFullVars
    <2>7. NeverAllAsleep'
      BY <1>1, <2>2, <2>3, <2>5, <2>6 DEF NeverAllAsleep, notEmptyVars
    <2> QED BY <2>3, <2>4, <2>7, ActiveAreAwakeIs
  <1>6. CASE TakeSleep(t, C)
    <2>1. /\ t \in consumers \ sleepingTakers /\ IsEmpty /\ NotEmpty!Wait(t)
          /\ UNCHANGED notFullVars /\ UNCHANGED contents
      BY <1>1, <1>2, <1>6 DEF TakeSleep, SleepNotEmpty, dataVars
    <2>2. UNCHANGED <<consumers, producers>>
      BY <2>1 DEF NotEmpty!Wait, notFullVars
    <2>3. ConsumersCounted' /\ ProducersCounted'
      BY <1>1, <2>1, NotEmptyStaysCounted, NotFullStaysCounted
    <2>4. IsFull' = IsFull /\ IsEmpty'
      BY <2>1 DEF IsFull, IsEmpty, IsBounded
    <2>5. NeverAllAsleep'
      BY <1>1, <2>1, <2>4 DEF NeverAllAsleep, notFullVars
    <2> QED BY <2>2, <2>3, <2>5, ActiveAreAwakeIs
  <1>7. CASE Refusal(t)
    <2>1. UNCHANGED notEmptyVars /\ UNCHANGED notFullVars /\ UNCHANGED contents
      BY <1>7 DEF Refusal, Refuse, dataVars
    <2> QED BY <1>1, <2>1 DEF PipelineOK, ActiveAreAwake, NeverAllAsleep, IsFull, IsEmpty,
                              IsBounded, notEmptyVars, notFullVars
  <1>8. CASE Expiry(t)
    <2>1. call[t].wait = "timed" /\ call[t] # NoCall
      BY <1>8, NoCallIsNone DEF Expiry
    <2>2. call[t] \in C
      BY <1>1, <2>1 DEF Makes
    <2> QED BY <2>1, <2>2, CallsOfThePipeline, OpsOfThePipeline
  <1> QED BY <1>3, <1>4, <1>5, <1>6, <1>7, <1>8 DEF ThreadStep

LEMMA ThreadKeepsPipeline ==
    ASSUME PipelineOK, NEW t \in Threads, Produce(t) \/ Iterate(t)
    PROVE  PipelineOK'
  <1>1. ThreadStep(t, PipelineCalls[t]) /\ Proceeds(t)
    BY PipelineSteps DEF PipelineOK
  <1>2. TypesOK' /\ Makes(PipelineCalls)'
    BY <1>1, ThreadKeepsTypes, ThreadMakes, CallsOfThePipeline DEF PipelineOK
  <1>3. ActiveAreAwake' /\ NeverAllAsleep' /\ UNCHANGED <<consumers, producers>>
    BY <1>1, ThreadKeepsAwake DEF Proceeds
  <1>4. \E c : call' = [call EXCEPT ![t] = c]
    BY <1>1 DEF ThreadStep, StoreStep, Store, AddSleep, SleepNotFull, FetchStep, Fetch,
                TakeSleep, SleepNotEmpty, Refusal, Refuse, Expiry, Expire, Return
  <1>5. Guarded'
    <2>1. stage' \in [Threads -> {"before", "inside", "leaving", "after"}]
      BY <1>1 DEF PipelineOK, Guarded, Proceeds
    <2>2. \A u \in Threads : stage'[u] \in {"inside", "leaving"} <=> stage[u] \in {"inside", "leaving"}
      BY <1>1 DEF PipelineOK, Guarded, Proceeds
    <2>3. \A u \in Threads : stage'[u] # "inside" => call'[u] = NoCall
      <3>1. \A u \in Threads \ {t} : stage'[u] = stage[u] /\ call'[u] = call[u]
        BY <1>1, <1>4 DEF PipelineOK, Guarded, TypesOK, CallsOK, Proceeds
      <3>2. stage'[t] # "inside" => call'[t] = NoCall
        BY <1>1 DEF Proceeds
      <3> QED BY <3>1, <3>2 DEF PipelineOK, Guarded
    <2> QED BY <1>3, <2>1, <2>2, <2>3, PipelineAssumption DEF PipelineOK, Guarded
  <1> QED BY <1>2, <1>3, <1>5 DEF PipelineOK

-----------------------------------------------------------------------------
(* The guards.                                                             *)
LEMMA EnterKeepsPipeline ==
    ASSUME PipelineOK, NEW t \in Threads, Enter(t)
    PROVE  PipelineOK'
  <1>1. /\ Guarded /\ NeverAllAsleep /\ ConsumersCounted /\ ProducersCounted
        /\ Counted(consumers, activeConsumers) /\ Counted(producers, activeProducers)
        /\ sleepingTakers \subseteq consumers /\ sleepingAdders \subseteq producers
    BY ActiveAreAwakeIs, SleepersAreAttached DEF PipelineOK, TypesOK, CountsOK
  <1>2. /\ stage[t] = "before" /\ stage' = [stage EXCEPT ![t] = "inside"]
        /\ UNCHANGED callVars /\ UNCHANGED contents /\ Registration(t)
    BY DEF Enter, Move, Registration, dataVars
  <1>3. TypesOK' /\ Makes(PipelineCalls)'
    BY <1>2, RegistrationKeepsTypes DEF PipelineOK, Makes, callVars
  <1>4. t \notin consumers \cup sleepingTakers /\ t \notin producers \cup sleepingAdders
    BY <1>1, <1>2 DEF Guarded
  <1>5. IsFull' = IsFull /\ IsEmpty' = IsEmpty
    BY <1>2 DEF IsFull, IsEmpty, IsBounded
  <1>6. \A u \in Threads : stage'[u] = IF u = t THEN "inside" ELSE stage[u]
    BY <1>1, <1>2 DEF Guarded
  <1>7. stage' \in [Threads -> {"before", "inside", "leaving", "after"}]
    BY <1>1, <1>2 DEF Guarded
  <1>8. \A u \in Threads : stage'[u] # "inside" => call'[u] = NoCall
    BY <1>1, <1>2, <1>6 DEF Guarded, callVars
  <1>9. CASE t \in Consumers /\ NotEmpty!Attach(t) /\ UNCHANGED notFullVars
    <2>1. ConsumersCounted' /\ consumers' = consumers \cup {t} /\ sleepingTakers' = sleepingTakers
      BY <1>1, <1>4, <1>9, NotEmptyAttaches
    <2>2. ProducersCounted' /\ UNCHANGED <<producers, sleepingAdders>>
      BY <1>1, <1>9 DEF ProducersCounted, notFullVars
    <2>3. NeverAllAsleep'
      BY <1>1, <1>4, <1>5, <2>1, <2>2 DEF NeverAllAsleep
    <2>4. Guarded'
      <3>1. consumers' = {u \in Consumers : stage'[u] \in {"inside", "leaving"}}
        BY <1>1, <1>6, <1>9, <2>1, PipelineAssumption DEF Guarded
      <3>2. producers' = {u \in Producers : stage'[u] \in {"inside", "leaving"}}
        BY <1>1, <1>6, <1>9, <2>2, PipelineAssumption DEF Guarded
      <3> QED BY <1>7, <1>8, <3>1, <3>2 DEF Guarded
    <2> QED BY <1>3, <2>1, <2>2, <2>3, <2>4, ActiveAreAwakeIs DEF PipelineOK
  <1>10. CASE t \in Producers /\ NotFull!Attach(t) /\ UNCHANGED notEmptyVars
    <2>1. ProducersCounted' /\ producers' = producers \cup {t} /\ sleepingAdders' = sleepingAdders
      BY <1>1, <1>4, <1>10, NotFullAttaches
    <2>2. ConsumersCounted' /\ UNCHANGED <<consumers, sleepingTakers>>
      BY <1>1, <1>10 DEF ConsumersCounted, notEmptyVars
    <2>3. NeverAllAsleep'
      BY <1>1, <1>4, <1>5, <2>1, <2>2 DEF NeverAllAsleep
    <2>4. Guarded'
      <3>1. consumers' = {u \in Consumers : stage'[u] \in {"inside", "leaving"}}
        BY <1>1, <1>6, <1>10, <2>2, PipelineAssumption DEF Guarded
      <3>2. producers' = {u \in Producers : stage'[u] \in {"inside", "leaving"}}
        BY <1>1, <1>6, <1>10, <2>1, PipelineAssumption DEF Guarded
      <3> QED BY <1>7, <1>8, <3>1, <3>2 DEF Guarded
    <2> QED BY <1>3, <2>1, <2>2, <2>3, <2>4, ActiveAreAwakeIs DEF PipelineOK
  <1> QED BY <1>9, <1>10 DEF Enter

LEMMA LeaveKeepsPipeline ==
    ASSUME PipelineOK, NEW t \in Threads, Leave(t)
    PROVE  PipelineOK'
  <1>1. /\ Guarded /\ NeverAllAsleep /\ ConsumersCounted /\ ProducersCounted
        /\ Counted(consumers, activeConsumers) /\ Counted(producers, activeProducers)
        /\ sleepingTakers \subseteq consumers /\ sleepingAdders \subseteq producers
    BY ActiveAreAwakeIs, SleepersAreAttached DEF PipelineOK, TypesOK, CountsOK
  <1>2. /\ stage[t] = "leaving" /\ stage' = [stage EXCEPT ![t] = "after"]
        /\ UNCHANGED callVars /\ UNCHANGED contents /\ Registration(t)
    BY DEF Leave, Move, Registration, dataVars
  <1>3. TypesOK' /\ Makes(PipelineCalls)'
    BY <1>2, RegistrationKeepsTypes DEF PipelineOK, Makes, callVars
  <1>4. call[t] = NoCall /\ t \notin sleepingTakers \cup sleepingAdders
    BY <1>1, <1>2, NoCallIsNone DEF PipelineOK, TypesOK, SleepOK, Guarded
  <1>5. IsFull' = IsFull /\ IsEmpty' = IsEmpty
    BY <1>2 DEF IsFull, IsEmpty, IsBounded
  <1>6. \A u \in Threads : stage'[u] = IF u = t THEN "after" ELSE stage[u]
    BY <1>1, <1>2 DEF Guarded
  <1>7. stage' \in [Threads -> {"before", "inside", "leaving", "after"}]
    BY <1>1, <1>2 DEF Guarded
  <1>8. \A u \in Threads : stage'[u] # "inside" => call'[u] = NoCall
    BY <1>1, <1>2, <1>4, <1>6 DEF Guarded, callVars
  <1>9. CASE t \in Consumers /\ NotEmpty!Detach(t) /\ UNCHANGED notFullVars
    <2>1. t \in consumers \ sleepingTakers
      BY <1>1, <1>2, <1>4, <1>9 DEF Guarded
    <2>2. /\ ConsumersCounted' /\ consumers' = consumers \ {t}
          /\ consumers' # {} => ~(consumers' \subseteq sleepingTakers')
      BY <1>1, <1>9, <2>1, NotEmptyHandsOver
    <2>3. ProducersCounted' /\ UNCHANGED <<producers, sleepingAdders>>
      BY <1>1, <1>9 DEF ProducersCounted, notFullVars
    <2>4. NeverAllAsleep'
      BY <1>1, <1>5, <2>2, <2>3 DEF NeverAllAsleep
    <2>5. Guarded'
      <3>1. consumers' = {u \in Consumers : stage'[u] \in {"inside", "leaving"}}
        BY <1>1, <1>6, <1>9, <2>2, PipelineAssumption DEF Guarded
      <3>2. producers' = {u \in Producers : stage'[u] \in {"inside", "leaving"}}
        BY <1>1, <1>6, <1>9, <2>3, PipelineAssumption DEF Guarded
      <3> QED BY <1>7, <1>8, <3>1, <3>2 DEF Guarded
    <2> QED BY <1>3, <2>2, <2>3, <2>4, <2>5, ActiveAreAwakeIs DEF PipelineOK
  <1>10. CASE t \in Producers /\ NotFull!Detach(t) /\ UNCHANGED notEmptyVars
    <2>1. t \in producers \ sleepingAdders
      BY <1>1, <1>2, <1>4, <1>10 DEF Guarded
    <2>2. /\ ProducersCounted' /\ producers' = producers \ {t}
          /\ producers' # {} => ~(producers' \subseteq sleepingAdders')
      BY <1>1, <1>10, <2>1, NotFullHandsOver
    <2>3. ConsumersCounted' /\ UNCHANGED <<consumers, sleepingTakers>>
      BY <1>1, <1>10 DEF ConsumersCounted, notEmptyVars
    <2>4. NeverAllAsleep'
      BY <1>1, <1>5, <2>2, <2>3 DEF NeverAllAsleep
    <2>5. Guarded'
      <3>1. consumers' = {u \in Consumers : stage'[u] \in {"inside", "leaving"}}
        BY <1>1, <1>6, <1>10, <2>3, PipelineAssumption DEF Guarded
      <3>2. producers' = {u \in Producers : stage'[u] \in {"inside", "leaving"}}
        BY <1>1, <1>6, <1>10, <2>2, PipelineAssumption DEF Guarded
      <3> QED BY <1>7, <1>8, <3>1, <3>2 DEF Guarded
    <2> QED BY <1>3, <2>2, <2>3, <2>4, <2>5, ActiveAreAwakeIs DEF PipelineOK
  <1> QED BY <1>9, <1>10 DEF Leave

-----------------------------------------------------------------------------
(* The rest, and the invariant.                                            *)
LEMMA BreakKeepsPipeline ==
    ASSUME PipelineOK, NEW t \in Threads, Break(t)
    PROVE  PipelineOK'
  <1>1. /\ stage[t] = "inside" /\ stage' = [stage EXCEPT ![t] = "leaving"]
        /\ call[t] = NoCall /\ UNCHANGED collectionVars
    BY DEF Break, Move
  <1>2. TypesOK'
    BY <1>1, StutterKeepsTypes DEF PipelineOK
  <1>3. Guarded'
    BY <1>1 DEF PipelineOK, Guarded, collectionVars, callVars, notEmptyVars, notFullVars
  <1>4. Makes(PipelineCalls)' /\ ActiveAreAwake' /\ NeverAllAsleep'
    BY <1>1 DEF PipelineOK, Makes, ActiveAreAwake, NeverAllAsleep, IsFull, IsEmpty, IsBounded,
                collectionVars, dataVars, callVars, notEmptyVars, notFullVars
  <1> QED BY <1>2, <1>3, <1>4 DEF PipelineOK

LEMMA WakingKeepsPipeline ==
    ASSUME PipelineOK,
           (\E t \in Threads : WakeUp(t)) \/ CompleteAdding, UNCHANGED stage
    PROVE  PipelineOK'
  <1>1. /\ Guarded /\ NeverAllAsleep /\ ConsumersCounted /\ ProducersCounted
        /\ Counted(consumers, activeConsumers) /\ Counted(producers, activeProducers)
        /\ sleepingTakers \subseteq consumers /\ sleepingAdders \subseteq producers
    BY ActiveAreAwakeIs, SleepersAreAttached DEF PipelineOK, TypesOK, CountsOK
  <1>2. TypesOK'
    BY WakeKeepsTypes, CompleteKeepsTypes DEF PipelineOK
  <1>3. UNCHANGED callVars /\ UNCHANGED contents
    BY DEF WakeUp, CompleteAdding, dataVars
  <1>4. /\ UNCHANGED <<consumers, producers>>
        /\ sleepingTakers' \subseteq sleepingTakers /\ sleepingAdders' \subseteq sleepingAdders
    BY DEF WakeUp, CompleteAdding, BroadcastBoth, NotEmpty!Wake, NotFull!Wake,
           NotEmpty!Broadcast, NotFull!Broadcast, notEmptyVars, notFullVars
  <1>5. ConsumersCounted' /\ ProducersCounted'
    BY <1>1, NotEmptyStaysCounted, NotFullStaysCounted DEF WakeUp, CompleteAdding, BroadcastBoth
  <1>6. NeverAllAsleep'
    BY <1>1, <1>3, <1>4 DEF NeverAllAsleep, IsFull, IsEmpty, IsBounded
  <1>7. Guarded' /\ Makes(PipelineCalls)'
    BY <1>1, <1>3, <1>4 DEF PipelineOK, Guarded, Makes, callVars
  <1> QED BY <1>2, <1>5, <1>6, <1>7, ActiveAreAwakeIs DEF PipelineOK

LEMMA PipelineStarts == PipelineInit => PipelineOK
  <1> SUFFICES ASSUME PipelineInit PROVE PipelineOK
    OBVIOUS
  <1>1. CollectionInit /\ stage = [t \in Threads |-> "before"]
    BY DEF PipelineInit
  <1>2. /\ consumers = {} /\ producers = {} /\ activeConsumers = 0 /\ activeProducers = 0
        /\ sleepingTakers = {} /\ sleepingAdders = {} /\ call = [t \in Threads |-> NoCall]
    BY <1>1 DEF CollectionInit, InitIn, NotEmpty!Empty, NotFull!Empty
  <1>3. Guarded
    BY <1>1, <1>2, PipelineAssumption DEF Guarded
  <1>4. Makes(PipelineCalls) /\ NeverAllAsleep
    BY <1>2 DEF Makes, NeverAllAsleep
  <1>5. ActiveAreAwake
    <2>1. consumers \ sleepingTakers = {} /\ producers \ sleepingAdders = {} /\ Cardinality({}) = 0
      BY <1>2, FS_EmptySet
    <2> QED BY <1>2, <2>1 DEF ActiveAreAwake
  <1> QED BY <1>1, <1>3, <1>4, <1>5, TypesStart DEF PipelineOK

LEMMA PipelineAlways == PipelineSpec => []PipelineOK
  <1>1. PipelineOK /\ [PipelineNext]_pipelineVars => PipelineOK'
    <2> SUFFICES ASSUME PipelineOK, [PipelineNext]_pipelineVars PROVE PipelineOK'
      OBVIOUS
    <2>1. CASE UNCHANGED pipelineVars
      <3>1. UNCHANGED collectionVars /\ UNCHANGED stage
        BY <2>1 DEF pipelineVars
      <3>2. TypesOK'
        BY <3>1, StutterKeepsTypes DEF PipelineOK
      <3> QED BY <3>1, <3>2 DEF PipelineOK, Guarded, Makes, ActiveAreAwake, NeverAllAsleep,
                                IsFull, IsEmpty, IsBounded, collectionVars, dataVars, callVars,
                                notEmptyVars, notFullVars
    <2>2. CASE PipelineNext
      BY <2>2, EnterKeepsPipeline, LeaveKeepsPipeline, BreakKeepsPipeline, ThreadKeepsPipeline,
         WakingKeepsPipeline DEF PipelineNext, Finish
    <2> QED BY <2>1, <2>2
  <1> QED BY <1>1, PipelineStarts, PTL DEF PipelineSpec

(* However many producers and consumers there are, and whatever their      *)
(* order: no more workers count as active than are attached and awake, so  *)
(* a notification that is spared was not needed.                           *)
THEOREM CountedAreAwake == PipelineSpec => []ActiveAreAwake
  BY PipelineAlways, PTL DEF PipelineOK

(* And so the attached consumers never all sleep beside an element, nor    *)
(* the producers beside room, spurious wake-ups, leaving threads and       *)
(* completion included, for every number of items per thread.              *)
THEOREM NobodySleepsAlone == PipelineSpec => []NeverAllAsleep
  BY PipelineAlways, PTL DEF PipelineOK
=============================================================================
