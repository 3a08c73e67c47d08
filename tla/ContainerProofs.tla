--------------------------- MODULE ContainerProofs ---------------------------
(***************************************************************************)
(* Lemmas about the containers: what each operation makes of the elements  *)
(* and their order.  The operations are folds over sequences; the lemmas   *)
(* on recursion come first.                                                *)
(***************************************************************************)
EXTENDS Containers, Subsequences, FiniteSetTheorems, SequenceTheorems, TLAPS

-----------------------------------------------------------------------------
(* A nonempty set of natural numbers has a least element.                  *)
LEMMA LeastNumber ==
    ASSUME NEW S \in SUBSET Nat, S # {}
    PROVE  \E m \in S : \A n \in S : m <= n
  <1> DEFINE Below == {p \in Nat \X Nat : p[1] < p[2]}
  <1>1. IsWellFoundedOn(Below, Nat)
    BY NatLessThanWellFounded DEF OpToRel
  <1>2. PICK m \in S : \A n \in S : <<n, m>> \notin Below
    <2> HIDE DEF Below
    <2> QED BY <1>1, WFMin
  <1>3. ASSUME NEW n \in S PROVE m <= n
    <2>1. <<n, m>> \notin Below
      BY <1>2
    <2> QED BY <2>1
  <1> QED BY <1>3

(* Induction, for a set: one that has 0 and the successor of each of its   *)
(* numbers has them all.                                                   *)
LEMMA NumbersInduction ==
    ASSUME NEW S, 0 \in S, \A n \in Nat : n \in S => n + 1 \in S
    PROVE  Nat \subseteq S
  <1> SUFFICES ASSUME Nat \ S # {} PROVE FALSE
    OBVIOUS
  <1>1. PICK m \in Nat \ S : \A n \in Nat \ S : m <= n
    BY LeastNumber
  <1>2. m # 0 /\ m - 1 \in Nat /\ m - 1 \in S
    BY <1>1
  <1> QED BY <1>1, <1>2

(* The same up to n. *)
LEMMA InductionUpTo ==
    ASSUME NEW n \in Nat, NEW S, 0 \in S, \A k \in 1 .. n : k - 1 \in S => k \in S
    PROVE  0 .. n \subseteq S
  <1> DEFINE T == {k \in Nat : k <= n => k \in S}
  <1>1. 0 \in T
    OBVIOUS
  <1>2. ASSUME NEW k \in Nat, k \in T PROVE k + 1 \in T
    <2> SUFFICES ASSUME k + 1 <= n PROVE k + 1 \in S
      OBVIOUS
    <2>1. k + 1 \in 1 .. n /\ (k + 1) - 1 = k /\ k \in S
      BY <1>2
    <2> QED BY <2>1
  <1> HIDE DEF T
  <1>3. Nat \subseteq T
    BY <1>1, <1>2, NumbersInduction
  <1> QED BY <1>3 DEF T

(* A bounded nonempty set of natural numbers has the maximum it should.    *)
LEMMA MaxProperty ==
    ASSUME NEW S \in SUBSET Nat, S # {}, NEW n \in Nat, \A x \in S : x <= n
    PROVE  Max(S) \in S /\ \A x \in S : x <= Max(S)
  <1> DEFINE Bounds == {b \in Nat : \A x \in S : x <= b}
  <1>1. PICK m \in Bounds : \A b \in Bounds : m <= b
    BY LeastNumber
  <1>2. m \in S
    <2> SUFFICES ASSUME m \notin S PROVE FALSE
      OBVIOUS
    <2>1. \A x \in S : x <= m - 1
      OBVIOUS
    <2>2. m - 1 \in Nat
      <3>1. PICK x \in S : x \in Nat /\ x <= m - 1
        BY <2>1
      <3> QED BY <3>1
    <2>3. m - 1 \in Bounds
      BY <2>1, <2>2
    <2> QED BY <1>1, <2>3
  <1>3. \E x \in S : \A y \in S : x >= y
    BY <1>1, <1>2
  <1> QED BY <1>3 DEF Max

LEMMA MinProperty ==
    ASSUME NEW m \in Int, NEW n \in Int
    PROVE  Min({m, n}) = IF m <= n THEN m ELSE n
  BY DEF Min

(* g[0], ..., g[n] start from x, and F makes each from the one before it.  *)
Iterates(g, n, x, F) == g[0] = x /\ \A k \in 1 .. n : g[k] = F[<<g[k - 1], k>>]

(* A recursion along the numbers up to n has a solution.                   *)
LEMMA Iteration ==
    ASSUME NEW X, NEW n \in Nat, NEW x \in X, NEW F \in [X \X (1 .. n) -> X]
    PROVE  \E g \in [0 .. n -> X] : Iterates(g, n, x, F)
  <1> DEFINE Solves(g, m) == Iterates(g, m, x, F)
  <1> DEFINE Solved == {m \in Nat : m <= n => \E g \in [0 .. m -> X] : Solves(g, m)}
  <1>1. 0 \in Solved
    <2>1. Solves([i \in 0 .. 0 |-> x], 0) /\ [i \in 0 .. 0 |-> x] \in [0 .. 0 -> X]
      BY DEF Iterates
    <2> QED BY <2>1
  <1>2. ASSUME NEW m \in Nat, m \in Solved PROVE m + 1 \in Solved
    <2> SUFFICES ASSUME m + 1 <= n PROVE \E g \in [0 .. m + 1 -> X] : Solves(g, m + 1)
      OBVIOUS
    <2>1. PICK g \in [0 .. m -> X] : Solves(g, m)
      BY <1>2
    <2> DEFINE y == F[<<g[m], m + 1>>]
    <2>2. y \in X
      BY <2>1
    <2> HIDE DEF y
    <2> DEFINE h == [i \in 0 .. m + 1 |-> IF i = m + 1 THEN y ELSE g[i]]
    <2>3. h \in [0 .. m + 1 -> X]
      BY <2>1, <2>2
    <2>4. h[0] = x
      BY <2>1 DEF Iterates
    <2>5. ASSUME NEW k \in 1 .. m + 1 PROVE h[k] = F[<<h[k - 1], k>>]
      <3>1. CASE k = m + 1
        <4>1. h[k] = y /\ h[k - 1] = g[m]
          BY <3>1
        <4> QED BY <3>1, <4>1 DEF y
      <3>2. CASE k # m + 1
        <4>1. k \in 1 .. m /\ h[k] = g[k] /\ h[k - 1] = g[k - 1]
          BY <3>2
        <4> QED BY <2>1, <4>1 DEF Iterates
      <3> QED BY <3>1, <3>2
    <2> QED BY <2>3, <2>4, <2>5 DEF Iterates
  <1> HIDE DEF Solved
  <1>3. n \in Solved
    BY <1>1, <1>2, NumbersInduction
  <1> QED BY <1>3 DEF Solved

-----------------------------------------------------------------------------
(* Orders.  Before(a, x, y): x stands before y in a.                       *)
Before(a, x, y) == \E i, j \in DOMAIN a : i < j /\ a[i] = x /\ a[j] = y

(* The elements of d are elements of c, and stand in the order of c. *)
InOrder(d, c) ==
    /\ \A i \in DOMAIN d : d[i] \in Elements(c)
    /\ \A i, j \in DOMAIN d : i < j => Before(c, d[i], d[j])

(* A sequence of different items. *)
IsItems(s) == s \in Seq(Items) /\ IsInjective(s)

(* Who is handed out first, from the high end and from the low end, when   *)
(* a is the order of arrival.                                              *)
First(a, x, y) ==
    IF Kind = "priority"
    THEN priority[x] > priority[y] \/ (priority[x] = priority[y] /\ Before(a, x, y))
    ELSE Before(a, x, y)

FirstFromBelow(a, x, y) ==
    priority[x] < priority[y] \/ (priority[x] = priority[y] /\ Before(a, x, y))

(* The contents c are the elements a that arrived, in the order in which   *)
(* they are handed out.                                                    *)
Sorted(c, a) ==
    /\ IsItems(c) /\ IsItems(a) /\ Elements(c) = Elements(a)
    /\ \A i, j \in DOMAIN c : i < j => First(a, c[i], c[j])

(* In a sequence of different elements the order is one, and it is strict. *)
LEMMA BeforeIsStrict ==
    ASSUME NEW a, IsItems(a), NEW x, NEW y, Before(a, x, y)
    PROVE  x # y /\ ~Before(a, y, x) /\ x \in Elements(a) /\ y \in Elements(a)
  BY DEF Before, IsItems, IsInjective, Elements

LEMMA BeforeIsTotal ==
    ASSUME NEW a, IsItems(a), NEW x \in Elements(a), NEW y \in Elements(a), x # y
    PROVE  Before(a, x, y) \/ Before(a, y, x)
  BY DEF Before, IsItems, Elements

LEMMA BeforeIsTransitive ==
    ASSUME NEW a, IsItems(a), NEW x, NEW y, NEW z, Before(a, x, y), Before(a, y, z)
    PROVE  Before(a, x, z)
  BY DEF Before, IsItems, IsInjective

LEMMA InOrderBefore ==
    ASSUME NEW c, NEW d, IsItems(c), InOrder(d, c), NEW x, NEW y, Before(d, x, y)
    PROVE  Before(c, x, y)
  BY DEF InOrder, Before

LEMMA InOrderIsTransitive ==
    ASSUME NEW b, NEW c, NEW d, IsItems(b), IsItems(c), InOrder(d, c), InOrder(c, b)
    PROVE  InOrder(d, b)
  <1>1. \A i, j \in DOMAIN d : i < j => Before(b, d[i], d[j])
    BY InOrderBefore DEF InOrder
  <1>2. \A i \in DOMAIN d : d[i] \in Elements(b)
    BY DEF InOrder, Elements
  <1> QED BY <1>1, <1>2 DEF InOrder

-----------------------------------------------------------------------------
(* What the operators on sequences do.                                     *)
LEMMA InsertAtIs ==
    ASSUME NEW S, NEW s \in Seq(S), NEW i \in 1 .. Len(s) + 1, NEW x \in S
    PROVE  /\ InsertAt(s, i, x) \in Seq(S)
           /\ Len(InsertAt(s, i, x)) = Len(s) + 1
           /\ \A j \in 1 .. Len(s) + 1 :
                InsertAt(s, i, x)[j] =
                    IF j < i THEN s[j] ELSE IF j = i THEN x ELSE s[j - 1]
  <1> DEFINE head == SubSeq(s, 1, i - 1)
             tail == SubSeq(s, i, Len(s))
  <1>1. head \in Seq(S) /\ Len(head) = i - 1 /\ \A j \in 1 .. i - 1 : head[j] = s[j]
    BY SubSeqProperties, ElementOfSeq, LenProperties
  <1>2. /\ tail \in Seq(S) /\ Len(tail) = Len(s) - i + 1
        /\ \A j \in 1 .. Len(s) - i + 1 : tail[j] = s[i + j - 1]
    BY SubSeqProperties, ElementOfSeq, LenProperties
  <1>3. <<x>> \in Seq(S) /\ Len(<<x>>) = 1 /\ <<x>>[1] = x
    OBVIOUS
  <1> HIDE DEF head, tail
  <1> DEFINE front == head \o <<x>>
  <1>4. /\ front \in Seq(S) /\ Len(front) = i
        /\ \A j \in 1 .. i : front[j] = IF j < i THEN s[j] ELSE x
    <2>1. /\ front \in Seq(S) /\ Len(front) = (i - 1) + 1
          /\ \A j \in 1 .. (i - 1) + 1 :
                front[j] = IF j <= i - 1 THEN head[j] ELSE <<x>>[j - (i - 1)]
      BY <1>1, <1>3, ConcatProperties
    <2> QED BY <1>1, <2>1
  <1> HIDE DEF front
  <1>5. InsertAt(s, i, x) = front \o tail
    BY DEF InsertAt, front, head, tail
  <1>6. /\ front \o tail \in Seq(S)
        /\ Len(front \o tail) = i + (Len(s) - i + 1)
        /\ \A j \in 1 .. i + (Len(s) - i + 1) :
              (front \o tail)[j] = IF j <= i THEN front[j] ELSE tail[j - i]
    BY <1>2, <1>4, ConcatProperties
  <1> QED BY <1>2, <1>4, <1>5, <1>6, LenProperties

LEMMA RemoveAtIs ==
    ASSUME NEW S, NEW s \in Seq(S), NEW i \in 1 .. Len(s)
    PROVE  /\ RemoveAt(s, i) \in Seq(S)
           /\ Len(RemoveAt(s, i)) = Len(s) - 1
           /\ \A j \in 1 .. Len(s) - 1 :
                RemoveAt(s, i)[j] = IF j < i THEN s[j] ELSE s[j + 1]
  <1> DEFINE head == SubSeq(s, 1, i - 1)
             tail == SubSeq(s, i + 1, Len(s))
  <1>1. head \in Seq(S) /\ Len(head) = i - 1 /\ \A j \in 1 .. i - 1 : head[j] = s[j]
    BY SubSeqProperties, ElementOfSeq, LenProperties
  <1>2. /\ tail \in Seq(S) /\ Len(tail) = Len(s) - i
        /\ \A j \in 1 .. Len(s) - i : tail[j] = s[i + j]
    BY SubSeqProperties, ElementOfSeq, LenProperties
  <1> HIDE DEF head, tail
  <1>3. RemoveAt(s, i) = head \o tail
    BY DEF RemoveAt, head, tail
  <1>4. /\ head \o tail \in Seq(S)
        /\ Len(head \o tail) = Len(head) + Len(tail)
        /\ \A j \in 1 .. Len(head) + Len(tail) :
              (head \o tail)[j] = IF j <= Len(head) THEN head[j] ELSE tail[j - Len(head)]
    BY <1>1, <1>2, ConcatProperties
  <1>5. Len(head) + Len(tail) = Len(s) - 1
    BY <1>1, <1>2, LenProperties
  <1>6. ASSUME NEW j \in 1 .. Len(s) - 1
        PROVE  (head \o tail)[j] = IF j < i THEN s[j] ELSE s[j + 1]
    <2>1. (head \o tail)[j] = IF j <= i - 1 THEN head[j] ELSE tail[j - (i - 1)]
      BY <1>1, <1>4, <1>5
    <2>2. CASE j < i
      BY <1>1, <2>1, <2>2
    <2>3. CASE ~(j < i)
      <3>1. j - (i - 1) \in 1 .. Len(s) - i /\ i + (j - (i - 1)) = j + 1
        BY <2>3, LenProperties
      <3>2. tail[j - (i - 1)] = s[j + 1]
        BY <1>2, <3>1
      <3> QED BY <2>1, <2>3, <3>2
    <2> QED BY <2>2, <2>3
  <1> QED BY <1>3, <1>4, <1>5, <1>6

(* Inserting adds the element and keeps the others in their order. *)
LEMMA InsertAtKeeps ==
    ASSUME NEW s, IsItems(s), NEW i \in 1 .. Len(s) + 1, NEW x \in Items \ Elements(s)
    PROVE  /\ IsItems(InsertAt(s, i, x))
           /\ Elements(InsertAt(s, i, x)) = Elements(s) \cup {x}
           /\ \A j \in 1 .. Len(s) + 1 :
                InsertAt(s, i, x)[j] =
                    IF j < i THEN s[j] ELSE IF j = i THEN x ELSE s[j - 1]
  <1> DEFINE t == InsertAt(s, i, x)
  <1>1. s \in Seq(Items) /\ x \in Items
    BY DEF IsItems
  <1>2. t \in Seq(Items) /\ Len(t) = Len(s) + 1
    <2>1. t \in Seq(Items)
      BY <1>1, InsertAtIs
    <2>2. Len(t) = Len(s) + 1
      BY <1>1, InsertAtIs
    <2> QED BY <2>1, <2>2
  <1>3. \A j \in 1 .. Len(s) + 1 :
              t[j] = IF j < i THEN s[j] ELSE IF j = i THEN x ELSE s[j - 1]
    BY <1>1, InsertAtIs
  <1> HIDE DEF t
  <1>4. DOMAIN t = 1 .. Len(s) + 1 /\ DOMAIN s = 1 .. Len(s) /\ Len(s) \in Nat
    BY <1>1, <1>2
  <1>5. \A j \in 1 .. Len(s) : s[j] # x
    BY <1>4 DEF Elements
  <1>6. ASSUME NEW j \in 1 .. Len(s) + 1, NEW k \in 1 .. Len(s) + 1, j < k
        PROVE  t[j] # t[k]
    <2>1. \A m, n \in 1 .. Len(s) : s[m] = s[n] => m = n
      BY <1>4 DEF IsItems, IsInjective
    <2>2. CASE k < i
      BY <1>3, <1>4, <1>6, <2>1, <2>2
    <2>3. CASE k = i
      BY <1>3, <1>4, <1>5, <1>6, <2>3
    <2>4. CASE k > i
      <3>1. t[k] = s[k - 1] /\ k - 1 \in 1 .. Len(s)
        BY <1>3, <1>4, <2>4
      <3>2. CASE j < i
        BY <1>3, <1>4, <2>1, <2>4, <3>1, <3>2
      <3>3. CASE j = i
        BY <1>3, <1>4, <1>5, <3>1, <3>3
      <3>4. CASE j > i
        BY <1>3, <1>4, <1>6, <2>1, <3>1, <3>4
      <3> QED BY <3>2, <3>3, <3>4
    <2> QED BY <2>2, <2>3, <2>4
  <1>7. IsInjective(t)
    BY <1>4, <1>6 DEF IsInjective
  <1>8. Elements(t) \subseteq Elements(s) \cup {x}
    BY <1>3, <1>4 DEF Elements
  <1>9. x \in Elements(t)
    BY <1>3, <1>4 DEF Elements
  <1>10. ASSUME NEW j \in 1 .. Len(s) PROVE s[j] \in Elements(t)
    <2>1. CASE j < i
      BY <1>3, <1>4, <2>1 DEF Elements
    <2>2. CASE ~(j < i)
      <3>1. t[j + 1] = s[j] /\ j + 1 \in 1 .. Len(s) + 1
        BY <1>3, <1>4, <2>2
      <3> QED BY <1>4, <3>1 DEF Elements
    <2> QED BY <2>1, <2>2
  <1>11. Elements(s) \subseteq Elements(t)
    BY <1>4, <1>10 DEF Elements
  <1>12. IsItems(t) /\ Elements(t) = Elements(s) \cup {x}
    BY <1>2, <1>7, <1>8, <1>9, <1>11 DEF IsItems
  <1> QED BY <1>3, <1>12 DEF t

(* So does removing one. *)
LEMMA RemoveAtKeeps ==
    ASSUME NEW s, IsItems(s), NEW i \in 1 .. Len(s)
    PROVE  /\ IsItems(RemoveAt(s, i))
           /\ Len(RemoveAt(s, i)) = Len(s) - 1
           /\ Elements(RemoveAt(s, i)) = Elements(s) \ {s[i]}
           /\ InOrder(RemoveAt(s, i), s)
  <1> DEFINE t == RemoveAt(s, i)
  <1>1. s \in Seq(Items) /\ DOMAIN s = 1 .. Len(s) /\ Len(s) \in Nat
    BY DEF IsItems
  <1>2. t \in Seq(Items) /\ Len(t) = Len(s) - 1
    <2>1. t \in Seq(Items)
      BY <1>1, RemoveAtIs
    <2>2. Len(t) = Len(s) - 1
      BY <1>1, RemoveAtIs
    <2> QED BY <2>1, <2>2
  <1>3. \A j \in 1 .. Len(s) - 1 : t[j] = IF j < i THEN s[j] ELSE s[j + 1]
    BY <1>1, RemoveAtIs
  <1> HIDE DEF t
  <1>4. DOMAIN t = 1 .. Len(s) - 1
    BY <1>2
  <1>5. \A m, n \in 1 .. Len(s) : s[m] = s[n] => m = n
    BY <1>1 DEF IsItems, IsInjective
  <1> DEFINE from(j) == IF j < i THEN j ELSE j + 1
  <1>6. ASSUME NEW j \in 1 .. Len(s) - 1
        PROVE  from(j) \in 1 .. Len(s) /\ from(j) # i /\ t[j] = s[from(j)]
    BY <1>1, <1>3
  <1>7. ASSUME NEW j \in 1 .. Len(s) - 1, NEW k \in 1 .. Len(s) - 1, j < k
        PROVE  from(j) < from(k)
    BY <1>1, <1>7
  <1> HIDE DEF from
  <1>8. InOrder(t, s)
    <2>1. \A j \in DOMAIN t : t[j] \in Elements(s)
      BY <1>1, <1>4, <1>6 DEF Elements
    <2>2. ASSUME NEW j \in DOMAIN t, NEW k \in DOMAIN t, j < k
          PROVE  Before(s, t[j], t[k])
      <3>1. /\ from(j) \in DOMAIN s /\ from(k) \in DOMAIN s /\ from(j) < from(k)
            /\ s[from(j)] = t[j] /\ s[from(k)] = t[k]
        BY <1>1, <1>4, <1>6, <1>7, <2>2
      <3> QED BY <3>1 DEF Before
    <2> QED BY <2>1, <2>2 DEF InOrder
  <1>9. IsInjective(t)
    <2>1. \A j, k \in DOMAIN t : j < k => t[j] # t[k]
      BY <1>8, BeforeIsStrict DEF InOrder
    <2> QED BY <1>4, <2>1 DEF IsInjective
  <1>10. Elements(t) \subseteq Elements(s) \ {s[i]}
    <2>1. \A j \in 1 .. Len(s) - 1 : t[j] # s[i]
      BY <1>5, <1>6
    <2> QED BY <1>1, <1>4, <1>6, <2>1 DEF Elements
  <1>11. ASSUME NEW j \in 1 .. Len(s), j # i PROVE s[j] \in Elements(t)
    <2>1. CASE j < i
      <3>1. j \in 1 .. Len(s) - 1 /\ t[j] = s[j]
        BY <1>1, <1>3, <2>1
      <3> QED BY <1>4, <3>1 DEF Elements
    <2>2. CASE ~(j < i)
      <3>1. j - 1 \in 1 .. Len(s) - 1 /\ t[j - 1] = s[j]
        BY <1>1, <1>3, <1>11, <2>2
      <3> QED BY <1>4, <3>1 DEF Elements
    <2> QED BY <2>1, <2>2
  <1>12. Elements(s) \ {s[i]} \subseteq Elements(t)
    BY <1>1, <1>11 DEF Elements
  <1> QED BY <1>2, <1>8, <1>9, <1>10, <1>12 DEF IsItems, t

(* A sequence in the order of another has different elements as well. *)
LEMMA InOrderIsItems ==
    ASSUME NEW c, NEW d \in Seq(Items), IsItems(c), InOrder(d, c)
    PROVE  IsItems(d) /\ Elements(d) \subseteq Elements(c)
  <1>1. \A j, k \in DOMAIN d : j < k => d[j] # d[k]
    BY BeforeIsStrict DEF InOrder
  <1>2. IsInjective(d)
    BY <1>1 DEF IsInjective
  <1>3. Elements(d) \subseteq Elements(c)
    BY DEF InOrder, Elements
  <1> QED BY <1>2, <1>3 DEF IsItems

LEMMA AppendIs ==
    ASSUME NEW s \in Seq(Items), NEW x \in Items
    PROVE  InsertAt(s, Len(s) + 1, x) = Append(s, x)
  <1> DEFINE i == Len(s) + 1
             t == InsertAt(s, i, x)
  <1>1. i \in 1 .. Len(s) + 1
    OBVIOUS
  <1>2. i = Len(s) + 1 /\ Len(s) \in Nat
    OBVIOUS
  <1> HIDE DEF i
  <1>3. t \in Seq(Items)
    BY <1>1, InsertAtIs
  <1>4. Len(t) = Len(s) + 1
    BY <1>1, InsertAtIs
  <1>5. \A j \in 1 .. Len(s) + 1 :
           t[j] = IF j < i THEN s[j] ELSE IF j = i THEN x ELSE s[j - 1]
    BY <1>1, InsertAtIs
  <1> HIDE DEF t
  <1>6. /\ Append(s, x) \in Seq(Items) /\ Len(Append(s, x)) = Len(s) + 1
        /\ \A j \in 1 .. Len(s) + 1 :
              Append(s, x)[j] = IF j = Len(s) + 1 THEN x ELSE s[j]
    OBVIOUS
  <1>7. \A j \in 1 .. Len(s) + 1 : t[j] = Append(s, x)[j]
    BY <1>2, <1>5, <1>6
  <1>8. t = Append(s, x)
    BY <1>3, <1>4, <1>6, <1>7, SeqEqual
  <1> QED BY <1>8 DEF t, i

-----------------------------------------------------------------------------
(* Where an operation puts a new element, and which it removes.            *)
LEMMA InsertIs ==
    ASSUME NEW s \in Seq(Items), NEW x \in Items
    PROVE  \E i \in 1 .. Len(s) + 1 :
              /\ Insert(s, x) = InsertAt(s, i, x)
              /\ i > 1 => priority[s[i - 1]] >= priority[x]
              /\ \A j \in i .. Len(s) : priority[s[j]] < priority[x]
  <1> DEFINE atLeast == {i \in DOMAIN s : priority[s[i]] >= priority[x]}
             m == Max({0} \cup atLeast)
  <1>1. DOMAIN s = 1 .. Len(s) /\ Len(s) \in Nat
    OBVIOUS
  <1>2. \A j \in 1 .. Len(s) : s[j] \in Items
    OBVIOUS
  <1>3. \A y \in Items : priority[y] \in Nat
    BY ContainersAssumption
  <1>4. m \in {0} \cup atLeast /\ \A j \in {0} \cup atLeast : j <= m
    <2>1. {0} \cup atLeast \in SUBSET Nat /\ {0} \cup atLeast # {}
      BY <1>1
    <2>2. \A j \in {0} \cup atLeast : j <= Len(s)
      BY <1>1
    <2> HIDE DEF atLeast
    <2> QED BY <1>1, <2>1, <2>2, MaxProperty
  <1>5. Insert(s, x) = InsertAt(s, m + 1, x)
    BY DEF Insert
  <1> HIDE DEF m
  <1>6. m \in 0 .. Len(s) /\ m + 1 \in 1 .. Len(s) + 1 /\ (m + 1) - 1 = m
    BY <1>1, <1>4
  <1>7. m + 1 > 1 => priority[s[m]] >= priority[x]
    BY <1>4, <1>6
  <1>8. ASSUME NEW j \in m + 1 .. Len(s) PROVE priority[s[j]] < priority[x]
    <2>1. j \in 1 .. Len(s) /\ ~(j <= m)
      BY <1>6
    <2>2. j \notin atLeast
      BY <1>4, <2>1
    <2>3. ~(priority[s[j]] >= priority[x])
      BY <1>1, <2>1, <2>2
    <2>4. priority[s[j]] \in Nat /\ priority[x] \in Nat
      BY <1>2, <1>3, <2>1
    <2> QED BY <2>3, <2>4
  <1> HIDE DEF atLeast
  <1> QED BY <1>5, <1>6, <1>7, <1>8
(* The end of the container at which try_add puts an element.              *)
LEMMA PushBackIs ==
    ASSUME NEW s \in Seq(Items), NEW x \in Items
    PROVE  \E i \in 1 .. Len(s) + 1 :
              /\ PushBack(s, x) = InsertAt(s, i, x)
              /\ Kind # "priority" => i = Len(s) + 1
              /\ Kind = "priority" => /\ i > 1 => priority[s[i - 1]] >= priority[x]
                                      /\ \A j \in i .. Len(s) : priority[s[j]] < priority[x]
  <1>1. CASE Kind = "priority"
    BY <1>1, InsertIs DEF PushBack
  <1>2. CASE Kind # "priority"
    <2>1. PushBack(s, x) = InsertAt(s, Len(s) + 1, x)
      BY <1>2, AppendIs DEF PushBack
    <2>2. Len(s) + 1 \in 1 .. Len(s) + 1
      OBVIOUS
    <2> QED BY <1>2, <2>1, <2>2
  <1> QED BY <1>1, <1>2

LEMMA PushBackGrows ==
    ASSUME NEW s \in Seq(Items), NEW x \in Items
    PROVE  PushBack(s, x) \in Seq(Items) /\ Len(PushBack(s, x)) = Len(s) + 1
  <1>1. PICK i \in 1 .. Len(s) + 1 : PushBack(s, x) = InsertAt(s, i, x)
    BY PushBackIs
  <1>2. InsertAt(s, i, x) \in Seq(Items)
    BY InsertAtIs
  <1>3. Len(InsertAt(s, i, x)) = Len(s) + 1
    BY InsertAtIs
  <1> QED BY <1>1, <1>2, <1>3

LEMMA EmplaceGrows ==
    ASSUME NEW s \in Seq(Items), NEW x \in Items
    PROVE  Emplace(s, x) \in Seq(Items) /\ Len(Emplace(s, x)) = Len(s) + 1
  <1>1. CASE Kind = "stack"
    <2>1. Emplace(s, x) = <<x>> \o s
      BY <1>1 DEF Emplace
    <2>2. <<x>> \in Seq(Items) /\ Len(<<x>>) = 1
      OBVIOUS
    <2>3. <<x>> \o s \in Seq(Items) /\ Len(<<x>> \o s) = 1 + Len(s)
      BY <2>2, ConcatProperties
    <2> QED BY <2>1, <2>3
  <1>2. CASE Kind # "stack"
    <2>1. Emplace(s, x) = PushBack(s, x)
      BY <1>2, ContainersAssumption DEF Emplace, PushBack
    <2> QED BY <2>1, PushBackGrows
  <1> QED BY <1>1, <1>2

(* The bulk operations add one element after the other. *)
LEMMA PushAllSteps ==
    ASSUME NEW s \in Seq(Items), NEW n \in Nat, NEW xs \in [1 .. n -> Items]
    PROVE  \E g \in [0 .. n -> Seq(Items)] :
              /\ g[0] = s
              /\ \A k \in 1 .. n : g[k] = PushBack(g[k - 1], xs[k])
              /\ PushAll(s, xs) = g[n]
  <1> DEFINE F == [p \in Seq(Items) \X (1 .. n) |-> PushBack(p[1], xs[p[2]])]
             Grown(g) == g = [k \in 0 .. n |->
                                IF k = 0 THEN s ELSE PushBack(g[k - 1], xs[k])]
             grown == CHOOSE g : Grown(g)
  <1>1. F \in [Seq(Items) \X (1 .. n) -> Seq(Items)]
    <2>1. ASSUME NEW p \in Seq(Items) \X (1 .. n) PROVE PushBack(p[1], xs[p[2]]) \in Seq(Items)
      <3>1. p[1] \in Seq(Items) /\ xs[p[2]] \in Items
        OBVIOUS
      <3> QED BY <3>1, PushBackGrows
    <2> QED BY <2>1
  <1>2. PICK g \in [0 .. n -> Seq(Items)] : Iterates(g, n, s, F)
    <2> HIDE DEF F
    <2> QED BY <1>1, Iteration
  <1>3. \A k \in 1 .. n : g[k] = PushBack(g[k - 1], xs[k])
    <2>1. ASSUME NEW k \in 1 .. n PROVE F[<<g[k - 1], k>>] = PushBack(g[k - 1], xs[k])
      <3>1. g[k - 1] \in Seq(Items)
        OBVIOUS
      <3> QED BY <3>1
    <2> QED BY <1>2, <2>1 DEF Iterates
  <1>4. g[0] = s
    BY <1>2 DEF Iterates
  <1> HIDE DEF F
  <1>5. Grown(g)
    BY <1>3, <1>4
  <1> HIDE DEF Grown
  <1>6. Grown(grown)
    BY <1>5
  <1>7. PushAll(s, xs) = grown[n]
    <2>1. Len(xs) = n
      OBVIOUS
    <2> QED BY <2>1 DEF PushAll, Grown
  <1> HIDE DEF grown
  <1>8. \A k \in 0 .. n : grown[k] = g[k]
    <2> DEFINE Same == {k \in 0 .. n : grown[k] = g[k]}
    <2>1. 0 \in Same
      BY <1>4, <1>6 DEF Grown
    <2>2. ASSUME NEW k \in 1 .. n, k - 1 \in Same PROVE k \in Same
      BY <1>3, <1>6, <2>2 DEF Grown
    <2> HIDE DEF Same
    <2>3. 0 .. n \subseteq Same
      BY <2>1, <2>2, InductionUpTo
    <2> QED BY <2>3 DEF Same
  <1>9. PushAll(s, xs) = g[n]
    BY <1>7, <1>8
  <1> QED BY <1>3, <1>4, <1>9

LEMMA PushAllGrows ==
    ASSUME NEW s \in Seq(Items), NEW n \in Nat, NEW xs \in [1 .. n -> Items]
    PROVE  PushAll(s, xs) \in Seq(Items) /\ Len(PushAll(s, xs)) = Len(s) + n
  <1>1. PICK g \in [0 .. n -> Seq(Items)] :
              /\ g[0] = s
              /\ \A k \in 1 .. n : g[k] = PushBack(g[k - 1], xs[k])
              /\ PushAll(s, xs) = g[n]
    BY PushAllSteps
  <1> DEFINE Right == {k \in 0 .. n : Len(g[k]) = Len(s) + k}
  <1>2. 0 \in Right
    BY <1>1
  <1>3. ASSUME NEW k \in 1 .. n, k - 1 \in Right PROVE k \in Right
    <2>1. g[k - 1] \in Seq(Items) /\ xs[k] \in Items
      OBVIOUS
    <2>2. Len(PushBack(g[k - 1], xs[k])) = Len(g[k - 1]) + 1
      BY <2>1, PushBackGrows
    <2> QED BY <1>1, <1>3, <2>2
  <1> HIDE DEF Right
  <1>4. 0 .. n \subseteq Right
    BY <1>2, <1>3, InductionUpTo
  <1> QED BY <1>1, <1>4 DEF Right
(* Taking from the high end leaves a part of the sequence. *)
LEMMA WithoutFirstIs ==
    ASSUME NEW s \in Seq(Items), NEW n \in 0 .. Len(s)
    PROVE  /\ WithoutFirst(s, n) \in Seq(Items)
           /\ Len(WithoutFirst(s, n)) = Len(s) - n
           /\ Kind # "stack" =>
                \A j \in 1 .. Len(s) - n : WithoutFirst(s, n)[j] = s[n + j]
  <1>1. Len(s) \in Nat /\ n \in Nat /\ \A j \in 1 .. Len(s) : s[j] \in Items
    OBVIOUS
  <1>2. CASE Kind = "stack"
    <2>1. WithoutFirst(s, n) = SubSeq(s, 1, Len(s) - n)
      BY <1>2 DEF WithoutFirst
    <2>2. /\ SubSeq(s, 1, Len(s) - n) \in Seq(Items)
          /\ Len(SubSeq(s, 1, Len(s) - n)) = Len(s) - n
      BY <1>1, SubSeqProperties
    <2> QED BY <1>2, <2>1, <2>2
  <1>3. CASE Kind # "stack"
    <2>1. WithoutFirst(s, n) = SubSeq(s, n + 1, Len(s))
      BY <1>3 DEF WithoutFirst
    <2>2. /\ SubSeq(s, n + 1, Len(s)) \in Seq(Items)
          /\ Len(SubSeq(s, n + 1, Len(s))) = Len(s) - n
          /\ \A j \in 1 .. Len(s) - n : SubSeq(s, n + 1, Len(s))[j] = s[n + j]
      BY <1>1, SubSeqProperties
    <2> QED BY <2>1, <2>2
  <1> QED BY <1>2, <1>3

(* The walk of try_take_prio ends somewhere, if there is an element. *)
LEMMA LowestIs ==
    ASSUME NEW s \in Seq(Items), s # <<>>
    PROVE  /\ Lowest(s) \in 1 .. Len(s)
           /\ \A j \in Lowest(s) .. Len(s) - 1 : priority[s[j]] <= priority[s[j + 1]]
           /\ Lowest(s) > 1 => priority[s[Lowest(s) - 1]] > priority[s[Lowest(s)]]
  <1> DEFINE flat(i) == \A j \in i .. Len(s) - 1 : priority[s[j]] <= priority[s[j + 1]]
             starts == {i \in DOMAIN s : flat(i)}
  <1>1. Len(s) \in Nat \ {0} /\ DOMAIN s = 1 .. Len(s)
    BY EmptySeq
  <1>2. \A j \in 1 .. Len(s) : priority[s[j]] \in Nat
    BY ContainersAssumption
  <1>3. starts \in SUBSET Nat /\ starts # {}
    <2>1. Len(s) \in starts
      BY <1>1
    <2> QED BY <1>1, <2>1
  <1>4. PICK m \in starts : \A i \in starts : m <= i
    <2> HIDE DEF starts
    <2> QED BY <1>3, LeastNumber
  <1>5. m > 1 => priority[s[m - 1]] > priority[s[m]]
    <2> SUFFICES ASSUME m > 1, ~(priority[s[m - 1]] > priority[s[m]]) PROVE FALSE
      OBVIOUS
    <2>1. m - 1 \in 1 .. Len(s) /\ m \in 1 .. Len(s)
      BY <1>1
    <2>2. priority[s[m - 1]] <= priority[s[m]]
      BY <1>2, <2>1
    <2>3. ASSUME NEW j \in m - 1 .. Len(s) - 1
          PROVE  priority[s[j]] <= priority[s[j + 1]]
      BY <1>1, <1>4, <2>1, <2>2
    <2>4. m - 1 \in starts
      BY <1>1, <2>1, <2>3
    <2> QED BY <1>4, <2>1, <2>4
  <1> DEFINE Ends(i) == flat(i) /\ (i > 1 => priority[s[i - 1]] > priority[s[i]])
  <1>6. m \in DOMAIN s /\ Ends(m)
    BY <1>4, <1>5
  <1>7. Lowest(s) = CHOOSE i \in DOMAIN s : Ends(i)
    BY DEF Lowest
  <1> HIDE DEF Ends
  <1>8. Lowest(s) \in DOMAIN s /\ Ends(Lowest(s))
    BY <1>6, <1>7
  <1> QED BY <1>1, <1>8 DEF Ends

LEMMA RemoveLowestShrinks ==
    ASSUME NEW s \in Seq(Items), s # <<>>
    PROVE  /\ RemoveAt(s, Lowest(s)) \in Seq(Items)
           /\ Len(RemoveAt(s, Lowest(s))) = Len(s) - 1
  <1> DEFINE i == Lowest(s)
  <1>1. i \in 1 .. Len(s)
    BY LowestIs
  <1> HIDE DEF i
  <1>2. RemoveAt(s, i) \in Seq(Items)
    BY <1>1, RemoveAtIs
  <1>3. Len(RemoveAt(s, i)) = Len(s) - 1
    BY <1>1, RemoveAtIs
  <1> QED BY <1>2, <1>3 DEF i

(* Taking from the low end removes one such element after the other. *)
LEMMA WithoutLowestSteps ==
    ASSUME NEW s \in Seq(Items), NEW n \in Nat, n <= Len(s)
    PROVE  \E g \in [0 .. n -> Seq(Items)] :
              /\ g[0] = s
              /\ \A k \in 1 .. n : /\ g[k] = RemoveAt(g[k - 1], Lowest(g[k - 1]))
                                   /\ g[k - 1] # <<>>
              /\ \A k \in 0 .. n : Len(g[k]) = Len(s) - k
              /\ WithoutLowest(s, n) = g[n]
  <1> DEFINE next(t) == IF t = <<>> THEN t ELSE RemoveAt(t, Lowest(t))
             F == [p \in Seq(Items) \X (1 .. n) |-> next(p[1])]
             Shrunk(g) == g = [k \in 0 .. n |->
                                IF k = 0 THEN s ELSE RemoveAt(g[k - 1], Lowest(g[k - 1]))]
             shrunk == CHOOSE g : Shrunk(g)
  <1>1. F \in [Seq(Items) \X (1 .. n) -> Seq(Items)]
    <2>1. ASSUME NEW t \in Seq(Items) PROVE next(t) \in Seq(Items)
      BY RemoveLowestShrinks
    <2> QED BY <2>1
  <1>2. PICK g \in [0 .. n -> Seq(Items)] : Iterates(g, n, s, F)
    <2> HIDE DEF F
    <2> QED BY <1>1, Iteration
  <1>3. \A k \in 1 .. n : g[k] = next(g[k - 1])
    <2>1. ASSUME NEW k \in 1 .. n PROVE F[<<g[k - 1], k>>] = next(g[k - 1])
      <3>1. g[k - 1] \in Seq(Items)
        OBVIOUS
      <3> HIDE DEF next
      <3> QED BY <3>1
    <2> QED BY <1>2, <2>1 DEF Iterates
  <1>4. g[0] = s
    BY <1>2 DEF Iterates
  <1> HIDE DEF F
  <1>5. \A k \in 0 .. n : Len(g[k]) = Len(s) - k
    <2> DEFINE Right == {k \in 0 .. n : Len(g[k]) = Len(s) - k}
    <2>1. 0 \in Right
      BY <1>4
    <2>2. ASSUME NEW k \in 1 .. n, k - 1 \in Right PROVE k \in Right
      <3>1. g[k - 1] \in Seq(Items) /\ Len(g[k - 1]) = Len(s) - (k - 1)
        BY <2>2
      <3>2. g[k - 1] # <<>>
        BY <3>1
      <3>3. Len(g[k]) = Len(g[k - 1]) - 1
        BY <1>3, <3>1, <3>2, RemoveLowestShrinks
      <3> QED BY <3>1, <3>3
    <2> HIDE DEF Right
    <2>3. 0 .. n \subseteq Right
      BY <2>1, <2>2, InductionUpTo
    <2> QED BY <2>3 DEF Right
  <1>6. \A k \in 1 .. n : /\ g[k] = RemoveAt(g[k - 1], Lowest(g[k - 1]))
                          /\ g[k - 1] # <<>>
    <2> SUFFICES ASSUME NEW k \in 1 .. n PROVE g[k - 1] # <<>>
      BY <1>3
    <2>1. k - 1 \in 0 .. n /\ k - 1 < Len(s) /\ Len(s) \in Nat
      OBVIOUS
    <2>2. Len(g[k - 1]) = Len(s) - (k - 1)
      BY <1>5, <2>1
    <2>3. Len(g[k - 1]) # 0
      BY <2>1, <2>2
    <2> QED BY <2>3
  <1> HIDE DEF next
  <1>7. Shrunk(g)
    BY <1>4, <1>6
  <1> HIDE DEF Shrunk
  <1>8. Shrunk(shrunk)
    BY <1>7
  <1>9. WithoutLowest(s, n) = shrunk[n]
    BY DEF WithoutLowest, Shrunk
  <1> HIDE DEF shrunk
  <1>10. \A k \in 0 .. n : shrunk[k] = g[k]
    <2> DEFINE Same == {k \in 0 .. n : shrunk[k] = g[k]}
    <2>1. 0 \in Same
      BY <1>4, <1>8 DEF Shrunk
    <2>2. ASSUME NEW k \in 1 .. n, k - 1 \in Same PROVE k \in Same
      BY <1>6, <1>8, <2>2 DEF Shrunk
    <2> HIDE DEF Same
    <2>3. 0 .. n \subseteq Same
      BY <2>1, <2>2, InductionUpTo
    <2> QED BY <2>3 DEF Same
  <1>11. WithoutLowest(s, n) = g[n]
    BY <1>9, <1>10
  <1> QED BY <1>4, <1>5, <1>6, <1>11

LEMMA WithoutLowestShrinks ==
    ASSUME NEW s \in Seq(Items), NEW n \in Nat, n <= Len(s)
    PROVE  /\ WithoutLowest(s, n) \in Seq(Items)
           /\ Len(WithoutLowest(s, n)) = Len(s) - n
  <1>1. PICK g \in [0 .. n -> Seq(Items)] :
              /\ \A k \in 0 .. n : Len(g[k]) = Len(s) - k
              /\ WithoutLowest(s, n) = g[n]
    BY WithoutLowestSteps
  <1>2. n \in 0 .. n
    OBVIOUS
  <1> QED BY <1>1, <1>2

-----------------------------------------------------------------------------
(* What is kept of a sequence, element by element. *)
LEMMA KeptSteps ==
    ASSUME NEW s \in Seq(Items), NEW S
    PROVE  \E g \in [0 .. Len(s) -> Seq(Items)] :
              /\ g[0] = <<>>
              /\ \A k \in 1 .. Len(s) :
                   g[k] = IF s[k] \in S THEN Append(g[k - 1], s[k]) ELSE g[k - 1]
              /\ Kept(s, S) = g[Len(s)]
  <1> DEFINE n == Len(s)
             next(t, k) == IF s[k] \in S THEN Append(t, s[k]) ELSE t
             F == [p \in Seq(Items) \X (1 .. n) |-> next(p[1], p[2])]
             Chain(g) == g = [k \in 0 .. n |-> IF k = 0 THEN <<>> ELSE next(g[k - 1], k)]
             kept == CHOOSE g : Chain(g)
  <1>1. n \in Nat /\ \A k \in 1 .. n : s[k] \in Items
    OBVIOUS
  <1>2. Kept(s, S) = kept[n]
    BY DEF Kept
  <1> HIDE DEF n
  <1>3. F \in [Seq(Items) \X (1 .. n) -> Seq(Items)]
    <2>1. ASSUME NEW p \in Seq(Items) \X (1 .. n) PROVE next(p[1], p[2]) \in Seq(Items)
      <3>1. p[1] \in Seq(Items) /\ s[p[2]] \in Items
        BY <1>1
      <3> QED BY <3>1
    <2> HIDE DEF next
    <2> QED BY <2>1
  <1>4. PICK g \in [0 .. n -> Seq(Items)] : Iterates(g, n, <<>>, F)
    <2> HIDE DEF F
    <2>1. <<>> \in Seq(Items)
      OBVIOUS
    <2> QED BY <1>1, <1>3, <2>1, Iteration
  <1>5. \A k \in 1 .. n : g[k] = next(g[k - 1], k)
    <2>1. ASSUME NEW k \in 1 .. n PROVE F[<<g[k - 1], k>>] = next(g[k - 1], k)
      <3>1. g[k - 1] \in Seq(Items)
        BY <1>1
      <3> HIDE DEF next
      <3> QED BY <3>1
    <2> QED BY <1>4, <2>1 DEF Iterates
  <1>6. g[0] = <<>>
    BY <1>4 DEF Iterates
  <1> HIDE DEF F, next
  <1>7. Chain(g)
    BY <1>5, <1>6
  <1> HIDE DEF Chain
  <1>8. Chain(kept)
    BY <1>7
  <1> HIDE DEF kept
  <1>9. \A k \in 0 .. n : kept[k] = g[k]
    <2> DEFINE Same == {k \in 0 .. n : kept[k] = g[k]}
    <2>1. 0 \in Same
      BY <1>1, <1>6, <1>8 DEF Chain
    <2>2. ASSUME NEW k \in 1 .. n, k - 1 \in Same PROVE k \in Same
      BY <1>1, <1>5, <1>8, <2>2 DEF Chain
    <2> HIDE DEF Same
    <2>3. 0 .. n \subseteq Same
      BY <1>1, <2>1, <2>2, InductionUpTo
    <2> QED BY <2>3 DEF Same
  <1>10. Kept(s, S) = g[n]
    BY <1>1, <1>2, <1>9
  <1>11. \A k \in 1 .. n :
            g[k] = IF s[k] \in S THEN Append(g[k - 1], s[k]) ELSE g[k - 1]
    BY <1>5 DEF next
  <1> QED BY <1>6, <1>10, <1>11 DEF n

(* It is what is in the set, in the same order. *)
LEMMA KeptIs ==
    ASSUME NEW s \in Seq(Items), NEW S
    PROVE  /\ Kept(s, S) \in Seq(Items)
           /\ Elements(Kept(s, S)) = Elements(s) \cap S
           /\ InOrder(Kept(s, S), s)
  <1> DEFINE n == Len(s)
             upTo(k) == {s[j] : j \in 1 .. k}
             Ordered(d) == \A i, j \in DOMAIN d : i < j => Before(s, d[i], d[j])
  <1>1. n \in Nat /\ DOMAIN s = 1 .. n /\ \A k \in 1 .. n : s[k] \in Items
    OBVIOUS
  <1>2. PICK g \in [0 .. n -> Seq(Items)] :
              /\ g[0] = <<>>
              /\ \A k \in 1 .. n :
                   g[k] = IF s[k] \in S THEN Append(g[k - 1], s[k]) ELSE g[k - 1]
              /\ Kept(s, S) = g[n]
    BY KeptSteps
  <1> HIDE DEF n
  <1> DEFINE Right == {k \in 0 .. n : Elements(g[k]) = upTo(k) \cap S /\ Ordered(g[k])}
  <1>3. 0 \in Right
    <2>1. Elements(g[0]) = {} /\ Ordered(g[0])
      BY <1>2 DEF Elements
    <2>2. upTo(0) = {}
      OBVIOUS
    <2> HIDE DEF upTo, Ordered
    <2> QED BY <1>1, <2>1, <2>2
  <1>4. ASSUME NEW k \in 1 .. n, k - 1 \in Right PROVE k \in Right
    <2> DEFINE d == g[k - 1]
               e == g[k]
    <2>1. d \in Seq(Items) /\ Elements(d) = upTo(k - 1) \cap S /\ Ordered(d)
      BY <1>1, <1>4
    <2>2. upTo(k) = upTo(k - 1) \cup {s[k]}
      <3>1. 1 .. k = (1 .. k - 1) \cup {k}
        BY <1>1
      <3> QED BY <3>1
    <2>3. e = IF s[k] \in S THEN Append(d, s[k]) ELSE d
      BY <1>2
    <2>4. \A x \in upTo(k - 1) : Before(s, x, s[k])
      <3> SUFFICES ASSUME NEW j \in 1 .. k - 1 PROVE Before(s, s[j], s[k])
        OBVIOUS
      <3>1. j \in DOMAIN s /\ k \in DOMAIN s /\ j < k
        BY <1>1
      <3> QED BY <3>1 DEF Before
    <2> HIDE DEF d, e, upTo
    <2>5. CASE s[k] \notin S
      <3>1. e = d /\ upTo(k) \cap S = upTo(k - 1) \cap S
        BY <2>2, <2>3, <2>5
      <3> HIDE DEF Ordered
      <3>2. Elements(e) = upTo(k) \cap S /\ Ordered(e)
        BY <2>1, <3>1
      <3> QED BY <3>2 DEF e
    <2>6. CASE s[k] \in S
      <3>1. e = Append(d, s[k])
        BY <2>3, <2>6
      <3>2. /\ DOMAIN d = 1 .. Len(d) /\ DOMAIN e = 1 .. Len(d) + 1 /\ Len(d) \in Nat
            /\ \A i \in 1 .. Len(d) + 1 : e[i] = IF i = Len(d) + 1 THEN s[k] ELSE d[i]
        BY <1>1, <2>1, <3>1
      <3>3. Elements(e) = Elements(d) \cup {s[k]}
        <4>1. e[Len(d) + 1] = s[k] /\ Len(d) + 1 \in DOMAIN e
          BY <3>2
        <4>2. \A i \in DOMAIN d : i \in DOMAIN e /\ e[i] = d[i]
          BY <3>2
        <4>3. \A i \in DOMAIN e : i = Len(d) + 1 \/ i \in DOMAIN d
          BY <3>2
        <4> QED BY <4>1, <4>2, <4>3 DEF Elements
      <3>4. Elements(e) = upTo(k) \cap S
        BY <2>1, <2>2, <2>6, <3>3
      <3>5. ASSUME NEW i \in DOMAIN e, NEW j \in DOMAIN e, i < j
            PROVE  Before(s, e[i], e[j])
        <4>1. CASE j \in DOMAIN d
          BY <2>1, <3>2, <3>5, <4>1
        <4>2. CASE j \notin DOMAIN d
          <5>1. e[j] = s[k] /\ i \in DOMAIN d /\ e[i] = d[i]
            BY <3>2, <3>5, <4>2
          <5>2. d[i] \in upTo(k - 1)
            BY <2>1, <5>1 DEF Elements
          <5> QED BY <2>4, <5>1, <5>2
        <4> QED BY <4>1, <4>2
      <3>6. Elements(e) = upTo(k) \cap S /\ Ordered(e)
        BY <3>4, <3>5
      <3> HIDE DEF Ordered
      <3> QED BY <3>6 DEF e
    <2> QED BY <2>5, <2>6
  <1> HIDE DEF Right
  <1>5. 0 .. n \subseteq Right
    BY <1>1, <1>3, <1>4, InductionUpTo
  <1>6. n \in Right
    BY <1>1, <1>5
  <1>7. Elements(g[n]) = upTo(n) \cap S /\ Ordered(g[n]) /\ g[n] \in Seq(Items)
    BY <1>1, <1>6 DEF Right
  <1>8. upTo(n) = Elements(s)
    BY <1>1 DEF Elements
  <1>9. InOrder(g[n], s)
    <2>1. \A i \in DOMAIN g[n] : g[n][i] \in Elements(g[n])
      BY DEF Elements
    <2> HIDE DEF upTo
    <2> QED BY <1>7, <1>8, <2>1 DEF InOrder
  <1> HIDE DEF Ordered, upTo
  <1> QED BY <1>2, <1>7, <1>8, <1>9

-----------------------------------------------------------------------------
(* The order in which the elements are handed out.                         *)
LEMMA KeptKeepsOrder ==
    ASSUME NEW a, IsItems(a), NEW S,
           NEW x \in Elements(a) \cap S, NEW y \in Elements(a) \cap S, Before(a, x, y)
    PROVE  Before(Kept(a, S), x, y)
  <1> DEFINE b == Kept(a, S)
  <1>1. b \in Seq(Items) /\ Elements(b) = Elements(a) \cap S /\ InOrder(b, a)
    BY KeptIs DEF IsItems
  <1> HIDE DEF b
  <1>2. IsItems(b)
    BY <1>1, InOrderIsItems
  <1>3. x # y /\ ~Before(a, y, x)
    BY BeforeIsStrict
  <1>4. Before(b, x, y) \/ Before(b, y, x)
    BY <1>1, <1>2, <1>3, BeforeIsTotal
  <1>5. ~Before(b, y, x)
    BY <1>1, <1>3, InOrderBefore
  <1> QED BY <1>4, <1>5 DEF b

(* What is left of sorted contents is sorted. *)
LEMMA SortedKept ==
    ASSUME NEW a, NEW c, Sorted(c, a), NEW d \in Seq(Items), InOrder(d, c)
    PROVE  Sorted(d, Kept(a, Elements(d)))
  <1> DEFINE b == Kept(a, Elements(d))
  <1>1. IsItems(a) /\ IsItems(c) /\ Elements(c) = Elements(a)
    BY DEF Sorted
  <1>2. IsItems(d) /\ Elements(d) \subseteq Elements(a)
    BY <1>1, InOrderIsItems
  <1>3. IsItems(b) /\ Elements(b) = Elements(d)
    <2>1. b \in Seq(Items) /\ Elements(b) = Elements(a) \cap Elements(d) /\ InOrder(b, a)
      BY <1>1, KeptIs DEF IsItems
    <2> HIDE DEF b
    <2> QED BY <1>1, <1>2, <2>1, InOrderIsItems
  <1>4. \A x, y \in Elements(d) : Before(a, x, y) => Before(b, x, y)
    BY <1>1, <1>2, KeptKeepsOrder
  <1> HIDE DEF b
  <1>5. \A x, y : Before(c, x, y) => First(a, x, y)
    BY DEF Sorted, Before
  <1>6. ASSUME NEW i \in DOMAIN d, NEW j \in DOMAIN d, i < j PROVE First(b, d[i], d[j])
    <2>1. First(a, d[i], d[j])
      BY <1>5, <1>6 DEF InOrder
    <2>2. d[i] \in Elements(d) /\ d[j] \in Elements(d)
      BY DEF Elements
    <2> QED BY <1>4, <2>1, <2>2 DEF First
  <1>7. Sorted(d, b)
    BY <1>2, <1>3, <1>6 DEF Sorted
  <1> QED BY <1>7 DEF b

LEMMA AppendKeeps ==
    ASSUME NEW a, IsItems(a), NEW x \in Items \ Elements(a)
    PROVE  /\ IsItems(Append(a, x)) /\ Elements(Append(a, x)) = Elements(a) \cup {x}
           /\ \A y, z \in Elements(a) : Before(a, y, z) => Before(Append(a, x), y, z)
           /\ \A y \in Elements(a) : Before(Append(a, x), y, x)
  <1> DEFINE b == Append(a, x)
  <1>1. a \in Seq(Items) /\ DOMAIN a = 1 .. Len(a) /\ Len(a) \in Nat
    BY DEF IsItems
  <1>2. /\ b \in Seq(Items) /\ DOMAIN b = 1 .. Len(a) + 1 /\ b[Len(a) + 1] = x
        /\ \A j \in 1 .. Len(a) : b[j] = a[j]
    BY <1>1
  <1> HIDE DEF b
  <1>3. \A j \in 1 .. Len(a) + 1 : j = Len(a) + 1 \/ j \in 1 .. Len(a)
    BY <1>1
  <1>4. \A j \in 1 .. Len(a) : a[j] # x
    BY <1>1 DEF Elements
  <1>5. IsInjective(b)
    BY <1>1, <1>2, <1>3, <1>4 DEF IsItems, IsInjective
  <1>6. Elements(b) = Elements(a) \cup {x}
    <2>1. Len(a) + 1 \in DOMAIN b /\ \A j \in DOMAIN a : j \in DOMAIN b
      BY <1>1, <1>2
    <2> QED BY <1>1, <1>2, <1>3, <2>1 DEF Elements
  <1>7. \A y, z : Before(a, y, z) => Before(b, y, z)
    <2>1. \A j \in DOMAIN a : j \in DOMAIN b /\ b[j] = a[j]
      BY <1>1, <1>2
    <2> QED BY <2>1 DEF Before
  <1>8. ASSUME NEW y \in Elements(a) PROVE Before(b, y, x)
    <2>1. PICK j \in 1 .. Len(a) : a[j] = y
      BY <1>1 DEF Elements
    <2>2. j \in DOMAIN b /\ Len(a) + 1 \in DOMAIN b /\ j < Len(a) + 1
          /\ b[j] = y /\ b[Len(a) + 1] = x
      BY <1>1, <1>2, <2>1
    <2> QED BY <2>2 DEF Before
  <1>9. IsItems(b) /\ Elements(b) = Elements(a) \cup {x}
    BY <1>2, <1>5, <1>6 DEF IsItems
  <1> QED BY <1>7, <1>8, <1>9 DEF b

(* Adding an element at its place keeps the contents sorted. *)
LEMMA SortedPushBack ==
    ASSUME NEW a, NEW c, Sorted(c, a), Kind # "stack", NEW x \in Items \ Elements(c)
    PROVE  Sorted(PushBack(c, x), Append(a, x))
  <1> DEFINE b == Append(a, x)
  <1>1. IsItems(a) /\ IsItems(c) /\ Elements(c) = Elements(a) /\ c \in Seq(Items)
    BY DEF Sorted, IsItems
  <1>2. /\ IsItems(b) /\ Elements(b) = Elements(a) \cup {x}
        /\ \A y, z \in Elements(a) : Before(a, y, z) => Before(b, y, z)
        /\ \A y \in Elements(a) : Before(b, y, x)
    BY <1>1, AppendKeeps
  <1> HIDE DEF b
  <1>3. PICK i \in 1 .. Len(c) + 1 :
              /\ PushBack(c, x) = InsertAt(c, i, x)
              /\ Kind # "priority" => i = Len(c) + 1
              /\ Kind = "priority" => /\ i > 1 => priority[c[i - 1]] >= priority[x]
                                      /\ \A j \in i .. Len(c) : priority[c[j]] < priority[x]
    BY <1>1, PushBackIs
  <1> DEFINE d == InsertAt(c, i, x)
  <1>4. /\ IsItems(d) /\ Elements(d) = Elements(c) \cup {x}
        /\ \A j \in 1 .. Len(c) + 1 :
             d[j] = IF j < i THEN c[j] ELSE IF j = i THEN x ELSE c[j - 1]
    <2>1. IsItems(d)
      BY <1>1, InsertAtKeeps
    <2>2. Elements(d) = Elements(c) \cup {x}
      BY <1>1, InsertAtKeeps
    <2>3. \A j \in 1 .. Len(c) + 1 :
             d[j] = IF j < i THEN c[j] ELSE IF j = i THEN x ELSE c[j - 1]
      BY <1>1, InsertAtKeeps
    <2> QED BY <2>1, <2>2, <2>3
  <1>5. DOMAIN d = 1 .. Len(c) + 1
    <2>1. d \in Seq(Items) /\ Len(d) = Len(c) + 1
      BY <1>1, <1>3, PushBackGrows
    <2> HIDE DEF d
    <2> QED BY <2>1
  <1> HIDE DEF d
  <1>6. Len(c) \in Nat /\ DOMAIN c = 1 .. Len(c) /\ \A j \in 1 .. Len(c) : c[j] \in Items
    BY <1>1
  <1>7. \A y \in Items : priority[y] \in Nat
    BY ContainersAssumption
  <1>8. \A j, k \in 1 .. Len(c) : j < k => First(b, c[j], c[k])
    <2> SUFFICES ASSUME NEW j \in 1 .. Len(c), NEW k \in 1 .. Len(c), j < k
                 PROVE  First(b, c[j], c[k])
      OBVIOUS
    <2>1. First(a, c[j], c[k])
      BY <1>6 DEF Sorted
    <2>2. c[j] \in Elements(a) /\ c[k] \in Elements(a)
      BY <1>1, <1>6 DEF Elements
    <2> QED BY <1>2, <2>1, <2>2 DEF First
  <1>9. ASSUME NEW j \in 1 .. Len(c), j < i PROVE First(b, c[j], x)
    <2>1. Before(b, c[j], x)
      BY <1>1, <1>2, <1>6 DEF Elements
    <2>2. CASE Kind = "priority"
      <3>1. i - 1 \in 1 .. Len(c) /\ priority[c[i - 1]] >= priority[x]
        BY <1>3, <1>6, <1>9, <2>2
      <3>2. priority[c[j]] >= priority[c[i - 1]]
        <4>1. CASE j = i - 1
          BY <1>6, <1>7, <4>1
        <4>2. CASE j # i - 1
          <5>1. j < i - 1
            BY <1>6, <1>9, <4>2
          <5>2. First(b, c[j], c[i - 1])
            BY <1>8, <3>1, <5>1
          <5>3. priority[c[j]] \in Nat /\ priority[c[i - 1]] \in Nat
            BY <1>6, <1>7, <3>1
          <5> QED BY <2>2, <5>2, <5>3 DEF First
        <4> QED BY <4>1, <4>2
      <3>3. priority[c[j]] \in Nat /\ priority[c[i - 1]] \in Nat /\ priority[x] \in Nat
        BY <1>6, <1>7, <3>1
      <3>4. priority[c[j]] > priority[x] \/ priority[c[j]] = priority[x]
        BY <3>1, <3>2, <3>3
      <3> QED BY <2>1, <2>2, <3>4 DEF First
    <2>3. CASE Kind # "priority"
      BY <2>1, <2>3 DEF First
    <2> QED BY <2>2, <2>3
  <1>10. ASSUME NEW k \in 1 .. Len(c), i <= k PROVE First(b, x, c[k])
    <2>1. Kind = "priority"
      BY <1>3, <1>6, <1>10
    <2>2. priority[c[k]] < priority[x] /\ priority[c[k]] \in Nat /\ priority[x] \in Nat
      BY <1>3, <1>6, <1>7, <1>10, <2>1
    <2> QED BY <2>1, <2>2 DEF First
  <1>11. ASSUME NEW j \in 1 .. Len(c) + 1, NEW k \in 1 .. Len(c) + 1, j < k
         PROVE  First(b, d[j], d[k])
    <2>1. CASE k < i
      <3>1. d[j] = c[j] /\ d[k] = c[k] /\ j \in 1 .. Len(c) /\ k \in 1 .. Len(c)
        BY <1>4, <1>6, <1>11, <2>1
      <3> QED BY <1>8, <1>11, <3>1
    <2>2. CASE k = i
      <3>1. d[j] = c[j] /\ d[k] = x /\ j \in 1 .. Len(c) /\ j < i
        BY <1>4, <1>6, <1>11, <2>2
      <3> QED BY <1>9, <3>1
    <2>3. CASE k > i
      <3>1. d[k] = c[k - 1] /\ k - 1 \in 1 .. Len(c) /\ i <= k - 1
        BY <1>4, <1>6, <2>3
      <3>2. CASE j < i
        <4>1. d[j] = c[j] /\ j \in 1 .. Len(c) /\ j < k - 1
          BY <1>4, <1>6, <3>1, <3>2
        <4> QED BY <1>8, <3>1, <4>1
      <3>3. CASE j = i
        <4>1. d[j] = x
          BY <1>4, <3>3
        <4> QED BY <1>10, <3>1, <4>1
      <3>4. CASE j > i
        <4>1. d[j] = c[j - 1] /\ j - 1 \in 1 .. Len(c) /\ j - 1 < k - 1
          BY <1>4, <1>6, <1>11, <3>4
        <4> QED BY <1>8, <3>1, <4>1
      <3> QED BY <3>2, <3>3, <3>4
    <2> QED BY <2>1, <2>2, <2>3
  <1>12. Sorted(d, b)
    BY <1>1, <1>2, <1>4, <1>5, <1>11 DEF Sorted
  <1> QED BY <1>3, <1>12 DEF b, d

LEMMA ConcatAppend ==
    ASSUME NEW s \in Seq(Items), NEW t \in Seq(Items), NEW x \in Items
    PROVE  s \o Append(t, x) = Append(s \o t, x)
  <1> DEFINE u == s \o Append(t, x)
             v == Append(s \o t, x)
             m == Len(s)
             n == Len(t)
  <1>1. m \in Nat /\ n \in Nat
    OBVIOUS
  <1>2. /\ u \in Seq(Items) /\ Len(u) = m + (n + 1)
        /\ \A i \in 1 .. m + (n + 1) : u[i] = IF i <= m THEN s[i] ELSE Append(t, x)[i - m]
    OBVIOUS
  <1>3. /\ v \in Seq(Items) /\ Len(v) = (m + n) + 1
        /\ \A i \in 1 .. (m + n) + 1 : v[i] = IF i <= m + n THEN (s \o t)[i] ELSE x
    OBVIOUS
  <1>4. \A i \in 1 .. n + 1 : Append(t, x)[i] = IF i <= n THEN t[i] ELSE x
    OBVIOUS
  <1>5. \A i \in 1 .. m + n : (s \o t)[i] = IF i <= m THEN s[i] ELSE t[i - m]
    OBVIOUS
  <1> HIDE DEF u, v, m, n
  <1>6. ASSUME NEW i \in 1 .. m + (n + 1) PROVE u[i] = v[i]
    <2>1. CASE i <= m
      <3>1. i \in 1 .. m + n /\ i \in 1 .. (m + n) + 1 /\ i <= m + n
        BY <1>1, <2>1
      <3> QED BY <1>2, <1>3, <1>5, <2>1, <3>1
    <2>2. CASE ~(i <= m)
      <3>1. i - m \in 1 .. n + 1 /\ i \in 1 .. (m + n) + 1
        BY <1>1, <2>2
      <3>2. u[i] = IF i - m <= n THEN t[i - m] ELSE x
        BY <1>2, <1>4, <2>2, <3>1
      <3>3. CASE i - m <= n
        <4>1. i \in 1 .. m + n /\ i <= m + n
          BY <1>1, <3>3
        <4> QED BY <1>3, <1>5, <2>2, <3>1, <3>2, <3>3, <4>1
      <3>4. CASE ~(i - m <= n)
        <4>1. ~(i <= m + n)
          BY <1>1, <3>4
        <4> QED BY <1>3, <3>1, <3>2, <3>4, <4>1
      <3> QED BY <3>3, <3>4
    <2> QED BY <2>1, <2>2
  <1>7. Len(u) = Len(v) /\ Len(u) = m + (n + 1)
    BY <1>1, <1>2, <1>3
  <1>8. u = v
    BY <1>2, <1>3, <1>6, <1>7, SeqEqual
  <1> QED BY <1>8 DEF u, v

(* The same for the elements of a bulk call, which are new and differ. *)
LEMMA SortedPushAll ==
    ASSUME NEW a, NEW c, Sorted(c, a), Kind # "stack",
           NEW n \in Nat, NEW xs \in [1 .. n -> Items \ Elements(c)], IsInjective(xs)
    PROVE  Sorted(PushAll(c, xs), a \o xs)
  <1>1. a \in Seq(Items) /\ c \in Seq(Items) /\ xs \in [1 .. n -> Items]
    BY DEF Sorted, IsItems
  <1>2. PICK g \in [0 .. n -> Seq(Items)] :
              /\ g[0] = c
              /\ \A k \in 1 .. n : g[k] = PushBack(g[k - 1], xs[k])
              /\ PushAll(c, xs) = g[n]
    BY <1>1, PushAllSteps
  <1> DEFINE upTo(k) == [j \in 1 .. k |-> xs[j]]
             b(k) == a \o upTo(k)
             new(k) == {xs[j] : j \in 1 .. k}
             Right == {k \in 0 .. n : Sorted(g[k], b(k)) /\ Elements(g[k]) = Elements(c) \cup new(k)}
  <1>3. 0 \in Right
    <2>1. upTo(0) = <<>> /\ new(0) = {}
      OBVIOUS
    <2>2. b(0) = a
      BY <1>1, <2>1
    <2> HIDE DEF upTo, b, new
    <2> QED BY <1>2, <2>1, <2>2
  <1>4. ASSUME NEW k \in 1 .. n, k - 1 \in Right PROVE k \in Right
    <2>1. Sorted(g[k - 1], b(k - 1)) /\ Elements(g[k - 1]) = Elements(c) \cup new(k - 1)
      BY <1>4
    <2>2. xs[k] \in Items \ Elements(g[k - 1])
      <3>1. \A j \in 1 .. k - 1 : xs[j] # xs[k]
        BY DEF IsInjective
      <3>2. xs[k] \notin new(k - 1) /\ xs[k] \in Items \ Elements(c)
        BY <3>1
      <3> HIDE DEF new
      <3> QED BY <2>1, <3>2
    <2>3. b(k) = Append(b(k - 1), xs[k])
      <3>1. /\ upTo(k - 1) \in Seq(Items) /\ Len(upTo(k - 1)) = k - 1
            /\ upTo(k) \in Seq(Items) /\ Len(upTo(k)) = k /\ xs[k] \in Items
        BY <1>1
      <3>2. upTo(k) = Append(upTo(k - 1), xs[k])
        BY <3>1
      <3> HIDE DEF upTo
      <3>3. a \o Append(upTo(k - 1), xs[k]) = Append(a \o upTo(k - 1), xs[k])
        BY <1>1, <3>1, ConcatAppend
      <3> QED BY <3>2, <3>3
    <2>4. new(k) = new(k - 1) \cup {xs[k]}
      <3>1. 1 .. k = (1 .. k - 1) \cup {k}
        OBVIOUS
      <3> QED BY <3>1
    <2>5. g[k] = PushBack(g[k - 1], xs[k])
      BY <1>2
    <2> HIDE DEF b, new
    <2>6. Sorted(g[k], b(k))
      BY <2>1, <2>2, <2>3, <2>5, SortedPushBack
    <2>7. Elements(g[k]) = Elements(g[k - 1]) \cup {xs[k]}
      <3>1. Elements(b(k)) = Elements(b(k - 1)) \cup {xs[k]}
        BY <2>1, <2>2, <2>3, AppendKeeps DEF Sorted
      <3> QED BY <2>1, <2>6, <3>1 DEF Sorted
    <2> QED BY <2>1, <2>4, <2>6, <2>7
  <1> HIDE DEF Right
  <1>5. 0 .. n \subseteq Right
    BY <1>3, <1>4, InductionUpTo
  <1>6. n \in 0 .. n /\ upTo(n) = xs
    OBVIOUS
  <1>7. Sorted(g[n], b(n))
    BY <1>5, <1>6 DEF Right
  <1> QED BY <1>2, <1>6, <1>7

(* Taking from the high end takes those that are handed out first. *)
LEMMA FirstAreTaken ==
    ASSUME NEW a, NEW c, Sorted(c, a), Kind # "stack", NEW n \in Nat, n <= Len(c)
    PROVE  /\ InOrder(WithoutFirst(c, n), c)
           /\ \A x \in Elements(c) \ Elements(WithoutFirst(c, n)),
                  y \in Elements(WithoutFirst(c, n)) : First(a, x, y)
  <1> DEFINE d == WithoutFirst(c, n)
  <1>1. c \in Seq(Items) /\ DOMAIN c = 1 .. Len(c) /\ Len(c) \in Nat
    BY DEF Sorted, IsItems
  <1>2. /\ d \in Seq(Items) /\ Len(d) = Len(c) - n
        /\ \A j \in 1 .. Len(c) - n : d[j] = c[n + j]
    <2>1. n \in 0 .. Len(c)
      BY <1>1
    <2> QED BY <1>1, <2>1, WithoutFirstIs
  <1> HIDE DEF d
  <1>3. DOMAIN d = 1 .. Len(c) - n
    BY <1>2
  <1>4. ASSUME NEW j \in DOMAIN d PROVE n + j \in DOMAIN c /\ d[j] = c[n + j]
    BY <1>1, <1>2, <1>3
  <1>5. InOrder(d, c)
    <2>1. \A j \in DOMAIN d : d[j] \in Elements(c)
      BY <1>4 DEF Elements
    <2>2. ASSUME NEW j \in DOMAIN d, NEW k \in DOMAIN d, j < k
          PROVE  Before(c, d[j], d[k])
      <3>1. n + j < n + k
        BY <1>3, <2>2
      <3> QED BY <1>4, <3>1 DEF Before
    <2> QED BY <2>1, <2>2 DEF InOrder
  <1>6. ASSUME NEW x \in Elements(c) \ Elements(d), NEW y \in Elements(d)
        PROVE  First(a, x, y)
    <2>1. PICK i \in DOMAIN c : c[i] = x
      BY DEF Elements
    <2>2. PICK j \in DOMAIN d : d[j] = y
      BY DEF Elements
    <2>3. i <= n
      <3> SUFFICES ASSUME i > n PROVE FALSE
        BY <1>1
      <3>1. i - n \in DOMAIN d /\ n + (i - n) = i
        BY <1>1, <1>3
      <3>2. d[i - n] = x
        BY <1>4, <2>1, <3>1
      <3> QED BY <3>1, <3>2 DEF Elements
    <2>4. n + j \in DOMAIN c /\ c[n + j] = y /\ i < n + j
      BY <1>1, <1>3, <1>4, <2>2, <2>3
    <2> QED BY <2>1, <2>4 DEF Sorted
  <1> QED BY <1>5, <1>6 DEF d

(* The element at which the walk of try_take_prio ends is the first from   *)
(* below: of the lowest priority, and the oldest of these.                 *)
LEMMA LowestIsFirstFromBelow ==
    ASSUME NEW a, NEW c \in Seq(Items), c # <<>>, Kind = "priority",
           \A i, j \in DOMAIN c : i < j => First(a, c[i], c[j])
    PROVE  \A j \in DOMAIN c : j # Lowest(c) => FirstFromBelow(a, c[Lowest(c)], c[j])
  <1> DEFINE m == Lowest(c)
             p(j) == priority[c[j]]
  <1>1. /\ m \in 1 .. Len(c)
        /\ \A j \in m .. Len(c) - 1 : p(j) <= p(j + 1)
        /\ m > 1 => p(m - 1) > p(m)
    BY LowestIs
  <1>2. Len(c) \in Nat /\ DOMAIN c = 1 .. Len(c) /\ \A j \in 1 .. Len(c) : p(j) \in Nat
    BY ContainersAssumption
  <1>3. \A i, j \in 1 .. Len(c) : i < j => p(i) >= p(j) /\ (p(i) = p(j) => Before(a, c[i], c[j]))
    <2>1. ASSUME NEW i \in 1 .. Len(c), NEW j \in 1 .. Len(c), i < j
          PROVE  p(i) > p(j) \/ (p(i) = p(j) /\ Before(a, c[i], c[j]))
      BY <1>2, <2>1 DEF First
    <2> HIDE DEF p
    <2> QED BY <1>2, <2>1
  <1> HIDE DEF m, p
  <1>4. ASSUME NEW j \in 1 .. Len(c), j > m PROVE p(m) = p(j) /\ Before(a, c[m], c[j])
    <2> DEFINE below == {k \in 1 .. Len(c) : k > m /\ p(k) < p(m)}
    <2>1. below = {}
      <3> SUFFICES ASSUME below # {} PROVE FALSE
        OBVIOUS
      <3>1. below \in SUBSET Nat
        BY <1>2
      <3> HIDE DEF below
      <3>2. PICK k \in below : \A i \in below : k <= i
        BY <3>1, LeastNumber
      <3>3. k \in 1 .. Len(c) /\ k > m /\ p(k) < p(m)
        BY <3>2 DEF below
      <3>4. k - 1 \in m .. Len(c) - 1 /\ k - 1 \in 1 .. Len(c) /\ (k - 1) + 1 = k /\ ~(k <= k - 1)
        BY <1>1, <1>2, <3>3
      <3>5. p(k - 1) <= p(k)
        BY <1>1, <3>4
      <3>6. p(k - 1) < p(m)
        BY <1>1, <1>2, <3>3, <3>4, <3>5
      <3>7. k - 1 # m
        BY <1>1, <1>2, <3>6
      <3>8. k - 1 \in below
        BY <1>1, <3>4, <3>6, <3>7 DEF below
      <3> QED BY <3>2, <3>4, <3>8
    <2>2. ~(p(j) < p(m)) /\ p(m) >= p(j)
      BY <1>1, <1>3, <1>4, <2>1
    <2>3. p(m) = p(j)
      BY <1>1, <1>2, <2>2
    <2> QED BY <1>1, <1>3, <1>4, <2>3
  <1>5. ASSUME NEW j \in 1 .. Len(c), j < m PROVE p(m) < p(j)
    <2>1. m - 1 \in 1 .. Len(c) /\ p(m - 1) > p(m)
      BY <1>1, <1>2, <1>5
    <2>2. CASE j = m - 1
      BY <1>1, <1>2, <2>1, <2>2
    <2>3. CASE j # m - 1
      <3>1. j < m - 1
        BY <1>1, <1>5, <2>3
      <3>2. p(j) >= p(m - 1)
        BY <1>3, <2>1, <3>1
      <3> QED BY <1>1, <1>2, <2>1, <3>2
    <2> QED BY <2>2, <2>3
  <1>6. ASSUME NEW j \in 1 .. Len(c), j # m
        PROVE  p(m) < p(j) \/ (p(m) = p(j) /\ Before(a, c[m], c[j]))
    BY <1>1, <1>4, <1>5, <1>6
  <1> QED BY <1>2, <1>6 DEF FirstFromBelow, p, m

(* Taking from the low end takes those that come first from below. *)
LEMMA LowestAreTaken ==
    ASSUME NEW a, NEW c, Sorted(c, a), Kind = "priority", NEW n \in Nat, n <= Len(c)
    PROVE  /\ InOrder(WithoutLowest(c, n), c)
           /\ \A x \in Elements(c) \ Elements(WithoutLowest(c, n)),
                  y \in Elements(WithoutLowest(c, n)) : FirstFromBelow(a, x, y)
  <1>1. c \in Seq(Items) /\ IsItems(c)
    BY DEF Sorted, IsItems
  <1>2. PICK g \in [0 .. n -> Seq(Items)] :
              /\ g[0] = c
              /\ \A k \in 1 .. n : /\ g[k] = RemoveAt(g[k - 1], Lowest(g[k - 1]))
                                   /\ g[k - 1] # <<>>
              /\ WithoutLowest(c, n) = g[n]
    BY <1>1, WithoutLowestSteps
  <1> DEFINE Apart(d) == \A x \in Elements(c) \ Elements(d), y \in Elements(d) :
                            FirstFromBelow(a, x, y)
             Right == {k \in 0 .. n : InOrder(g[k], c) /\ Apart(g[k])}
  <1>3. 0 \in Right
    <2>1. InOrder(c, c)
      BY DEF InOrder, Before, Elements
    <2> QED BY <1>2, <2>1
  <1>4. ASSUME NEW k \in 1 .. n, k - 1 \in Right PROVE k \in Right
    <2> DEFINE d == g[k - 1]
               e == g[k]
    <2>1. d \in Seq(Items) /\ InOrder(d, c) /\ Apart(d) /\ d # <<>>
      BY <1>2, <1>4
    <2>2. IsItems(d) /\ Elements(d) \subseteq Elements(c)
      BY <1>1, <2>1, InOrderIsItems
    <2>3. e = RemoveAt(d, Lowest(d))
      BY <1>2
    <2> HIDE DEF d, e, Apart
    <2> DEFINE m == Lowest(d)
    <2>4. m \in 1 .. Len(d)
      BY <2>1, LowestIs
    <2>5. \A i, j \in DOMAIN d : i < j => First(a, d[i], d[j])
      BY <2>1 DEF Sorted, InOrder, Before
    <2>6. \A j \in DOMAIN d : j # m => FirstFromBelow(a, d[m], d[j])
      BY <2>1, <2>5, LowestIsFirstFromBelow
    <2> HIDE DEF m
    <2>7. IsItems(e) /\ Elements(e) = Elements(d) \ {d[m]} /\ InOrder(e, d)
      <3>1. e = RemoveAt(d, m)
        BY <2>3 DEF m
      <3> QED BY <2>2, <2>4, <3>1, RemoveAtKeeps
    <2>8. InOrder(e, c)
      BY <1>1, <2>1, <2>2, <2>7, InOrderIsTransitive
    <2>9. ASSUME NEW x \in Elements(c) \ Elements(e), NEW y \in Elements(e)
          PROVE  FirstFromBelow(a, x, y)
      <3>1. y \in Elements(d) /\ y # d[m]
        BY <2>7
      <3>2. CASE x \in Elements(d)
        <4>1. x = d[m]
          BY <2>7, <3>2
        <4>2. PICK j \in DOMAIN d : d[j] = y
          BY <3>1 DEF Elements
        <4> QED BY <2>6, <3>1, <4>1, <4>2
      <3>3. CASE x \notin Elements(d)
        BY <2>1, <3>1, <3>3 DEF Apart
      <3> QED BY <3>2, <3>3
    <2>10. Apart(e)
      BY <2>9 DEF Apart
    <2> QED BY <2>8, <2>10 DEF e
  <1> HIDE DEF Right
  <1>5. 0 .. n \subseteq Right
    BY <1>3, <1>4, InductionUpTo
  <1>6. InOrder(g[n], c) /\ Apart(g[n])
    <2>1. n \in 0 .. n
      OBVIOUS
    <2> QED BY <1>5, <2>1 DEF Right
  <1> QED BY <1>2, <1>6
=============================================================================
