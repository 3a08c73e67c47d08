---------------------------- MODULE ClientProofs ----------------------------
(***************************************************************************)
(* Proofs about mbclient and the protocol, for tables of any number of     *)
(* registers that fits a byte, and for any commands, however many.         *)
(*                                                                         *)
(* First what the operators of module Wire compute, then the bytes of a    *)
(* call from its request to the last byte of the response (Stage), then    *)
(* the invariant of the two threads and the server.                        *)
(***************************************************************************)
EXTENDS ClientProperties, SequenceTheorems, TLAPS

Byte  == 0 .. 255
Bytes == Seq(Byte)

-----------------------------------------------------------------------------
(* Sequences: concatenation, and what is before and after a place.  The    *)
(* proofs use these operators by the lemmas about them only.               *)
Then(a, b)    == a \o b
Before(s, k)  == SubSeq(s, 1, k)
Behind(s, k)  == SubSeq(s, k + 1, Len(s))

LEMMA ThenIs ==
    ASSUME NEW S, NEW a \in Seq(S), NEW b \in Seq(S)
    PROVE  /\ Then(a, b) \in Seq(S)
           /\ Len(a) \in Nat /\ Len(b) \in Nat /\ Len(Then(a, b)) = Len(a) + Len(b)
           /\ \A i \in 1 .. Len(a) + Len(b) :
                Then(a, b)[i] = IF i <= Len(a) THEN a[i] ELSE b[i - Len(a)]
<1>1. Len(a) \in Nat /\ Len(b) \in Nat
  OBVIOUS
<1> QED
  BY <1>1, ConcatProperties DEF Then

LEMMA ThenAssociative ==
    ASSUME NEW S, NEW a \in Seq(S), NEW b \in Seq(S), NEW c \in Seq(S)
    PROVE  Then(Then(a, b), c) = Then(a, Then(b, c))
BY ConcatAssociative DEF Then

LEMMA ThenEmpty ==
    ASSUME NEW S, NEW a \in Seq(S)
    PROVE  Then(a, <<>>) = a /\ Then(<<>>, a) = a
BY ConcatEmptySeq DEF Then

LEMMA PlaceIs ==
    ASSUME NEW S, NEW s \in Seq(S), NEW k \in 0 .. Len(s)
    PROVE  /\ Before(s, k) \in Seq(S) /\ Len(Before(s, k)) = k
           /\ Behind(s, k) \in Seq(S) /\ Len(Behind(s, k)) = Len(s) - k
           /\ \A i \in 1 .. Len(s) - k : Behind(s, k)[i] = s[k + i]
           /\ Then(Before(s, k), Behind(s, k)) = s
<1>1. Len(s) \in Nat /\ \A i \in 1 .. Len(s) : s[i] \in S
  BY ElementOfSeq
<1>2. Before(s, k) \in Seq(S) /\ Len(Before(s, k)) = k
  BY <1>1, SubSeqProperties DEF Before
<1>3. /\ Behind(s, k) \in Seq(S)
      /\ Len(Behind(s, k)) = IF k + 1 <= Len(s) THEN Len(s) - (k + 1) + 1 ELSE 0
      /\ \A i \in 1 .. Len(s) - (k + 1) + 1 : Behind(s, k)[i] = s[(k + 1) + i - 1]
  <2>1. k + 1 \in Int /\ Len(s) \in Int /\ \A i \in k + 1 .. Len(s) : s[i] \in S
    BY <1>1
  <2> QED
    BY <2>1, SubSeqProperties DEF Behind
<1>4. /\ Len(Behind(s, k)) = Len(s) - k
      /\ \A i \in 1 .. Len(s) - k : Behind(s, k)[i] = s[k + i]
  BY <1>1, <1>3
<1>5. Then(Before(s, k), Behind(s, k)) = s
  <2>1. 1 \in 1 .. Len(s) + 1 /\ k \in 1 - 1 .. Len(s) /\ Len(s) \in k .. Len(s)
    BY <1>1
  <2>2. Then(Before(s, k), Behind(s, k)) = SubSeq(s, 1, Len(s))
    BY <2>1, ConcatAdjacentSubSeq DEF Then, Before, Behind
  <2> QED
    BY <2>2, SubSeqFull
<1> QED
  BY <1>2, <1>3, <1>4, <1>5

(* Two ways to write a sequence that begin with pieces of the same length  *)
(* are the same.                                                           *)
LEMMA SamePieces ==
    ASSUME NEW S, NEW a \in Seq(S), NEW b \in Seq(S), NEW c \in Seq(S), NEW d \in Seq(S),
           Then(a, b) = Then(c, d), Len(a) = Len(c)
    PROVE  a = c /\ b = d
<1> DEFINE whole == Then(a, b)
<1>1. whole = Then(c, d)
  OBVIOUS
<1>2. /\ Len(a) \in Nat /\ Len(b) \in Nat /\ Len(whole) = Len(a) + Len(b)
      /\ \A i \in 1 .. Len(a) + Len(b) :
           whole[i] = IF i <= Len(a) THEN a[i] ELSE b[i - Len(a)]
  BY ThenIs
<1> HIDE DEF whole
<1>3. /\ Len(c) \in Nat /\ Len(d) \in Nat /\ Len(whole) = Len(c) + Len(d)
      /\ \A i \in 1 .. Len(c) + Len(d) :
           whole[i] = IF i <= Len(c) THEN c[i] ELSE d[i - Len(c)]
  BY <1>1, ThenIs
<1>4. /\ Len(a) + Len(b) = Len(c) + Len(d)
      /\ Len(a) \in Nat /\ Len(b) \in Nat /\ Len(c) \in Nat /\ Len(d) \in Nat
      /\ \A i \in 1 .. Len(a) + Len(b) :
           whole[i] = IF i <= Len(a) THEN a[i] ELSE b[i - Len(a)]
      /\ \A i \in 1 .. Len(c) + Len(d) :
           whole[i] = IF i <= Len(c) THEN c[i] ELSE d[i - Len(c)]
  BY <1>2, <1>3
<1>5. Len(b) = Len(d)
  BY <1>4
<1>6. \A i \in 1 .. Len(a) : a[i] = c[i]
  BY <1>4, <1>5
<1>7. ASSUME NEW i \in 1 .. Len(b) PROVE b[i] = d[i]
  <2>1. Len(a) + i \in 1 .. Len(a) + Len(b) /\ ~(Len(a) + i <= Len(a)) /\ (Len(a) + i) - Len(a) = i
    BY <1>4
  <2>2. whole[Len(a) + i] = b[i] /\ whole[Len(a) + i] = d[i]
    BY <1>4, <1>5, <2>1
  <2> QED
    BY <2>2
<1> QED
  BY <1>5, <1>6, <1>7, SeqEqual

(* A piece that is moved from the front of one sequence to the end of the  *)
(* one before leaves the whole as it was.                                  *)
LEMMA MovedPiece ==
    ASSUME NEW S, NEW g \in Seq(S), NEW d \in Seq(S), NEW r \in Seq(S), NEW k \in 0 .. Len(d)
    PROVE  /\ Then(g, Before(d, k)) \in Seq(S) /\ Behind(d, k) \in Seq(S)
           /\ Len(Then(g, Before(d, k))) = Len(g) + k
           /\ Then(Then(g, Before(d, k)), Then(Behind(d, k), r)) = Then(g, Then(d, r))
<1>1. /\ Before(d, k) \in Seq(S) /\ Len(Before(d, k)) = k /\ Behind(d, k) \in Seq(S)
      /\ Then(Before(d, k), Behind(d, k)) = d
  BY PlaceIs
<1>2. Then(Behind(d, k), r) \in Seq(S)
  BY <1>1, ThenIs
<1>3. Then(Then(g, Before(d, k)), Then(Behind(d, k), r))
        = Then(g, Then(Before(d, k), Then(Behind(d, k), r)))
  BY <1>1, <1>2, ThenAssociative
<1>4. Then(Before(d, k), Then(Behind(d, k), r)) = Then(d, r)
  BY <1>1, ThenAssociative
<1>5. Then(g, Before(d, k)) \in Seq(S) /\ Len(Then(g, Before(d, k))) = Len(g) + k
  BY <1>1, ThenIs
<1> QED
  BY <1>1, <1>3, <1>4, <1>5

-----------------------------------------------------------------------------
(* Numbers. *)

LEMMA EachByte ==
    ASSUME NEW b \in Bytes
    PROVE  \A i \in 1 .. Len(b) : b[i] \in Byte /\ b[i] \in Nat
<1>1. \A i \in 1 .. Len(b) : b[i] \in Byte
  BY DEF Bytes
<1>2. Byte \subseteq Nat
  BY DEF Byte
<1> QED
  BY <1>1, <1>2

LEMMA FourBytes ==
    ASSUME NEW b, Len(b) = 4
    PROVE  b # <<>>
OBVIOUS

LEMMA Bytes16Are ==
    ASSUME NEW n \in Int
    PROVE  /\ Bytes16(n) \in Bytes /\ Len(Bytes16(n)) = 2
           /\ Number16(Bytes16(n)) = n % 65536
<1>1. (n \div 256) % 256 \in Byte /\ n % 256 \in Byte
  BY DEF Byte
<1>2. n % 65536 = 256 * ((n \div 256) % 256) + (n % 256)
  OBVIOUS
<1> QED
  BY <1>1, <1>2 DEF Bytes16, Bytes, Number16

LEMMA Bytes32Are ==
    ASSUME NEW n \in Nat
    PROVE  /\ Bytes32(n) \in Bytes /\ Len(Bytes32(n)) = 4
           /\ n < 65536 => Number32(Bytes32(n)) = n
<1> DEFINE high == Bytes16(n \div 65536)
           low  == Bytes16(n)
<1>1. n \div 65536 \in Int
  OBVIOUS
<1>2. high \in Bytes /\ Len(high) = 2
  BY <1>1, Bytes16Are
<1>3. low \in Bytes /\ Len(low) = 2 /\ Number16(low) = n % 65536
  BY Bytes16Are
<1> DEFINE both == Then(high, low)
<1>4. Bytes32(n) = both
  BY DEF Bytes32, Then
<1> HIDE DEF high, low
<1>5. high \in Seq(Byte) /\ low \in Seq(Byte)
  BY <1>2, <1>3 DEF Bytes
<1>6. /\ both \in Seq(Byte) /\ Len(both) = Len(high) + Len(low)
      /\ \A i \in 1 .. Len(high) + Len(low) :
           both[i] = IF i <= Len(high) THEN high[i] ELSE low[i - Len(high)]
  BY <1>5, ThenIs
<1> HIDE DEF both
<1>7. /\ Len(both) = 4
      /\ both[1] = high[1] /\ both[2] = high[2] /\ both[3] = low[1] /\ both[4] = low[2]
  <2>1. \A i \in 1 .. 4 : both[i] = IF i <= 2 THEN high[i] ELSE low[i - 2]
    BY <1>2, <1>3, <1>6
  <2> QED
    BY <1>2, <1>3, <1>6, <2>1
<1>8. ASSUME n < 65536 PROVE Number32(both) = n
  <2>1. n \div 65536 = 0 /\ n % 65536 = n
    BY <1>8
  <2>2. high[1] = 0 /\ high[2] = 0
    BY <2>1 DEF Bytes16, high
  <2>3. low[1] \in Nat /\ low[2] \in Nat
    BY <1>3, EachByte
  <2>4. 256 * low[1] + low[2] = n
    BY <1>3, <2>1 DEF Number16
  <2>5. Number32(both) = 65536 * (256 * 0 + 0) + 256 * low[1] + low[2]
    BY <1>7, <2>2 DEF Number32, Number16
  <2> QED
    BY <2>3, <2>4, <2>5
<1>9. both \in Bytes
  BY <1>6 DEF Bytes
<1> QED
  BY <1>4, <1>7, <1>8, <1>9

LEMMA Number16Is ==
    ASSUME NEW b \in Bytes, Len(b) >= 2
    PROVE  Number16(b) \in Nat
<1>1. b[1] \in Nat /\ b[2] \in Nat
  BY EachByte
<1> QED
  BY <1>1 DEF Number16

LEMMA Number32Is ==
    ASSUME NEW b \in Bytes, Len(b) = 4
    PROVE  Number32(b) \in Nat
<1>1. b[3] \in Nat /\ b[4] \in Nat
  BY EachByte
<1>2. Number16(b) \in Nat
  BY Number16Is
<1> QED
  BY <1>1, <1>2 DEF Number32

-----------------------------------------------------------------------------
(* The writes that send a sequence of bytes: none of them is empty, and    *)
(* write k takes the bytes from one cut to the next.                       *)
Cuts(w, b, p) ==
    /\ p \in [0 .. Len(w) -> Nat]
    /\ p[0] = 0 /\ p[Len(w)] = Len(b)
    /\ \A j, k \in 0 .. Len(w) : j < k => p[j] < p[k]
    /\ \A k \in 1 .. Len(w) :
         /\ Len(w[k]) = p[k] - p[k - 1]
         /\ \A i \in 1 .. Len(w[k]) : w[k][i] = b[p[k - 1] + i]

Spells(w, b) == \E p : Cuts(w, b, p)

Writes == Seq(Bytes)

LEMMA SpellsNothing ==
    /\ Spells(<<>>, <<>>)
    /\ \A b \in Bytes : Spells(<<>>, b) => b = <<>>
    /\ \A w \in Writes : Spells(w, <<>>) => w = <<>>
<1>1. Spells(<<>>, <<>>)
  <2> DEFINE p == [k \in 0 .. 0 |-> 0]
  <2>1. Cuts(<<>>, <<>>, p)
    BY DEF Cuts
  <2> QED
    BY <2>1 DEF Spells
<1>2. ASSUME NEW b \in Bytes, Spells(<<>>, b) PROVE b = <<>>
  <2>1. PICK p : Cuts(<<>>, b, p)
    BY <1>2 DEF Spells
  <2>2. Len(b) = 0
    BY <2>1 DEF Cuts
  <2> QED
    BY <2>2, EmptySeq DEF Bytes
<1>3. ASSUME NEW w \in Writes, Spells(w, <<>>) PROVE w = <<>>
  <2>1. PICK p : Cuts(w, <<>>, p)
    BY <1>3 DEF Spells
  <2>2. /\ p[0] = 0 /\ p[Len(w)] = 0 /\ Len(w) \in Nat
        /\ \A j, k \in 0 .. Len(w) : j < k => p[j] < p[k]
    BY <2>1, LenProperties DEF Cuts, Writes
  <2>3. ~(0 < Len(w))
    BY <2>2
  <2>4. Len(w) = 0
    BY <2>2, <2>3
  <2> QED
    BY <2>4, EmptySeq DEF Writes
<1> QED
  BY <1>1, <1>2, <1>3

(* One write. *)
LEMMA SpellsOne ==
    ASSUME NEW b \in Bytes, b # <<>>
    PROVE  Spells(<<b>>, b)
<1> DEFINE p == [k \in 0 .. 1 |-> IF k = 0 THEN 0 ELSE Len(b)]
<1>1. Len(b) \in Nat \ {0}
  BY EmptySeq DEF Bytes
<1>2. p \in [0 .. 1 -> Nat] /\ p[0] = 0 /\ p[1] = Len(b)
  BY <1>1
<1>3. Len(<<b>>) = 1 /\ <<b>>[1] = b
  OBVIOUS
<1> DEFINE w == <<b>>
<1> HIDE DEF p, w
<1>4. Len(w) = 1 /\ w[1] = b
  BY <1>3 DEF w
<1>5. \A j, k \in 0 .. 1 : j < k => p[j] < p[k]
  BY <1>1, <1>2
<1>6. \A k \in 1 .. 1 : Len(w[k]) = p[k] - p[k - 1]
                         /\ \A i \in 1 .. Len(w[k]) : w[k][i] = b[p[k - 1] + i]
  BY <1>1, <1>2, <1>4
<1>7. Cuts(w, b, p)
  BY <1>2, <1>4, <1>5, <1>6 DEF Cuts
<1> QED
  BY <1>7 DEF Spells, w

(* What is left when the first write has been made. *)
LEMMA SpellsTail ==
    ASSUME NEW w \in Writes, NEW b \in Bytes, Spells(w, b), w # <<>>
    PROVE  /\ Head(w) \in Bytes /\ Tail(w) \in Writes
           /\ \E r \in Bytes : b = Then(Head(w), r) /\ Spells(Tail(w), r)
<1> DEFINE m == Len(w)
           v == Tail(w)
           h == Head(w)
<1>1. /\ h \in Bytes /\ v \in Writes /\ Len(v) = m - 1
      /\ \A i \in 1 .. Len(v) : v[i] = w[i + 1]
  BY HeadTailProperties DEF Writes
<1>2. m \in Nat \ {0} /\ h = w[1]
  BY EmptySeq DEF Writes
<1>3. PICK p : Cuts(w, b, p)
  BY DEF Spells
<1> HIDE DEF m, v, h
<1>4. /\ p \in [0 .. m -> Nat] /\ p[0] = 0 /\ p[m] = Len(b)
      /\ \A j, k \in 0 .. m : j < k => p[j] < p[k]
      /\ \A k \in 1 .. m : Len(w[k]) = p[k] - p[k - 1]
      /\ \A k \in 1 .. m : \A i \in 1 .. Len(w[k]) : w[k][i] = b[p[k - 1] + i]
  BY <1>3 DEF Cuts, m
<1>5. \A k \in 0 .. m : p[k] \in Nat
  BY <1>4
<1>6. p[1] \in 0 .. Len(b) /\ Len(h) = p[1] /\ Len(b) \in Nat
  <2>1. 1 \in 0 .. m /\ m \in 0 .. m /\ 1 - 1 = 0
    BY <1>2
  <2>2. 1 = m \/ p[1] < p[m]
    BY <1>2, <1>4, <2>1
  <2>3. p[1] \in Nat /\ Len(b) \in Nat
    BY <1>5, <2>1, EmptySeq, LenProperties DEF Bytes
  <2>4. Len(w[1]) = p[1] - p[0]
    BY <1>2, <1>4
  <2> QED
    BY <1>2, <1>4, <2>2, <2>3, <2>4
<1> DEFINE r == Behind(b, p[1])
<1>7. /\ Before(b, p[1]) \in Bytes /\ Len(Before(b, p[1])) = p[1]
      /\ r \in Bytes /\ Len(r) = Len(b) - p[1]
      /\ \A i \in 1 .. Len(b) - p[1] : r[i] = b[p[1] + i]
      /\ Then(Before(b, p[1]), r) = b
  BY <1>6, PlaceIs DEF Bytes
<1> HIDE DEF r
<1>8. b = Then(h, r)
  <2>1. \A i \in 1 .. Len(h) : h[i] = b[i]
    <3>1. 1 \in 1 .. m /\ p[1 - 1] = 0
      BY <1>2, <1>4
    <3>2. \A i \in 1 .. Len(w[1]) : w[1][i] = b[p[1 - 1] + i]
      BY <1>4, <3>1
    <3>3. \A i \in 1 .. p[1] : 0 + i = i
      BY <1>6
    <3> QED
      BY <1>2, <1>6, <3>1, <3>2, <3>3
  <2> DEFINE f == Before(b, p[1])
  <2>2. /\ f \in Seq(Byte) /\ r \in Seq(Byte) /\ Len(f) = p[1] /\ Then(f, r) = b
    BY <1>7 DEF Bytes
  <2> HIDE DEF f
  <2>3. \A i \in 1 .. Len(f) + Len(r) : Then(f, r)[i] = IF i <= Len(f) THEN f[i] ELSE r[i - Len(f)]
    BY <2>2, ThenIs
  <2>4. \A i \in 1 .. p[1] : b[i] = f[i]
    <3>1. Len(r) \in Nat
      BY <2>2
    <3> QED
      BY <1>6, <2>2, <2>3, <3>1
  <2>5. f = h
    BY <1>1, <1>6, <2>1, <2>2, <2>4, SeqEqual DEF Bytes
  <2> QED
    BY <2>2, <2>5
<1>9. Spells(v, r)
  <2> DEFINE q == [k \in 0 .. m - 1 |-> p[k + 1] - p[1]]
  <2>1. \A k \in 0 .. m - 1 : q[k] = p[k + 1] - p[1]
    OBVIOUS
  <2>2. q \in [0 .. m - 1 -> Nat]
    <3>1. ASSUME NEW k \in 0 .. m - 1 PROVE p[k + 1] - p[1] \in Nat
      <4>1. k + 1 \in 0 .. m /\ 1 \in 0 .. m /\ (k + 1 = 1 \/ 1 < k + 1)
        BY <1>2
      <4>2. p[k + 1] = p[1] \/ p[1] < p[k + 1]
        BY <1>4, <4>1
      <4> QED
        BY <1>5, <4>1, <4>2
    <3> QED
      BY <3>1
  <2> HIDE DEF q
  <2>3. q[0] = 0 /\ q[m - 1] = Len(r)
    BY <1>2, <1>4, <1>6, <1>7, <2>1
  <2>4. ASSUME NEW j \in 0 .. m - 1, NEW k \in 0 .. m - 1, j < k PROVE q[j] < q[k]
    <3>1. j + 1 \in 0 .. m /\ k + 1 \in 0 .. m /\ j + 1 < k + 1
      BY <1>2, <2>4
    <3>2. p[j + 1] < p[k + 1] /\ p[j + 1] \in Nat /\ p[k + 1] \in Nat
      BY <1>4, <1>5, <3>1
    <3> QED
      BY <1>6, <2>1, <3>2
  <2>5. ASSUME NEW k \in 1 .. m - 1
        PROVE  /\ Len(v[k]) = q[k] - q[k - 1]
               /\ \A i \in 1 .. Len(v[k]) : v[k][i] = r[q[k - 1] + i]
    <3>1. v[k] = w[k + 1] /\ k + 1 \in 1 .. m /\ (k + 1) - 1 = k /\ k \in 0 .. m - 1 /\ k - 1 \in 0 .. m - 1
          /\ (k - 1) + 1 = k
      BY <1>1, <1>2
    <3>2. Len(v[k]) = p[k + 1] - p[k] /\ p[k + 1] \in Nat /\ p[k] \in Nat
      BY <1>4, <1>5, <1>2, <3>1
    <3>3. q[k] = p[k + 1] - p[1] /\ q[k - 1] = p[k] - p[1]
      BY <2>1, <3>1
    <3>4. ASSUME NEW i \in 1 .. Len(v[k]) PROVE v[k][i] = r[q[k - 1] + i]
      <4>1. v[k][i] = b[p[k] + i]
        BY <1>4, <3>1
      <4>2. p[k + 1] <= Len(b)
        <5>1. k + 1 = m \/ p[k + 1] < p[m]
          BY <1>2, <1>4, <3>1
        <5> QED
          BY <1>4, <1>6, <3>2, <5>1
      <4>3. q[k - 1] \in Nat
        BY <2>2, <3>1
      <4>4. i \in Nat /\ 1 <= i /\ i <= p[k + 1] - p[k]
        BY <3>2
      <4>5. p[1] \in Nat
        BY <1>6
      <4> DEFINE x == q[k - 1] + i
      <4>6. x \in Nat /\ 1 <= x
        BY <4>3, <4>4
      <4>7. p[1] + x = p[k] + i
        BY <3>2, <3>3, <4>4, <4>5
      <4>8. p[k] + i <= Len(b)
        BY <1>6, <3>2, <4>2, <4>4
      <4> HIDE DEF x
      <4>9. x \in 1 .. Len(b) - p[1]
        BY <1>6, <4>5, <4>6, <4>7, <4>8
      <4> QED
        BY <1>7, <4>1, <4>7, <4>9 DEF x
    <3> QED
      BY <1>6, <3>2, <3>3, <3>4
  <2>6. Cuts(v, r, q)
    BY <1>1, <2>2, <2>3, <2>4, <2>5 DEF Cuts
  <2> QED
    BY <2>6 DEF Spells
<1> QED
  BY <1>1, <1>7, <1>8, <1>9 DEF v, h

(* The writes of two sequences, one after the other. *)
LEMMA SpellsBoth ==
    ASSUME NEW w \in Writes, NEW b \in Bytes, Spells(w, b),
           NEW v \in Writes, NEW c \in Bytes, Spells(v, c)
    PROVE  Spells(Then(w, v), Then(b, c))
<1> DEFINE m == Len(w)
           n == Len(v)
           u == Then(w, v)
           d == Then(b, c)
<1>1. PICK p : Cuts(w, b, p)
  BY DEF Spells
<1>2. PICK q : Cuts(v, c, q)
  BY DEF Spells
<1>3. /\ Len(b) \in Nat /\ Len(c) \in Nat /\ Len(d) = Len(b) + Len(c)
      /\ \A i \in 1 .. Len(b) + Len(c) : d[i] = IF i <= Len(b) THEN b[i] ELSE c[i - Len(b)]
  BY ThenIs DEF Bytes
<1>4. /\ m \in Nat /\ n \in Nat /\ Len(u) = m + n
      /\ \A k \in 1 .. m + n : u[k] = IF k <= m THEN w[k] ELSE v[k - m]
  BY ThenIs DEF Writes
<1> HIDE DEF m, n, u, d
<1>5. /\ p \in [0 .. m -> Nat] /\ p[0] = 0 /\ p[m] = Len(b)
      /\ \A j, k \in 0 .. m : j < k => p[j] < p[k]
      /\ \A k \in 1 .. m : Len(w[k]) = p[k] - p[k - 1]
      /\ \A k \in 1 .. m : \A i \in 1 .. Len(w[k]) : w[k][i] = b[p[k - 1] + i]
  BY <1>1 DEF Cuts, m
<1>6. /\ q \in [0 .. n -> Nat] /\ q[0] = 0 /\ q[n] = Len(c)
      /\ \A j, k \in 0 .. n : j < k => q[j] < q[k]
      /\ \A k \in 1 .. n : Len(v[k]) = q[k] - q[k - 1]
      /\ \A k \in 1 .. n : \A i \in 1 .. Len(v[k]) : v[k][i] = c[q[k - 1] + i]
  BY <1>2 DEF Cuts, n
<1>7. /\ \A k \in 0 .. m : p[k] \in Nat /\ p[k] <= Len(b)
      /\ \A k \in 0 .. n : q[k] \in Nat /\ q[k] <= Len(c)
  <2>1. ASSUME NEW k \in 0 .. m PROVE p[k] \in Nat /\ p[k] <= Len(b)
    <3>1. m \in 0 .. m /\ (k = m \/ k < m)
      BY <1>4
    <3>2. p[k] = p[m] \/ p[k] < p[m]
      BY <1>5, <3>1
    <3>3. p[k] \in Nat
      BY <1>5
    <3> QED
      BY <1>3, <1>5, <3>2, <3>3
  <2>2. ASSUME NEW k \in 0 .. n PROVE q[k] \in Nat /\ q[k] <= Len(c)
    <3>1. n \in 0 .. n /\ (k = n \/ k < n)
      BY <1>4
    <3>2. q[k] = q[n] \/ q[k] < q[n]
      BY <1>6, <3>1
    <3>3. q[k] \in Nat
      BY <1>6
    <3> QED
      BY <1>3, <1>6, <3>2, <3>3
  <2> QED
    BY <2>1, <2>2
<1> DEFINE r == [k \in 0 .. m + n |-> IF k <= m THEN p[k] ELSE Len(b) + q[k - m]]
<1>8. \A k \in 0 .. m + n : r[k] = IF k <= m THEN p[k] ELSE Len(b) + q[k - m]
  OBVIOUS
<1>9. r \in [0 .. m + n -> Nat]
  <2>1. ASSUME NEW k \in 0 .. m + n
        PROVE  (IF k <= m THEN p[k] ELSE Len(b) + q[k - m]) \in Nat
    <3>1. CASE k <= m
      <4>1. k \in 0 .. m
        BY <1>4, <3>1
      <4> QED
        BY <1>7, <3>1, <4>1
    <3>2. CASE ~(k <= m)
      <4>1. k - m \in 0 .. n
        BY <1>4, <3>2
      <4> QED
        BY <1>3, <1>7, <3>2, <4>1
    <3> QED
      BY <3>1, <3>2
  <2> QED
    BY <2>1
<1> HIDE DEF r
<1>10. \A k \in 0 .. m : r[k] = p[k]
  BY <1>4, <1>8
<1>11. \A k \in 0 .. n : r[m + k] = Len(b) + q[k]
  <2>1. ASSUME NEW k \in 0 .. n PROVE r[m + k] = Len(b) + q[k]
    <3>1. CASE k = 0
      <4>1. m + k = m /\ m \in 0 .. m
        BY <1>4, <3>1
      <4> QED
        BY <1>3, <1>5, <1>6, <1>10, <3>1, <4>1
    <3>2. CASE k # 0
      <4>1. m + k \in 0 .. m + n /\ ~(m + k <= m) /\ (m + k) - m = k
        BY <1>4, <3>2
      <4> QED
        BY <1>8, <4>1
    <3> QED
      BY <3>1, <3>2
  <2> QED
    BY <2>1
<1>12. r[0] = 0 /\ r[m + n] = Len(d)
  <2>1. 0 \in 0 .. m /\ n \in 0 .. n
    BY <1>4
  <2> QED
    BY <1>3, <1>5, <1>6, <1>10, <1>11, <2>1
<1>13. ASSUME NEW j \in 0 .. m + n, NEW k \in 0 .. m + n, j < k PROVE r[j] < r[k]
  <2>1. CASE k <= m
    <3>1. j \in 0 .. m /\ k \in 0 .. m
      BY <1>4, <1>13, <2>1
    <3> QED
      BY <1>5, <1>10, <1>13, <3>1
  <2>2. CASE j >= m
    <3>1. j - m \in 0 .. n /\ k - m \in 0 .. n /\ j - m < k - m /\ m + (j - m) = j /\ m + (k - m) = k
      BY <1>4, <1>13, <2>2
    <3>2. r[j] = Len(b) + q[j - m] /\ r[k] = Len(b) + q[k - m]
      BY <1>11, <3>1
    <3>3. q[j - m] < q[k - m] /\ q[j - m] \in Nat /\ q[k - m] \in Nat
      BY <1>6, <1>7, <3>1
    <3> QED
      BY <1>3, <3>2, <3>3
  <2>3. CASE j < m /\ k > m
    <3>1. j \in 0 .. m /\ m \in 0 .. m /\ k - m \in 0 .. n /\ 0 \in 0 .. n /\ 0 < k - m /\ m + (k - m) = k
      BY <1>4, <2>3
    <3>2. r[j] = p[j] /\ r[k] = Len(b) + q[k - m]
      BY <1>10, <1>11, <3>1
    <3>3. p[j] < p[m] /\ q[0] < q[k - m] /\ p[j] \in Nat /\ q[k - m] \in Nat
      BY <1>5, <1>6, <1>7, <2>3, <3>1
    <3> QED
      BY <1>3, <1>5, <1>6, <3>2, <3>3
  <2> QED
    BY <1>4, <2>1, <2>2, <2>3
<1>14. ASSUME NEW k \in 1 .. m + n
       PROVE  /\ Len(u[k]) = r[k] - r[k - 1]
              /\ \A i \in 1 .. Len(u[k]) : u[k][i] = d[r[k - 1] + i]
  <2>1. CASE k <= m
    <3>1. k \in 1 .. m /\ k \in 0 .. m /\ k - 1 \in 0 .. m
      BY <1>4, <2>1
    <3>2. u[k] = w[k] /\ r[k] = p[k] /\ r[k - 1] = p[k - 1]
      BY <1>4, <1>10, <2>1, <3>1
    <3>3. /\ p[k] \in Nat /\ p[k - 1] \in Nat /\ p[k] <= Len(b)
          /\ Len(w[k]) = p[k] - p[k - 1]
      BY <1>5, <1>7, <3>1
    <3>4. ASSUME NEW i \in 1 .. Len(w[k]) PROVE w[k][i] = d[p[k - 1] + i]
      <4>1. w[k][i] = b[p[k - 1] + i]
        BY <1>5, <3>1
      <4>2. p[k - 1] + i \in 1 .. Len(b) + Len(c) /\ p[k - 1] + i <= Len(b)
        BY <1>3, <3>3
      <4> QED
        BY <1>3, <4>1, <4>2
    <3> QED
      BY <3>2, <3>3, <3>4
  <2>2. CASE k > m
    <3> DEFINE l == k - m
    <3>1. /\ l \in 1 .. n /\ l \in 0 .. n /\ l - 1 \in 0 .. n
          /\ m + l = k /\ m + (l - 1) = k - 1 /\ ~(k <= m)
      BY <1>4, <2>2
    <3>2. u[k] = v[l]
      BY <1>4, <3>1
    <3>3. r[m + l] = Len(b) + q[l] /\ r[m + (l - 1)] = Len(b) + q[l - 1]
      BY <1>11, <3>1
    <3>4. r[k] = Len(b) + q[l] /\ r[k - 1] = Len(b) + q[l - 1]
      BY <3>1, <3>3
    <3>5. /\ q[l] \in Nat /\ q[l - 1] \in Nat /\ q[l] <= Len(c)
          /\ Len(v[l]) = q[l] - q[l - 1]
      BY <1>6, <1>7, <3>1
    <3> HIDE DEF l
    <3>6. ASSUME NEW i \in 1 .. Len(v[l]) PROVE v[l][i] = d[r[k - 1] + i]
      <4>1. v[l][i] = c[q[l - 1] + i]
        BY <1>6, <3>1
      <4>2. i \in Nat /\ 1 <= i /\ i <= q[l] - q[l - 1]
        BY <3>5
      <4> DEFINE x == q[l - 1] + i
      <4>3. x \in Nat /\ 1 <= x /\ x <= Len(c)
        BY <1>3, <3>5, <4>2
      <4>4. r[k - 1] + i = Len(b) + x
        BY <1>3, <3>5, <3>4, <4>2
      <4> HIDE DEF x
      <4>5. /\ Len(b) + x \in 1 .. Len(b) + Len(c) /\ ~(Len(b) + x <= Len(b))
            /\ (Len(b) + x) - Len(b) = x
        BY <1>3, <4>3
      <4>6. d[Len(b) + x] = c[x]
        BY <1>3, <4>5
      <4> QED
        BY <4>1, <4>4, <4>6 DEF x
    <3> QED
      BY <1>3, <3>2, <3>5, <3>6, <3>4
  <2> QED
    BY <1>4, <2>1, <2>2
<1>15. Cuts(u, d, r)
  BY <1>4, <1>9, <1>12, <1>13, <1>14 DEF Cuts
<1> QED
  BY <1>15 DEF Spells, u, d

(* What is left to write when k bytes of the first write have arrived. *)
Uncut(w, k) ==
    Then(IF k = Len(Head(w)) THEN <<>> ELSE <<Behind(Head(w), k)>>, Tail(w))

LEMMA SpellsCut ==
    ASSUME NEW w \in Writes, w # <<>>, NEW k \in 0 .. Len(Head(w))
    PROVE  /\ Before(Head(w), k) \in Bytes /\ Uncut(w, k) \in Writes
           /\ \A b \in Bytes : Spells(w, b) =>
                \E r \in Bytes : b = Then(Before(Head(w), k), r) /\ Spells(Uncut(w, k), r)
<1> DEFINE h == Head(w)
           v == Tail(w)
           a == Before(h, k)
           c == Behind(h, k)
           f == IF k = Len(h) THEN <<>> ELSE <<c>>
<1>1. h \in Bytes /\ v \in Writes
  BY HeadTailProperties DEF Writes
<1> HIDE DEF v
<1>2. Len(h) \in Nat /\ k \in 0 .. Len(h)
  BY <1>1, LenProperties DEF Bytes
<1>3. a \in Bytes /\ c \in Bytes /\ Len(c) = Len(h) - k /\ Then(a, c) = h
  BY <1>1, <1>2, PlaceIs DEF Bytes
<1> HIDE DEF h, a, c
<1>4. f \in Writes
  <2>1. <<>> \in Writes /\ <<c>> \in Writes
    BY <1>3, EmptySeq DEF Writes
  <2> QED
    BY <2>1, Zenon DEF f
<1> HIDE DEF f
<1>5. Then(f, v) \in Writes
  BY <1>1, <1>4, ThenIs DEF Writes
<1>6. ASSUME NEW b \in Bytes, Spells(w, b)
      PROVE  \E r \in Bytes : b = Then(a, r) /\ Spells(Then(f, v), r)
  <2>1. PICK r \in Bytes : b = Then(h, r) /\ Spells(v, r)
    BY <1>6, SpellsTail DEF h, v
  <2>2. CASE k = Len(h)
    <3>1. f = <<>> /\ c = <<>>
      BY <1>2, <1>3, <2>2, EmptySeq DEF f, Bytes
    <3>2. a = h
      BY <1>3, <3>1, ThenEmpty DEF Bytes
    <3>3. Then(f, v) = v
      BY <1>1, <3>1, ThenEmpty DEF Writes
    <3> QED
      BY <2>1, <3>2, <3>3
  <2>3. CASE k # Len(h)
    <3>1. f = <<c>>
      BY <2>3, Zenon DEF f
    <3>2. c # <<>>
      BY <1>2, <1>3, <2>3, EmptySeq
    <3>3. Spells(f, c)
      BY <1>3, <3>1, <3>2, SpellsOne
    <3>4. Then(c, r) \in Bytes /\ Spells(Then(f, v), Then(c, r))
      BY <1>1, <1>3, <1>4, <2>1, <3>3, SpellsBoth, ThenIs DEF Bytes
    <3>5. b = Then(a, Then(c, r))
      BY <1>3, <2>1, ThenAssociative DEF Bytes
    <3> QED
      BY <3>4, <3>5
  <2> QED
    BY <2>2, <2>3
<1>7. a = Before(Head(w), k) /\ Then(f, v) = Uncut(w, k)
  BY Zenon DEF a, c, f, h, v, Uncut
<1> QED
  BY <1>3, <1>5, <1>6, <1>7, Zenon

(* Writes of two bytes each. *)
LEMMA SpellsPairs ==
    ASSUME NEW w \in Writes, NEW b \in Bytes, Len(b) = 2 * Len(w),
           \A k \in 1 .. Len(w) :
             Len(w[k]) = 2 /\ w[k][1] = b[2 * k - 1] /\ w[k][2] = b[2 * k]
    PROVE  Spells(w, b)
<1> DEFINE m == Len(w)
           p == [k \in 0 .. m |-> 2 * k]
<1>1. m \in Nat
  BY LenProperties DEF Writes
<1>2. Len(b) = 2 * m /\ \A k \in 1 .. m : Len(w[k]) = 2 /\ w[k][1] = b[2 * k - 1] /\ w[k][2] = b[2 * k]
  OBVIOUS
<1> HIDE DEF m
<1>3. p \in [0 .. m -> Nat] /\ \A k \in 0 .. m : p[k] = 2 * k
  BY <1>1
<1> HIDE DEF p
<1>4. p[0] = 0 /\ p[m] = Len(b)
  <2>1. 0 \in 0 .. m /\ m \in 0 .. m
    BY <1>1
  <2> QED
    BY <1>2, <1>3, <2>1
<1>5. \A j, k \in 0 .. m : j < k => p[j] < p[k]
  BY <1>1, <1>3
<1>6. ASSUME NEW k \in 1 .. m
      PROVE  /\ Len(w[k]) = p[k] - p[k - 1]
             /\ \A i \in 1 .. Len(w[k]) : w[k][i] = b[p[k - 1] + i]
  <2>1. k \in 0 .. m /\ k - 1 \in 0 .. m
    BY <1>1
  <2>2. p[k] = 2 * k /\ p[k - 1] = 2 * (k - 1)
    BY <1>3, <2>1
  <2>3. Len(w[k]) = 2 /\ w[k][1] = b[2 * k - 1] /\ w[k][2] = b[2 * k]
    BY <1>2
  <2>4. p[k - 1] + 1 = 2 * k - 1 /\ p[k - 1] + 2 = 2 * k /\ p[k] - p[k - 1] = 2
    BY <1>1, <2>2
  <2>5. \A i \in 1 .. 2 : i = 1 \/ i = 2
    OBVIOUS
  <2>6. \A i \in 1 .. 2 : w[k][i] = b[p[k - 1] + i]
    BY <2>3, <2>4, <2>5
  <2> QED
    BY <2>3, <2>4, <2>6
<1>7. Cuts(w, b, p)
  BY <1>3, <1>4, <1>5, <1>6 DEF Cuts, m
<1> QED
  BY <1>7 DEF Spells

-----------------------------------------------------------------------------
(* The registers of a table, and the bytes that they are sent as. *)

LEMMA ValueIs ==
    ASSUME NEW x \in Tables, NEW n \in 0 .. Size - 1
    PROVE  Value(x, n) \in Byte
<1>1. x = "input" => Value(x, n) = n + 1
  BY Zenon DEF Value
<1>2. x = "discrete" => Value(x, n) = IF n < Size \div 2 THEN 1 ELSE 0
  BY Zenon DEF Value
<1>3. x # "input" /\ x # "discrete" => Value(x, n) = 0
  BY Zenon DEF Value
<1>4. n + 1 \in Byte /\ 0 \in Byte /\ 1 \in Byte
  BY WireAssumption DEF Byte
<1> QED
  BY <1>1, <1>2, <1>3, <1>4

LEMMA SmallBytes16 ==
    ASSUME NEW v \in Byte
    PROVE  Bytes16(v) = <<0, v>>
<1>1. v \div 256 = 0 /\ v % 256 = v /\ 0 % 256 = 0
  BY DEF Byte
<1> QED
  BY <1>1 DEF Bytes16

(* decodeResponse, for a response that came whole. *)
LEMMA BufferIs ==
    ASSUME NEW b \in Bytes
    PROVE  Buffer(Len(b), b) = b
<1>1. Buffer(Len(b), b) = [i \in 1 .. Len(b) |-> b[i]]
  BY DEF Buffer
<1>2. b \in Seq(Byte)
  BY DEF Bytes
<1>3. b = [i \in 1 .. Len(b) |-> b[i]]
  BY <1>2, LenProperties
<1> QED
  BY <1>1, <1>3

LEMMA PairsAre ==
    ASSUME NEW b \in Bytes
    PROVE  Pairs(b) = [i \in 1 .. Len(b) \div 2 |-> 256 * b[2 * i - 1] + b[2 * i]]
<1>1. Len(b) \in Nat
  BY LenProperties DEF Bytes
<1>2. ASSUME NEW i \in 1 .. Len(b) \div 2
      PROVE  Number16(SubSeq(b, 2 * i - 1, 2 * i)) = 256 * b[2 * i - 1] + b[2 * i]
  <2> DEFINE l == 2 * i - 1
             h == 2 * i
             u == SubSeq(b, l, h)
  <2>1. /\ i \in Nat /\ 1 <= i /\ l \in Int /\ h \in Int /\ h - l + 1 = 2
        /\ l \in 1 .. Len(b) /\ h \in 1 .. Len(b) /\ l + 1 = h /\ l + 1 - 1 = l /\ l + 2 - 1 = h
    BY <1>1
  <2>2. \A j \in l .. h : b[j] \in Byte
    BY <1>1, <2>1, EachByte
  <2>3. \A j \in 1 .. h - l + 1 : u[j] = b[l + j - 1]
    BY <2>1, <2>2, SubSeqProperties
  <2> HIDE DEF u, l, h
  <2>4. u[1] = b[l] /\ u[2] = b[h]
    <3>1. \A j \in 1 .. 2 : u[j] = b[l + j - 1]
      BY <2>1, <2>3
    <3>2. u[1] = b[l + 1 - 1] /\ u[2] = b[l + 2 - 1]
      BY <3>1
    <3> QED
      BY <2>1, <3>2
  <2>5. Number16(u) = 256 * b[l] + b[h]
    BY <2>4 DEF Number16
  <2> QED
    BY <2>5 DEF u, l, h
<1> QED
  BY <1>2 DEF Pairs

LEMMA FirstPair ==
    ASSUME NEW b \in Bytes
    PROVE  /\ Len(b) < 2 => Pairs(b) = <<>>
           /\ Len(b) >= 2 => Pairs(b) # <<>> /\ Head(Pairs(b)) = 256 * b[1] + b[2]
<1> DEFINE pairs == [i \in 1 .. Len(b) \div 2 |-> 256 * b[2 * i - 1] + b[2 * i]]
<1>1. Len(b) \in Nat
  BY LenProperties DEF Bytes
<1>2. ASSUME Len(b) < 2 PROVE pairs = <<>>
  <2>1. Len(b) \div 2 = 0
    BY <1>1, <1>2
  <2> QED
    BY <2>1
<1>3. ASSUME Len(b) >= 2 PROVE pairs # <<>> /\ Head(pairs) = 256 * b[1] + b[2]
  <2>1. 1 \in 1 .. Len(b) \div 2 /\ 2 * 1 - 1 = 1 /\ 2 * 1 = 2
    BY <1>1, <1>3
  <2>2. pairs[1] = 256 * b[1] + b[2]
    BY <2>1
  <2>3. DOMAIN pairs # {}
    BY <2>1
  <2>4. pairs # <<>>
    BY <2>3
  <2> QED
    BY <2>2, <2>4
<1>4. Pairs(b) = pairs
  BY PairsAre
<1> HIDE DEF pairs
<1> QED
  BY <1>2, <1>3, <1>4

LEMMA DecodeOne ==
    ASSUME NEW x \in Tables, NEW b \in Bytes
    PROVE  /\ b = <<>> => Decode(x, FALSE, Len(b), b) = <<>>
           /\ x \notin Words /\ b # <<>> => Decode(x, FALSE, Len(b), b) = <<b[1]>>
           /\ x \in Words /\ Len(b) >= 2 => Decode(x, FALSE, Len(b), b) = <<256 * b[1] + b[2]>>
<1> DEFINE values == IF x \in Words THEN Pairs(b) ELSE b
<1>1. Decode(x, FALSE, Len(b), b) = IF FALSE \/ values = <<>> THEN values ELSE <<Head(values)>>
  BY Zenon, BufferIs DEF Decode
<1>2. Decode(x, FALSE, Len(b), b) = IF values = <<>> THEN values ELSE <<Head(values)>>
  BY <1>1, Zenon
<1>3. b = <<>> => values = <<>>
  <2>1. b = <<>> => Len(b) < 2
    OBVIOUS
  <2> QED
    BY <2>1, FirstPair
<1>4. Head(b) = b[1]
  OBVIOUS
<1>5. x \in Words /\ Len(b) >= 2 => values # <<>> /\ Head(values) = 256 * b[1] + b[2]
  BY FirstPair
<1>6. x \notin Words => values = b
  OBVIOUS
<1> HIDE DEF values
<1> QED
  BY <1>2, <1>3, <1>4, <1>5, <1>6

LEMMA DecodeAll ==
    ASSUME NEW x \in Tables, NEW b \in Bytes
    PROVE  Decode(x, TRUE, Len(b), b) =
             IF x \in Words THEN [i \in 1 .. Len(b) \div 2 |-> 256 * b[2 * i - 1] + b[2 * i]]
             ELSE b
<1> DEFINE values == IF x \in Words THEN Pairs(b) ELSE b
<1>1. Decode(x, TRUE, Len(b), b) = IF TRUE \/ values = <<>> THEN values ELSE <<Head(values)>>
  BY Zenon, BufferIs DEF Decode
<1>2. Decode(x, TRUE, Len(b), b) = values
  BY <1>1, Zenon
<1> QED
  BY <1>2, PairsAre, Zenon

-----------------------------------------------------------------------------
(* Requests and responses. *)

(* The registers that a request names: the server sees the number modulo   *)
(* the two bytes of an argument.                                           *)
Answer(r) ==
    IF r.cmd > 4 THEN [i \in 1 .. Size |-> Value(r.table, i - 1)]
    ELSE LET n == r.number % 65536
         IN  IF n < Size THEN <<Value(r.table, n)>> ELSE <<>>

Answered(r, s) == Decode(r.table, r.cmd > 4, s.size, s.got) = Answer(r)

ShownIsAnswer ==
    shown["main"].whole /\ ~shown["main"].mixed => Answered(request["main"], shown["main"])

(* They are the registers asked for if the number fits into two bytes.     *)
LEMMA AnswerIsAsked ==
    ASSUME NEW r, r.number \in Int, IsSent(r.number)
    PROVE  Answer(r) = Registers(r)
<1> DEFINE i == r.number
           n == i % 65536
           all == [k \in 1 .. Size |-> Value(r.table, k - 1)]
<1>1. i \in Int /\ i >= -32768 /\ i < 65536
  BY DEF IsSent
<1> HIDE DEF i
<1>2. i >= 0 => n = i
  BY <1>1
<1>3. i < 0 => n = i + 65536
  BY <1>1
<1> HIDE DEF n
<1>4. (i \in 0 .. Size - 1 <=> n < Size) /\ (i \in 0 .. Size - 1 => n = i)
  BY <1>1, <1>2, <1>3, WireAssumption
<1>5. Answer(r) = IF r.cmd > 4 THEN all ELSE IF n < Size THEN <<Value(r.table, n)>> ELSE <<>>
  BY DEF Answer, n, i
<1>6. Registers(r) =
        IF r.cmd > 4 THEN all ELSE IF i \in 0 .. Size - 1 THEN <<Value(r.table, i)>> ELSE <<>>
  BY DEF Registers, i
<1> HIDE DEF all
<1>7. CASE r.cmd > 4
  BY <1>5, <1>6, <1>7, Zenon
<1>8. CASE ~(r.cmd > 4) /\ n < Size
  <2>1. Answer(r) = <<Value(r.table, n)>> /\ Registers(r) = <<Value(r.table, i)>> /\ n = i
    BY <1>4, <1>5, <1>6, <1>8, Zenon
  <2> QED
    BY <2>1, Zenon
<1>9. CASE ~(r.cmd > 4) /\ ~(n < Size)
  BY <1>4, <1>5, <1>6, <1>9, Zenon
<1> QED
  BY <1>7, <1>8, <1>9, Zenon

Legit(r) ==
    /\ r \in [cmd : 1 .. READ_ALL, table : Tables, number : Int]
    /\ r.cmd # READ_ALL => r.table = TableOf(r.cmd)

(* The payload of the response to a request, and what is made of it. *)
Message(r, b) ==
    /\ b \in Bytes /\ Len(b) < 65536
    /\ Spells(Response(r.cmd, r.number % 65536), Then(Bytes32(Len(b)), b))
    /\ r.cmd # READ_ALL => Decode(r.table, r.cmd > 4, Len(b), b) = Answer(r)

LEMMA TableOfIs ==
    ASSUME NEW cmd \in 1 .. 8
    PROVE  TableOf(cmd) \in Tables
<1>1. ((cmd - 1) % 4) + 1 \in 1 .. 4
  OBVIOUS
<1> QED
  BY <1>1 DEF TableOf, Tables

LEMMA CodeIs ==
    ASSUME NEW x \in Tables, NEW all \in BOOLEAN
    PROVE  Code(x, all) \in 1 .. 8 /\ TableOf(Code(x, all)) = x /\ (Code(x, all) > 4 <=> all)
<1> DEFINE names == <<"coil", "discrete", "input", "holding">>
           k == CHOOSE k \in 1 .. 4 : names[k] = x
<1>1. \E j \in 1 .. 4 : names[j] = x
  BY DEF Tables
<1>2. k \in 1 .. 4 /\ names[k] = x
  BY <1>1, Zenon
<1>3. Code(x, all) = (IF all THEN 4 ELSE 0) + k
  BY Zenon DEF Code
<1> HIDE DEF k
<1>4. Code(x, all) \in 1 .. 8 /\ (Code(x, all) > 4 <=> all)
  BY <1>2, <1>3
<1>5. ((Code(x, all) - 1) % 4) + 1 = k
  BY <1>2, <1>3
<1>6. TableOf(Code(x, all)) = names[k]
  BY <1>5 DEF TableOf
<1> QED
  BY <1>2, <1>4, <1>6

(* The handlers of the requests, by the code of the request. *)
LEMMA ResponseIs ==
    ASSUME NEW cmd \in 1 .. READ_ALL, NEW n
    PROVE  /\ cmd <= 4 => Response(cmd, n) = OneRegister(TableOf(cmd), n)
           /\ cmd > 4 /\ cmd # READ_ALL => Response(cmd, n) = WholeTable(TableOf(cmd))
           /\ cmd = READ_ALL => Response(cmd, n) = Everything
<1>1. /\ cmd <= 4 => cmd \in 1 .. 4 /\ cmd \notin 5 .. 8 /\ cmd # READ_ALL
      /\ cmd > 4 /\ cmd # READ_ALL => cmd \notin 1 .. 4 /\ cmd \in 5 .. 8
      /\ cmd = READ_ALL => cmd \notin 1 .. 4 /\ cmd \notin 5 .. 8
  BY DEF READ_ALL
<1>2. cmd \in 1 .. 4 /\ cmd \notin 5 .. 8 /\ cmd # READ_ALL =>
        Response(cmd, n) = OneRegister(TableOf(cmd), n)
  BY Zenon DEF Response
<1>3. cmd \notin 1 .. 4 /\ cmd \in 5 .. 8 /\ cmd # READ_ALL =>
        Response(cmd, n) = WholeTable(TableOf(cmd))
  BY Zenon DEF Response
<1>4. cmd \notin 1 .. 4 /\ cmd \notin 5 .. 8 /\ cmd = READ_ALL =>
        Response(cmd, n) = Everything
  BY Zenon DEF Response
<1> QED
  BY <1>1, <1>2, <1>3, <1>4

LEMMA TwoWrites ==
    ASSUME NEW h \in Bytes, NEW b \in Bytes
    PROVE  /\ <<h>> \in Writes /\ <<h, b>> \in Writes
           /\ Then(<<h>>, <<b>>) = <<h, b>>
<1>1. <<h>> \in Writes /\ <<h, b>> \in Writes
  BY DEF Writes
<1> DEFINE t == Then(<<h>>, <<b>>)
<1>2. <<h>> \in Seq(Bytes) /\ <<b>> \in Seq(Bytes)
  OBVIOUS
<1>3. /\ t \in Seq(Bytes) /\ Len(t) = Len(<<h>>) + Len(<<b>>)
      /\ \A i \in 1 .. Len(<<h>>) + Len(<<b>>) :
           t[i] = IF i <= Len(<<h>>) THEN <<h>>[i] ELSE <<b>>[i - Len(<<h>>)]
  BY <1>2, ThenIs
<1> HIDE DEF t
<1>4. Len(<<h>>) = 1 /\ Len(<<b>>) = 1 /\ <<h>>[1] = h /\ <<b>>[1] = b
  OBVIOUS
<1>5. Len(t) = 2 /\ t[1] = h /\ t[2] = b
  <2>1. Len(t) = 2 /\ \A i \in 1 .. 2 : t[i] = IF i <= 1 THEN <<h>>[i] ELSE <<b>>[i - 1]
    BY <1>3, <1>4
  <2> QED
    BY <1>4, <2>1
<1>6. t = <<h, b>>
  <2>1. <<h, b>> \in Seq(Bytes) /\ Len(<<h, b>>) = 2 /\ <<h, b>>[1] = h /\ <<h, b>>[2] = b
    OBVIOUS
  <2>2. \A i \in 1 .. 2 : t[i] = <<h, b>>[i]
    BY <1>5, <2>1
  <2> QED
    BY <1>3, <1>5, <2>1, <2>2, SeqEqual
<1> QED
  BY <1>1, <1>6 DEF t

LEMMA OneRegisterIs ==
    ASSUME NEW x \in Tables, NEW n \in Nat
    PROVE  /\ OneRegister(x, n) \in Writes
           /\ \E b \in Bytes :
                /\ Len(b) <= 2
                /\ Spells(OneRegister(x, n), Then(Bytes32(Len(b)), b))
                /\ Decode(x, FALSE, Len(b), b) = IF n < Size THEN <<Value(x, n)>> ELSE <<>>
<1>1. CASE n < Size
  <2> DEFINE b == IF x \in Words THEN Bytes16(Value(x, n)) ELSE <<Value(x, n)>>
             h == Bytes32(Len(b))
  <2>1. n \in 0 .. Size - 1
    BY <1>1, WireAssumption
  <2>2. Value(x, n) \in Byte
    BY <2>1, ValueIs
  <2>3. Bytes16(Value(x, n)) = <<0, Value(x, n)>>
    BY <2>2, SmallBytes16
  <2>4. b = IF x \in Words THEN <<0, Value(x, n)>> ELSE <<Value(x, n)>>
    BY <2>3
  <2>5. OneRegister(x, n) = <<h, b>>
    BY <1>1, Zenon DEF OneRegister
  <2> HIDE DEF b
  <2>6. 0 \in Byte
    BY DEF Byte
  <2>7. /\ b \in Seq(Byte) /\ b # <<>> /\ Len(b) \in 1 .. 2
        /\ x \in Words => Len(b) = 2 /\ b[1] = 0 /\ b[2] = Value(x, n)
        /\ x \notin Words => Len(b) = 1 /\ b[1] = Value(x, n)
    BY <2>2, <2>4, <2>6
  <2>8. h \in Bytes /\ Len(h) = 4
    BY <2>7, Bytes32Are
  <2>9. b \in Bytes
    BY <2>7 DEF Bytes
  <2> HIDE DEF h
  <2>10. h # <<>>
    BY <2>8, FourBytes
  <2>11. Spells(<<h>>, h) /\ Spells(<<b>>, b)
    BY <2>7, <2>8, <2>9, <2>10, SpellsOne
  <2>12. <<h>> \in Writes /\ <<b>> \in Writes /\ Then(<<h>>, <<b>>) = <<h, b>>
    BY <2>8, <2>9, TwoWrites
  <2>13. Spells(<<h, b>>, Then(h, b))
    BY <2>8, <2>9, <2>11, <2>12, SpellsBoth
  <2>14. Decode(x, FALSE, Len(b), b) = <<Value(x, n)>>
    <3>1. CASE x \in Words
      <4>1. Len(b) >= 2
        <5>1. Len(b) = 2
          BY <2>7, <3>1, Zenon
        <5> QED
          BY <5>1
      <4>2. Decode(x, FALSE, Len(b), b) = <<256 * b[1] + b[2]>>
        BY <2>9, <3>1, <4>1, DecodeOne
      <4>3. Value(x, n) \in Int
        BY <2>2 DEF Byte
      <4>4. 256 * b[1] + b[2] = Value(x, n)
        BY <2>7, <3>1, <4>3
      <4> QED
        BY <4>2, <4>4
    <3>2. CASE x \notin Words
      BY <2>7, <2>9, <3>2, DecodeOne
    <3> QED
      BY <3>1, <3>2
  <2>15. Spells(OneRegister(x, n), Then(Bytes32(Len(b)), b))
    BY <2>5, <2>13, Zenon DEF h
  <2>16. Len(b) <= 2
    <3>1. \A l \in 1 .. 2 : l <= 2
      OBVIOUS
    <3> QED
      BY <2>7, <3>1
  <2>17. OneRegister(x, n) \in Writes
    BY <2>5, <2>8, <2>9, TwoWrites
  <2> QED
    BY <1>1, <2>9, <2>14, <2>15, <2>16, <2>17
<1>2. CASE ~(n < Size)
  <2>1. OneRegister(x, n) = <<Bytes32(0)>>
    BY <1>2, Zenon DEF OneRegister, NoResponse
  <2>2. Bytes32(0) \in Bytes /\ Len(Bytes32(0)) = 4
    BY Bytes32Are
  <2>3. Bytes32(0) # <<>>
    BY <2>2, FourBytes
  <2>4. Spells(<<Bytes32(0)>>, Bytes32(0))
    BY <2>2, <2>3, SpellsOne
  <2>5. Then(Bytes32(0), <<>>) = Bytes32(0)
    BY <2>2, ThenEmpty DEF Bytes
  <2>6. <<>> \in Bytes /\ Len(<<>>) = 0
    BY EmptySeq DEF Bytes
  <2>7. Decode(x, FALSE, Len(<<>>), <<>>) = <<>>
    BY <2>6, DecodeOne
  <2>8. Spells(OneRegister(x, n), Then(Bytes32(Len(<<>>)), <<>>))
    BY <2>1, <2>4, <2>5, <2>6
  <2>9. Len(<<>>) <= 2
    OBVIOUS
  <2>10. OneRegister(x, n) \in Writes
    BY <2>1, <2>2, TwoWrites
  <2> QED
    BY <1>2, <2>6, <2>7, <2>8, <2>9, <2>10
<1> QED
  BY <1>1, <1>2

(* The words of a table, two bytes each. *)
LEMMA WordsAre ==
    ASSUME NEW x \in Words
    PROVE  \E b \in Bytes :
             /\ Len(b) = 2 * Size
             /\ [i \in 1 .. Size |-> Bytes16(Value(x, i - 1))] \in Writes
             /\ Spells([i \in 1 .. Size |-> Bytes16(Value(x, i - 1))], b)
             /\ Decode(x, TRUE, Len(b), b) = [i \in 1 .. Size |-> Value(x, i - 1)]
<1> DEFINE val(i) == Value(x, i - 1)
           w == [i \in 1 .. Size |-> Bytes16(Value(x, i - 1))]
           b == [i \in 1 .. 2 * Size |-> IF i % 2 = 1 THEN 0 ELSE val(i \div 2)]
<1>1. Size \in Nat \ {0} /\ x \in Tables
  BY WireAssumption DEF Words, Tables
<1>2. \A i \in 1 .. Size : val(i) \in Byte
  <2>1. ASSUME NEW i \in 1 .. Size PROVE Value(x, i - 1) \in Byte
    <3>1. i - 1 \in 0 .. Size - 1
      BY <1>1
    <3> QED
      BY <1>1, <3>1, ValueIs
  <2> QED
    BY <2>1
<1>3. \A i \in 1 .. Size : w[i] = <<0, val(i)>>
  BY <1>2, SmallBytes16
<1> HIDE DEF val
<1>4. \A i \in 1 .. 2 * Size : (IF i % 2 = 1 THEN 0 ELSE val(i \div 2)) \in Byte
  <2>1. ASSUME NEW i \in 1 .. 2 * Size, i % 2 # 1 PROVE val(i \div 2) \in Byte
    <3>1. i \div 2 \in 1 .. Size
      BY <1>1, <2>1
    <3> QED
      BY <1>2, <3>1
  <2>2. 0 \in Byte
    BY DEF Byte
  <2> QED
    BY <2>1, <2>2
<1>5. b \in Seq(Byte) /\ Len(b) = 2 * Size
  BY <1>1, <1>4
<1>6. ASSUME NEW k \in 1 .. Size PROVE b[2 * k - 1] = 0 /\ b[2 * k] = val(k)
  <2>1. /\ 2 * k - 1 \in 1 .. 2 * Size /\ 2 * k \in 1 .. 2 * Size
        /\ (2 * k - 1) % 2 = 1 /\ (2 * k) % 2 = 0 /\ (2 * k) \div 2 = k
    BY <1>1
  <2>2. b[2 * k - 1] = 0
    BY <2>1
  <2>3. b[2 * k] = val((2 * k) \div 2)
    BY <2>1
  <2> QED
    BY <2>1, <2>2, <2>3
<1> HIDE DEF b
<1>7. w \in Seq(Bytes) /\ Len(w) = Size
  <2>1. \A i \in 1 .. Size : Bytes16(Value(x, i - 1)) \in Bytes
    <3>1. ASSUME NEW i \in 1 .. Size PROVE Bytes16(Value(x, i - 1)) \in Bytes
      <4>1. Value(x, i - 1) \in Int
        BY <1>2 DEF val, Byte
      <4> QED
        BY <4>1, Bytes16Are
    <3> QED
      BY <3>1
  <2> QED
    BY <1>1, <2>1
<1> HIDE DEF w
<1>8. b \in Bytes /\ w \in Writes
  BY <1>5, <1>7 DEF Bytes, Writes
<1>9. Spells(w, b)
  <2>1. ASSUME NEW k \in 1 .. Len(w)
        PROVE  Len(w[k]) = 2 /\ w[k][1] = b[2 * k - 1] /\ w[k][2] = b[2 * k]
    <3>1. k \in 1 .. Size
      BY <1>7
    <3>2. w[k] = <<0, val(k)>> /\ b[2 * k - 1] = 0 /\ b[2 * k] = val(k)
      BY <1>3, <1>6, <3>1
    <3>3. /\ Len(<<0, val(k)>>) = 2
          /\ <<0, val(k)>>[1] = 0 /\ <<0, val(k)>>[2] = val(k)
      OBVIOUS
    <3> QED
      BY <3>2, <3>3
  <2> QED
    BY <1>5, <1>7, <1>8, <2>1, SpellsPairs
<1>10. Decode(x, TRUE, Len(b), b) = [i \in 1 .. Size |-> Value(x, i - 1)]
  <2>1. Decode(x, TRUE, Len(b), b)
          = [i \in 1 .. Len(b) \div 2 |-> 256 * b[2 * i - 1] + b[2 * i]]
    BY <1>1, <1>8, DecodeAll
  <2>2. Len(b) \div 2 = Size
    BY <1>1, <1>5
  <2>3. \A i \in 1 .. Size : 256 * b[2 * i - 1] + b[2 * i] = Value(x, i - 1)
    <3>1. ASSUME NEW i \in 1 .. Size PROVE 256 * b[2 * i - 1] + b[2 * i] = Value(x, i - 1)
      <4>1. val(i) \in Int
        BY <1>2 DEF Byte
      <4>2. 256 * b[2 * i - 1] + b[2 * i] = val(i)
        BY <1>6, <4>1
      <4> QED
        BY <4>2 DEF val
    <3> QED
      BY <3>1
  <2> QED
    BY <2>1, <2>2, <2>3
<1> QED
  BY <1>5, <1>8, <1>9, <1>10 DEF w

LEMMA WholeTableIs ==
    ASSUME NEW x \in Tables
    PROVE  /\ WholeTable(x) \in Writes
           /\ \E b \in Bytes :
                /\ Len(b) = IF x \in Words THEN 2 * Size ELSE Size
                /\ Spells(WholeTable(x), Then(Bytes32(Len(b)), b))
                /\ Decode(x, TRUE, Len(b), b) = [i \in 1 .. Size |-> Value(x, i - 1)]
<1>1. CASE x \in Words
  <2> DEFINE w == [i \in 1 .. Size |-> Bytes16(Value(x, i - 1))]
             h == Bytes32(2 * Size)
  <2>1. PICK b \in Bytes : /\ Len(b) = 2 * Size /\ w \in Writes /\ Spells(w, b)
                           /\ Decode(x, TRUE, Len(b), b) = [i \in 1 .. Size |-> Value(x, i - 1)]
    BY <1>1, WordsAre
  <2>2. WholeTable(x) = Then(<<h>>, w)
    BY <1>1, Zenon DEF WholeTable, Then
  <2> HIDE DEF w
  <2>3. h \in Bytes /\ Len(h) = 4
    BY WireAssumption, Bytes32Are
  <2> HIDE DEF h
  <2>4. h # <<>>
    BY <2>3, FourBytes
  <2>5. <<h>> \in Writes /\ Spells(<<h>>, h)
    BY <2>3, <2>4, SpellsOne, TwoWrites
  <2>6. Spells(Then(<<h>>, w), Then(h, b))
    BY <2>1, <2>3, <2>5, SpellsBoth
  <2>7. Then(<<h>>, w) \in Writes
    BY <2>1, <2>5, ThenIs DEF Writes
  <2>8. h = Bytes32(Len(b))
    BY <2>1 DEF h
  <2> QED
    BY <1>1, <2>1, <2>2, <2>6, <2>7, <2>8
<1>2. CASE x \notin Words
  <2> DEFINE b == [i \in 1 .. Size |-> Value(x, i - 1)]
             h == Bytes32(Size)
  <2>1. \A i \in 1 .. Size : Value(x, i - 1) \in Byte
    <3>1. ASSUME NEW i \in 1 .. Size PROVE Value(x, i - 1) \in Byte
      <4>1. i - 1 \in 0 .. Size - 1
        BY WireAssumption
      <4> QED
        BY <4>1, ValueIs
    <3> QED
      BY <3>1
  <2>2. b \in Seq(Byte) /\ Len(b) = Size
    BY <2>1, WireAssumption
  <2>3. WholeTable(x) = <<h, b>>
    BY <1>2, Zenon DEF WholeTable
  <2> HIDE DEF b
  <2>4. b \in Bytes /\ b # <<>>
    BY <2>2, WireAssumption DEF Bytes
  <2>5. h \in Bytes /\ Len(h) = 4
    BY WireAssumption, Bytes32Are
  <2> HIDE DEF h
  <2>6. h # <<>>
    BY <2>5, FourBytes
  <2>7. /\ <<h>> \in Writes /\ <<b>> \in Writes /\ <<h, b>> \in Writes
        /\ Then(<<h>>, <<b>>) = <<h, b>>
    BY <2>4, <2>5, TwoWrites
  <2>8. Spells(<<h>>, h) /\ Spells(<<b>>, b)
    BY <2>4, <2>5, <2>6, SpellsOne
  <2>9. Spells(<<h, b>>, Then(h, b))
    BY <2>4, <2>5, <2>7, <2>8, SpellsBoth
  <2>10. Decode(x, TRUE, Len(b), b) = b
    BY <1>2, <2>4, DecodeAll
  <2>11. h = Bytes32(Len(b))
    BY <2>2 DEF h
  <2>12. Decode(x, TRUE, Len(b), b) = [i \in 1 .. Size |-> Value(x, i - 1)]
    BY <2>10, Zenon DEF b
  <2> QED
    BY <1>2, <2>2, <2>3, <2>4, <2>7, <2>9, <2>11, <2>12
<1> QED
  BY <1>1, <1>2

(* One more table after the size and what came before it. *)
LEMMA SpellsMore ==
    ASSUME NEW w \in Writes, NEW h \in Bytes, NEW b \in Bytes, Spells(w, Then(h, b)),
           NEW v \in Writes, NEW c \in Bytes, Spells(v, c)
    PROVE  /\ Then(w, v) \in Writes
           /\ Then(b, c) \in Bytes /\ Len(Then(b, c)) = Len(b) + Len(c)
           /\ Spells(Then(w, v), Then(h, Then(b, c)))
<1>1. Then(h, b) \in Bytes /\ Then(Then(h, b), c) = Then(h, Then(b, c))
  BY ThenIs, ThenAssociative DEF Bytes
<1>2. Then(w, v) \in Writes
  BY ThenIs DEF Writes
<1>3. Then(b, c) \in Bytes /\ Len(Then(b, c)) = Len(b) + Len(c)
  BY ThenIs DEF Bytes
<1>4. Spells(Then(w, v), Then(Then(h, b), c))
  BY <1>1, SpellsBoth
<1> QED
  BY <1>1, <1>2, <1>3, <1>4

LEMMA EverythingIs ==
    /\ Everything \in Writes
    /\ \E b \in Bytes : Len(b) = GetSize /\ Spells(Everything, Then(Bytes32(Len(b)), b))
<1> DEFINE h == Bytes32(GetSize)
           start == <<h>>
           T(x) == WholeTable(x)
<1>1. GetSize \in Nat /\ GetSize = (Size + 4) + (Size + 4) + (2 * Size + 4) + (2 * Size + 4)
  BY WireAssumption DEF GetSize
<1>2. h \in Bytes /\ Len(h) = 4
  BY <1>1, Bytes32Are
<1>3. Everything = Then(Then(Then(Then(start, T("coil")), T("discrete")), T("input")), T("holding"))
  BY Zenon DEF Everything, Then
<1> HIDE DEF T, h
<1>4. start \in Writes /\ Spells(start, Then(h, <<>>)) /\ <<>> \in Bytes /\ Len(<<>>) = 0
  <2>1. h # <<>>
    BY <1>2, FourBytes
  <2>2. Then(h, <<>>) = h
    BY <1>2, ThenEmpty DEF Bytes
  <2>3. <<>> \in Bytes
    BY EmptySeq DEF Bytes
  <2> QED
    BY <1>2, <2>1, <2>2, <2>3, SpellsOne, TwoWrites
<1> HIDE DEF start
<1>5. \A x \in Tables : /\ T(x) \in Writes
                        /\ \E c \in Bytes : Len(c) = (IF x \in Words THEN 2 * Size ELSE Size) + 4
                                            /\ Spells(T(x), c)
  <2>1. ASSUME NEW x \in Tables
        PROVE  /\ T(x) \in Writes
               /\ \E c \in Bytes : Len(c) = (IF x \in Words THEN 2 * Size ELSE Size) + 4
                                   /\ Spells(T(x), c)
    <3>1. /\ T(x) \in Writes
          /\ \E b \in Bytes : /\ Len(b) = IF x \in Words THEN 2 * Size ELSE Size
                              /\ Spells(T(x), Then(Bytes32(Len(b)), b))
      BY WholeTableIs DEF T
    <3>2. PICK b \in Bytes : /\ Len(b) = IF x \in Words THEN 2 * Size ELSE Size
                             /\ Spells(T(x), Then(Bytes32(Len(b)), b))
      BY <3>1
    <3>3. Len(b) \in Nat
      BY LenProperties DEF Bytes
    <3>4. Bytes32(Len(b)) \in Bytes /\ Len(Bytes32(Len(b))) = 4
      BY <3>3, Bytes32Are
    <3>5. /\ Then(Bytes32(Len(b)), b) \in Bytes
          /\ Len(Then(Bytes32(Len(b)), b)) = Len(Bytes32(Len(b))) + Len(b)
      BY <3>4, ThenIs DEF Bytes
    <3>6. 4 + Len(b) = Len(b) + 4
      BY <3>3
    <3>7. Len(Then(Bytes32(Len(b)), b)) = (IF x \in Words THEN 2 * Size ELSE Size) + 4
      BY <3>2, <3>4, <3>5, <3>6, Zenon
    <3> QED
      BY <3>1, <3>2, <3>5, <3>7, Zenon
  <2> QED
    BY <2>1
<1>6. /\ "coil" \in Tables \ Words /\ "discrete" \in Tables \ Words
      /\ "input" \in Tables \cap Words /\ "holding" \in Tables \cap Words
  BY DEF Tables, Words
<1>7. PICK c1 \in Bytes : Len(c1) = Size + 4 /\ Spells(T("coil"), c1)
  BY <1>5, <1>6
<1>8. PICK c2 \in Bytes : Len(c2) = Size + 4 /\ Spells(T("discrete"), c2)
  BY <1>5, <1>6
<1>9. PICK c3 \in Bytes : Len(c3) = 2 * Size + 4 /\ Spells(T("input"), c3)
  BY <1>5, <1>6
<1>10. PICK c4 \in Bytes : Len(c4) = 2 * Size + 4 /\ Spells(T("holding"), c4)
  BY <1>5, <1>6
<1>11. \A x \in {"coil", "discrete", "input", "holding"} : T(x) \in Writes
  BY <1>5, <1>6
<1> DEFINE w1 == Then(start, T("coil"))
           b1 == Then(<<>>, c1)
           w2 == Then(w1, T("discrete"))
           b2 == Then(b1, c2)
           w3 == Then(w2, T("input"))
           b3 == Then(b2, c3)
           w4 == Then(w3, T("holding"))
           b4 == Then(b3, c4)
<1>12. w1 \in Writes /\ b1 \in Bytes /\ Len(b1) = 0 + Len(c1) /\ Spells(w1, Then(h, b1))
  BY <1>2, <1>4, <1>7, <1>11, SpellsMore
<1> HIDE DEF w1, b1
<1>13. w2 \in Writes /\ b2 \in Bytes /\ Len(b2) = Len(b1) + Len(c2) /\ Spells(w2, Then(h, b2))
  BY <1>2, <1>8, <1>11, <1>12, SpellsMore
<1> HIDE DEF w2, b2
<1>14. w3 \in Writes /\ b3 \in Bytes /\ Len(b3) = Len(b2) + Len(c3) /\ Spells(w3, Then(h, b3))
  BY <1>2, <1>9, <1>11, <1>13, SpellsMore
<1> HIDE DEF w3, b3
<1>15. w4 \in Writes /\ b4 \in Bytes /\ Len(b4) = Len(b3) + Len(c4) /\ Spells(w4, Then(h, b4))
  BY <1>2, <1>10, <1>11, <1>14, SpellsMore
<1>16. Everything = w4
  BY <1>3 DEF w1, w2, w3
<1> HIDE DEF w4, b4
<1>17. Len(b4) = GetSize
  BY <1>1, <1>7, <1>8, <1>9, <1>10, <1>12, <1>13, <1>14, <1>15, WireAssumption
<1>18. h = Bytes32(Len(b4))
  BY <1>17 DEF h
<1> QED
  BY <1>15, <1>16, <1>17, <1>18

(* A request has a response, whatever its number. *)
LEMMA ResponseTyped ==
    ASSUME NEW cmd \in Byte, NEW n \in Nat
    PROVE  Response(cmd, n) \in Writes
<1>1. CASE cmd \in 1 .. READ_ALL
  <2>1. cmd # READ_ALL => cmd \in 1 .. 8
    BY <1>1 DEF READ_ALL
  <2>2. cmd # READ_ALL => TableOf(cmd) \in Tables
    BY <2>1, TableOfIs
  <2>3. cmd <= 4 \/ (cmd > 4 /\ cmd # READ_ALL) \/ cmd = READ_ALL
    BY <1>1 DEF READ_ALL
  <2>4. cmd <= 4 => cmd # READ_ALL
    BY DEF READ_ALL
  <2>5. cmd # READ_ALL => OneRegister(TableOf(cmd), n) \in Writes /\ WholeTable(TableOf(cmd)) \in Writes
    BY <2>2, OneRegisterIs, WholeTableIs
  <2> QED
    BY <1>1, <2>3, <2>4, <2>5, ResponseIs, EverythingIs
<1>2. CASE cmd \notin 1 .. READ_ALL
  <2>1. cmd \notin 1 .. 4 /\ cmd \notin 5 .. 8 /\ cmd # READ_ALL
    BY <1>2 DEF READ_ALL
  <2>2. Response(cmd, n) = <<>>
    BY <2>1, Zenon DEF Response
  <2> QED
    BY <2>2, EmptySeq DEF Writes
<1> QED
  BY <1>1, <1>2

LEMMA MessageExists ==
    ASSUME NEW r, Legit(r)
    PROVE  \E b : Message(r, b)
<1> DEFINE cmd == r.cmd
           n == r.number % 65536
           x == r.table
<1>1. /\ cmd \in 1 .. READ_ALL /\ x \in Tables /\ n \in Nat
      /\ cmd # READ_ALL => x = TableOf(cmd)
  <2>1. cmd \in 1 .. READ_ALL /\ x \in Tables /\ r.number \in Int
    BY DEF Legit
  <2> QED
    BY <2>1 DEF Legit
<1>2. Answer(r) = IF cmd > 4 THEN [i \in 1 .. Size |-> Value(x, i - 1)]
                     ELSE IF n < Size THEN <<Value(x, n)>> ELSE <<>>
  BY DEF Answer
<1>3. ASSUME NEW b \in Bytes, Len(b) < 65536,
             Spells(Response(cmd, n), Then(Bytes32(Len(b)), b)),
             cmd # READ_ALL => Decode(x, cmd > 4, Len(b), b) = Answer(r)
      PROVE  Message(r, b)
  BY <1>3 DEF Message
<1> HIDE DEF cmd, n, x
<1>4. x \in Tables /\ n \in Nat
  BY <1>1
<1>5. CASE cmd <= 4
  <2>1. cmd # READ_ALL
    BY <1>5 DEF READ_ALL
  <2>2. Response(cmd, n) = OneRegister(x, n)
    BY <1>1, <1>5, <2>1, ResponseIs
  <2>3. PICK b \in Bytes :
          /\ Len(b) <= 2
          /\ Spells(OneRegister(x, n), Then(Bytes32(Len(b)), b))
          /\ Decode(x, FALSE, Len(b), b) = IF n < Size THEN <<Value(x, n)>> ELSE <<>>
    BY <1>4, OneRegisterIs, Zenon
  <2>4. ~(cmd > 4) /\ (cmd > 4) = FALSE
    BY <1>1, <1>5
  <2>5. Answer(r) = IF n < Size THEN <<Value(x, n)>> ELSE <<>>
    BY <1>2, <2>4, Zenon
  <2>6. Decode(x, cmd > 4, Len(b), b) = Answer(r)
    BY <2>3, <2>4, <2>5, Zenon
  <2>7. Len(b) < 65536
    <3>1. Len(b) \in Nat
      BY LenProperties DEF Bytes
    <3> QED
      BY <2>3, <3>1
  <2> QED
    BY <1>3, <2>2, <2>3, <2>6, <2>7
<1>6. CASE cmd > 4 /\ cmd # READ_ALL
  <2>1. Response(cmd, n) = WholeTable(x)
    BY <1>1, <1>6, ResponseIs
  <2>2. PICK b \in Bytes :
          /\ Len(b) = IF x \in Words THEN 2 * Size ELSE Size
          /\ Spells(WholeTable(x), Then(Bytes32(Len(b)), b))
          /\ Decode(x, TRUE, Len(b), b) = [i \in 1 .. Size |-> Value(x, i - 1)]
    BY <1>4, WholeTableIs, Zenon
  <2>3. cmd > 4 /\ (cmd > 4) = TRUE
    BY <1>1, <1>6
  <2>4. Answer(r) = [i \in 1 .. Size |-> Value(x, i - 1)]
    BY <1>2, <2>3, Zenon
  <2>5. Decode(x, cmd > 4, Len(b), b) = Answer(r)
    BY <2>2, <2>3, <2>4, Zenon
  <2>6. Len(b) < 65536
    BY <2>2, WireAssumption
  <2> QED
    BY <1>3, <2>1, <2>2, <2>5, <2>6
<1>7. CASE cmd = READ_ALL
  <2>1. Response(cmd, n) = Everything
    BY <1>1, <1>7, ResponseIs
  <2>2. PICK b \in Bytes : Len(b) = GetSize /\ Spells(Everything, Then(Bytes32(Len(b)), b))
    BY EverythingIs
  <2>3. GetSize < 65536
    BY WireAssumption DEF GetSize
  <2> QED
    BY <1>3, <1>7, <2>1, <2>2, <2>3
<1>8. cmd <= 4 \/ (cmd > 4 /\ cmd # READ_ALL) \/ cmd = READ_ALL
  BY <1>1 DEF READ_ALL
<1> QED
  BY <1>5, <1>6, <1>7, <1>8

-----------------------------------------------------------------------------
(* The bytes of a call.  What has been read, what is under way and what    *)
(* the server has still to write make the response, or its payload.        *)
Remains(l, d, o, g, b) ==
    \E rest \in Bytes :
        /\ Then(g, Then(d, rest)) = b
        /\ IF l = "up" THEN Spells(o, rest) ELSE o = <<>>

Sized(b) == Then(Bytes32(Len(b)), b)

(* A thread at a place of a call with request r, of which it has read the  *)
(* bytes g and needs n, on a connection l with u and d under way and o to  *)
(* be written by the server.                                               *)
Stage(place, l, u, d, o, g, n, r) ==
    /\ place = "arg" =>
         u = (IF l = "up" THEN <<r.cmd>> ELSE <<>>) /\ d = <<>> /\ o = <<>>
    /\ place = "size" =>
         /\ n = 4
         /\ \/ /\ l = "up" /\ u = <<r.cmd>> \o Bytes16(r.number)
               /\ d = <<>> /\ o = <<>> /\ g = <<>>
            \/ u = <<>> /\ \E b \in Bytes : Message(r, b) /\ Remains(l, d, o, g, Sized(b))
    /\ place = "data" =>
         u = <<>> /\ \E b \in Bytes : Message(r, b) /\ n = Len(b) /\ Remains(l, d, o, g, b)

LEMMA SizedIs ==
    ASSUME NEW b \in Bytes
    PROVE  /\ Bytes32(Len(b)) \in Bytes /\ Len(Bytes32(Len(b))) = 4
           /\ Sized(b) \in Bytes /\ Len(Sized(b)) = 4 + Len(b)
<1>1. Len(b) \in Nat
  BY LenProperties DEF Bytes
<1>2. Bytes32(Len(b)) \in Bytes /\ Len(Bytes32(Len(b))) = 4
  BY <1>1, Bytes32Are
<1> DEFINE h == Bytes32(Len(b))
<1>3. h \in Seq(Byte) /\ b \in Seq(Byte) /\ Len(h) = 4
  BY <1>2 DEF Bytes
<1> HIDE DEF h
<1>4. Then(h, b) \in Seq(Byte) /\ Len(Then(h, b)) = Len(h) + Len(b)
  <2>1. h \in Seq(Byte) /\ b \in Seq(Byte)
    BY <1>3
  <2> QED
    BY <2>1, ThenIs
<1>5. Sized(b) \in Bytes /\ Len(Sized(b)) = 4 + Len(b)
  BY <1>3, <1>4, Zenon DEF Sized, Bytes, h
<1> QED
  BY <1>2, <1>5

LEMMA Nothing0 == <<>> \in Bytes /\ <<>> \in Writes /\ Len(<<>>) = 0
BY EmptySeq DEF Bytes, Writes

LEMMA AtArg ==
    ASSUME NEW l \in {"up", "lost"}, NEW g, NEW n, NEW r
    PROVE  Stage("arg", l, IF l = "up" THEN <<r.cmd>> ELSE <<>>, <<>>, <<>>, g, n, r)
BY DEF Stage

(* The request has been written, or lost on its way. *)
LEMMA AtSize ==
    ASSUME NEW l \in {"up", "lost"}, NEW u, NEW d, NEW o, NEW g, NEW n, NEW r, Legit(r),
           Stage("arg", l, u, d, o, g, n, r)
    PROVE  Stage("size", l, IF l = "up" THEN u \o Bytes16(r.number) ELSE u, d, o, <<>>, 4, r)
<1>1. u = (IF l = "up" THEN <<r.cmd>> ELSE <<>>) /\ d = <<>> /\ o = <<>>
  BY DEF Stage
<1>2. CASE l = "up"
  BY <1>1, <1>2 DEF Stage
<1>3. CASE l = "lost"
  <2>1. PICK b : Message(r, b)
    BY MessageExists
  <2>2. b \in Bytes /\ Sized(b) \in Bytes
    BY <2>1, SizedIs DEF Message
  <2>3. Then(<<>>, Then(<<>>, Sized(b))) = Sized(b)
    BY <2>2, ThenEmpty DEF Bytes
  <2>4. Remains(l, d, o, <<>>, Sized(b))
    BY <1>1, <1>3, <2>2, <2>3 DEF Remains
  <2> QED
    BY <1>1, <1>3, <2>1, <2>2, <2>4 DEF Stage
<1> QED
  BY <1>2, <1>3

LEMMA MessageShows ==
    ASSUME NEW r, NEW b, Message(r, b), r.cmd # READ_ALL
    PROVE  Decode(r.table, r.cmd > 4, Len(b), b) = Answer(r)
BY DEF Message

LEMMA ResponseSpells ==
    ASSUME NEW r, NEW b, Message(r, b),
           NEW cmd, cmd = r.cmd, NEW arg, arg = r.number % 65536
    PROVE  Spells(Response(cmd, arg), Sized(b))
BY DEF Message, Sized

LEMMA NotShort ==
    ASSUME NEW u, NEW c, Len(u) >= 3
    PROVE  u # <<c>> /\ u # <<>>
OBVIOUS

(* The server's switch. *)
LEMMA Served ==
    ASSUME NEW place \in {"arg", "size", "data"}, NEW u \in Bytes, NEW d, NEW o, NEW g, NEW n,
           NEW r, Legit(r), o = <<>>, Len(u) >= 3,
           Stage(place, "up", u, d, o, g, n, r),
           NEW cmd, cmd = u[1], NEW arg, arg = Number16(SubSeq(u, 2, 3)),
           NEW left, left = SubSeq(u, 4, Len(u))
    PROVE  Stage(place, "up", left, d, Response(cmd, arg), g, n, r)
<1>1. u # <<r.cmd>> /\ u # <<>>
  BY NotShort
<1>2. place = "size"
  <2>1. place = "arg" => u = <<r.cmd>>
    BY Zenon DEF Stage
  <2>2. place = "data" => u = <<>>
    BY Zenon DEF Stage
  <2> QED
    BY <1>1, <2>1, <2>2
<1>3. n = 4 /\ u = <<r.cmd>> \o Bytes16(r.number) /\ d = <<>> /\ g = <<>>
  BY <1>1, <1>2, Zenon DEF Stage
<1>4. r.cmd \in Int /\ r.number \in Int
  BY DEF Legit
<1> DEFINE a == Bytes16(r.number)
<1>5. a \in Bytes /\ Len(a) = 2 /\ Number16(a) = r.number % 65536
  BY <1>4, Bytes16Are
<1> HIDE DEF a
<1>6. <<r.cmd>> \in Seq(Int) /\ a \in Seq(Int)
  <2>1. Byte \subseteq Int
    BY DEF Byte
  <2>2. a \in Seq(Byte)
    BY <1>5 DEF Bytes
  <2>3. a \in Seq(Int)
    BY <2>1, <2>2, SeqMonotonic
  <2>4. <<r.cmd>> \in Seq(Int)
    BY <1>4
  <2> QED
    BY <2>3, <2>4
<1> DEFINE c == <<r.cmd>>
<1>7. c \in Seq(Int) /\ Len(c) = 1 /\ c[1] = r.cmd
  BY <1>6
<1>8. u = Then(c, a)
  BY <1>3 DEF Then, a
<1> HIDE DEF c
<1>9. /\ Len(u) = 3
      /\ \A i \in 1 .. 3 : u[i] = IF i <= 1 THEN c[i] ELSE a[i - 1]
  <2>1. /\ Len(u) = Len(c) + Len(a)
        /\ \A i \in 1 .. Len(c) + Len(a) : u[i] = IF i <= Len(c) THEN c[i] ELSE a[i - Len(c)]
    BY <1>6, <1>7, <1>8, ThenIs
  <2> QED
    BY <1>5, <1>7, <2>1
<1>10. u[1] = r.cmd /\ u[2] = a[1] /\ u[3] = a[2]
  BY <1>7, <1>9
<1> DEFINE v == SubSeq(u, 2, 3)
<1>11. v[1] = u[2] /\ v[2] = u[3]
  <2>1. \A i \in 2 .. 3 : u[i] \in Byte
    BY <1>9, EachByte
  <2>2. \A i \in 1 .. 3 - 2 + 1 : v[i] = u[2 + i - 1]
    BY <2>1, SubSeqProperties
  <2> HIDE DEF v
  <2>3. \A i \in 1 .. 2 : v[i] = u[2 + i - 1]
    BY <2>2
  <2> QED
    BY <2>3
<1> HIDE DEF v
<1>12. Number16(v) = r.number % 65536
  BY <1>5, <1>10, <1>11 DEF Number16
<1>13. SubSeq(u, 4, Len(u)) = <<>>
  BY <1>9, SubSeqEmpty
<1>14. Number16(SubSeq(u, 2, 3)) = r.number % 65536
  BY <1>12 DEF v
<1>15. cmd = r.cmd /\ arg = r.number % 65536 /\ left = <<>>
  BY <1>10, <1>13, <1>14
<1>16. PICK b : Message(r, b)
  BY MessageExists
<1>17. b \in Bytes /\ Sized(b) \in Bytes
  BY <1>16, SizedIs DEF Message
<1>18. Spells(Response(cmd, arg), Sized(b))
  BY <1>15, <1>16, ResponseSpells
<1>19. Then(<<>>, Then(<<>>, Sized(b))) = Sized(b)
  BY <1>17, ThenEmpty DEF Bytes
<1>20. Remains("up", d, Response(cmd, arg), g, Sized(b))
  BY <1>3, <1>17, <1>18, <1>19 DEF Remains
<1>21. Stage("size", "up", left, d, Response(cmd, arg), g, n, r)
  BY <1>3, <1>15, <1>16, <1>17, <1>20 DEF Stage
<1> QED
  BY <1>2, <1>21

(* A piece of a write of the server reaches the client's side. *)
LEMMA WriteArrives ==
    ASSUME NEW d \in Bytes, NEW o \in Writes, o # <<>>, NEW k \in 0 .. Len(Head(o)),
           NEW g \in Bytes, NEW b, Remains("up", d, o, g, b)
    PROVE  Remains("up", Then(d, Before(Head(o), k)), Uncut(o, k), g, b)
<1> DEFINE a == Before(Head(o), k)
<1>1. PICK rest \in Bytes : Then(g, Then(d, rest)) = b /\ Spells(o, rest)
  BY DEF Remains
<1>2. a \in Bytes
  BY SpellsCut
<1>3. PICK r \in Bytes : rest = Then(a, r) /\ Spells(Uncut(o, k), r)
  BY <1>1, SpellsCut
<1> HIDE DEF a
<1>4. Then(Then(d, a), r) = Then(d, rest)
  BY <1>2, <1>3, ThenAssociative DEF Bytes
<1>5. Then(g, Then(Then(d, a), r)) = b
  BY <1>1, <1>4
<1>6. Remains("up", Then(d, a), Uncut(o, k), g, b)
  BY <1>3, <1>5 DEF Remains
<1> QED
  BY <1>6 DEF a

LEMMA Delivered ==
    ASSUME NEW place \in {"arg", "size", "data"}, NEW u, NEW d \in Bytes, NEW o \in Writes,
           NEW g \in Bytes, NEW n, NEW r, o # <<>>, NEW k \in 0 .. Len(Head(o)),
           Stage(place, "up", u, d, o, g, n, r)
    PROVE  Stage(place, "up", u, Then(d, Before(Head(o), k)), Uncut(o, k), g, n, r)
<1> DEFINE e == Then(d, Before(Head(o), k))
           v == Uncut(o, k)
<1>1. \A b : Remains("up", d, o, g, b) => Remains("up", e, v, g, b)
  BY WriteArrives
<1> HIDE DEF e, v
<1>2. CASE place = "size"
  <2>1. /\ n = 4 /\ u = <<>>
        /\ \E b \in Bytes : Message(r, b) /\ Remains("up", d, o, g, Sized(b))
    BY <1>2, Zenon DEF Stage
  <2>2. \E b \in Bytes : Message(r, b) /\ Remains("up", e, v, g, Sized(b))
    BY <1>1, <2>1
  <2>3. Stage("size", "up", u, e, v, g, n, r)
    BY <2>1, <2>2 DEF Stage
  <2> QED
    BY <1>2, <2>3 DEF e, v
<1>3. CASE place = "data"
  <2>1. /\ u = <<>>
        /\ \E b \in Bytes : Message(r, b) /\ n = Len(b) /\ Remains("up", d, o, g, b)
    BY <1>3, Zenon DEF Stage
  <2>2. \E b \in Bytes : Message(r, b) /\ n = Len(b) /\ Remains("up", e, v, g, b)
    BY <1>1, <2>1
  <2>3. Stage("data", "up", u, e, v, g, n, r)
    BY <2>1, <2>2 DEF Stage
  <2> QED
    BY <1>3, <2>3 DEF e, v
<1>4. place # "arg"
  BY Zenon DEF Stage
<1> QED
  BY <1>2, <1>3, <1>4

(* The server's end goes, and takes along what it has not written, and     *)
(* perhaps what it has.                                                    *)
LEMMA RestLost ==
    ASSUME NEW d \in Bytes, NEW o, NEW g \in Bytes, NEW b,
           Remains("up", d, o, g, b), NEW e \in {d, <<>>}
    PROVE  Remains("lost", e, <<>>, g, b)
<1>1. PICK rest \in Bytes : Then(g, Then(d, rest)) = b
  BY DEF Remains
<1>2. CASE e = d
  BY <1>1, <1>2 DEF Remains
<1>3. CASE e = <<>>
  <2>1. Then(d, rest) \in Bytes
    BY ThenIs DEF Bytes
  <2>2. Then(<<>>, Then(d, rest)) = Then(d, rest)
    BY <2>1, ThenEmpty DEF Bytes
  <2> QED
    BY <1>1, <1>3, <2>1, <2>2 DEF Remains
<1> QED
  BY <1>2, <1>3

LEMMA Lost ==
    ASSUME NEW place \in {"arg", "size", "data"}, NEW u, NEW d \in Bytes, NEW o,
           NEW g \in Bytes, NEW n, NEW r, Legit(r), NEW e \in {d, <<>>},
           Stage(place, "up", u, d, o, g, n, r)
    PROVE  Stage(place, "lost", <<>>, e, <<>>, g, n, r)
<1>1. \A b : Remains("up", d, o, g, b) => Remains("lost", e, <<>>, g, b)
  BY RestLost
<1>2. CASE place = "arg"
  <2>1. d = <<>>
    BY <1>2, Zenon DEF Stage
  <2> QED
    BY <1>2, <2>1 DEF Stage
<1>3. CASE place = "size"
  <2>1. PICK b : Message(r, b)
    BY MessageExists
  <2>2. b \in Bytes /\ Sized(b) \in Bytes
    BY <2>1, SizedIs DEF Message
  <2>3. Then(<<>>, Then(<<>>, Sized(b))) = Sized(b)
    BY <2>2, ThenEmpty DEF Bytes
  <2>4. Remains("lost", <<>>, <<>>, <<>>, Sized(b))
    BY <2>2, <2>3 DEF Remains
  <2>5. /\ n = 4
        /\ \/ d = <<>> /\ g = <<>>
           \/ \E c \in Bytes : Message(r, c) /\ Remains("up", d, o, g, Sized(c))
    BY <1>3, Zenon DEF Stage
  <2>6. \E c \in Bytes : Message(r, c) /\ Remains("lost", e, <<>>, g, Sized(c))
    <3>1. CASE d = <<>> /\ g = <<>>
      <4>1. e = <<>>
        BY <3>1
      <4> QED
        BY <2>1, <2>2, <2>4, <3>1, <4>1
    <3>2. CASE \E c \in Bytes : Message(r, c) /\ Remains("up", d, o, g, Sized(c))
      BY <1>1, <3>2
    <3> QED
      BY <2>5, <3>1, <3>2
  <2>7. Stage("size", "lost", <<>>, e, <<>>, g, n, r)
    BY <2>5, <2>6 DEF Stage
  <2> QED
    BY <1>3, <2>7
<1>4. CASE place = "data"
  <2>1. /\ u = <<>>
        /\ \E b \in Bytes : Message(r, b) /\ n = Len(b) /\ Remains("up", d, o, g, b)
    BY <1>4, Zenon DEF Stage
  <2>2. \E b \in Bytes : Message(r, b) /\ n = Len(b) /\ Remains("lost", e, <<>>, g, b)
    BY <1>1, <2>1
  <2>3. Stage("data", "lost", <<>>, e, <<>>, g, n, r)
    BY <2>1, <2>2 DEF Stage
  <2> QED
    BY <1>4, <2>3
<1> QED
  BY <1>2, <1>3, <1>4

LEMMA EmptyThen ==
    ASSUME NEW a \in Bytes, NEW b \in Bytes, Then(a, b) = <<>>
    PROVE  a = <<>> /\ b = <<>>
<1>1. a \in Seq(Byte) /\ b \in Seq(Byte)
  BY DEF Bytes
<1>2. /\ Len(a) \in Nat /\ Len(b) \in Nat /\ Len(Then(a, b)) = Len(a) + Len(b)
  BY <1>1, ThenIs
<1>3. Len(Then(a, b)) = 0
  OBVIOUS
<1>4. Len(a) = 0 /\ Len(b) = 0
  BY <1>2, <1>3
<1> QED
  BY <1>1, <1>4, EmptySeq

(* A read takes k bytes: all of those under way, or as many as it needs. *)
LEMMA Taken ==
    ASSUME NEW l, NEW d \in Bytes, NEW o, NEW g \in Bytes, NEW b, Remains(l, d, o, g, b),
           NEW k \in 0 .. Len(d)
    PROVE  /\ Remains(l, Behind(d, k), o, Then(g, Before(d, k)), b)
           /\ Then(g, Before(d, k)) \in Bytes /\ Behind(d, k) \in Bytes
           /\ Len(Then(g, Before(d, k))) = Len(g) + k
<1>1. PICK rest \in Bytes : /\ Then(g, Then(d, rest)) = b
                            /\ IF l = "up" THEN Spells(o, rest) ELSE o = <<>>
  BY DEF Remains
<1>2. g \in Seq(Byte) /\ d \in Seq(Byte) /\ rest \in Seq(Byte)
  BY DEF Bytes
<1>3. /\ Then(g, Before(d, k)) \in Seq(Byte) /\ Behind(d, k) \in Seq(Byte)
      /\ Len(Then(g, Before(d, k))) = Len(g) + k
      /\ Then(Then(g, Before(d, k)), Then(Behind(d, k), rest)) = Then(g, Then(d, rest))
  BY <1>2, MovedPiece
<1>4. Remains(l, Behind(d, k), o, Then(g, Before(d, k)), b)
  BY <1>1, <1>3 DEF Remains
<1> QED
  BY <1>3, <1>4 DEF Bytes

(* Bytes that have been read as one piece of a response of two. *)
LEMMA PieceRead ==
    ASSUME NEW l, NEW d \in Bytes, NEW o, NEW g \in Bytes, NEW h \in Bytes, NEW b \in Bytes,
           Remains(l, d, o, g, Then(h, b)), Len(g) = Len(h)
    PROVE  g = h /\ Remains(l, d, o, <<>>, b)
<1>1. PICK rest \in Bytes : /\ Then(g, Then(d, rest)) = Then(h, b)
                            /\ IF l = "up" THEN Spells(o, rest) ELSE o = <<>>
  BY DEF Remains
<1>2. Then(d, rest) \in Bytes
  BY ThenIs DEF Bytes
<1>3. g = h /\ Then(d, rest) = b
  BY <1>1, <1>2, SamePieces DEF Bytes
<1>4. Then(<<>>, Then(d, rest)) = b
  BY <1>2, <1>3, ThenEmpty DEF Bytes
<1> QED
  BY <1>1, <1>3, <1>4 DEF Remains

LEMMA NothingRemains ==
    ASSUME NEW l, NEW d \in Bytes, NEW o \in Writes, Remains(l, d, o, <<>>, <<>>)
    PROVE  d = <<>> /\ o = <<>>
<1>1. PICK rest \in Bytes : /\ Then(<<>>, Then(d, rest)) = <<>>
                            /\ IF l = "up" THEN Spells(o, rest) ELSE o = <<>>
  BY DEF Remains
<1>2. Then(d, rest) \in Bytes
  BY ThenIs DEF Bytes
<1>3. Then(d, rest) = <<>>
  BY <1>1, <1>2, ThenEmpty DEF Bytes
<1>4. d = <<>> /\ rest = <<>>
  BY <1>3, EmptyThen
<1>5. Spells(o, <<>>) => o = <<>>
  BY SpellsNothing
<1> QED
  BY <1>1, <1>4, <1>5

(* Part of what a read needs. *)
LEMMA PartRead ==
    ASSUME NEW place \in {"size", "data"}, NEW l, NEW u, NEW d \in Bytes, NEW o, NEW g \in Bytes,
           NEW n, NEW r, Stage(place, l, u, d, o, g, n, r), d # <<>>, NEW k \in 0 .. Len(d)
    PROVE  Stage(place, l, u, Behind(d, k), o, Then(g, Before(d, k)), n, r)
<1> DEFINE e == Behind(d, k)
           f == Then(g, Before(d, k))
<1>1. \A b : Remains(l, d, o, g, b) => Remains(l, e, o, f, b)
  BY Taken
<1> HIDE DEF e, f
<1>2. CASE place = "size"
  <2>1. /\ n = 4 /\ u = <<>>
        /\ \E b \in Bytes : Message(r, b) /\ Remains(l, d, o, g, Sized(b))
    BY <1>2, Zenon DEF Stage
  <2>2. \E b \in Bytes : Message(r, b) /\ Remains(l, e, o, f, Sized(b))
    BY <1>1, <2>1
  <2>3. Stage("size", l, u, e, o, f, n, r)
    BY <2>1, <2>2 DEF Stage
  <2> QED
    BY <1>2, <2>3 DEF e, f
<1>3. CASE place = "data"
  <2>1. /\ u = <<>>
        /\ \E b \in Bytes : Message(r, b) /\ n = Len(b) /\ Remains(l, d, o, g, b)
    BY <1>3, Zenon DEF Stage
  <2>2. \E b \in Bytes : Message(r, b) /\ n = Len(b) /\ Remains(l, e, o, f, b)
    BY <1>1, <2>1
  <2>3. Stage("data", l, u, e, o, f, n, r)
    BY <2>1, <2>2 DEF Stage
  <2> QED
    BY <1>3, <2>3 DEF e, f
<1> QED
  BY <1>2, <1>3

(* The whole size: what follows is the payload, if there is one. *)
LEMMA SizeRead ==
    ASSUME NEW l, NEW u, NEW d \in Bytes, NEW o \in Writes, NEW g \in Bytes,
           NEW n, NEW r, Stage("size", l, u, d, o, g, n, r), Len(g) = n
    PROVE  /\ u = <<>>
           /\ \E b \in Bytes : /\ Message(r, b) /\ Number32(g) = Len(b)
                               /\ b = <<>> => d = <<>> /\ o = <<>>
                               /\ Stage("data", l, u, d, o, <<>>, Len(b), r)
<1>1. n = 4
  BY Zenon DEF Stage
<1>2. g # <<>>
  BY <1>1, FourBytes
<1>3. u = <<>> /\ \E b \in Bytes : Message(r, b) /\ Remains(l, d, o, g, Sized(b))
  BY <1>2, Zenon DEF Stage
<1>4. PICK b \in Bytes : Message(r, b) /\ Remains(l, d, o, g, Sized(b))
  BY <1>3
<1> DEFINE h == Bytes32(Len(b))
<1>5. h \in Bytes /\ Len(h) = 4
  BY SizedIs
<1>6. Sized(b) = Then(h, b)
  BY DEF Sized
<1>7. Number32(h) = Len(b)
  <2>1. Len(b) \in Nat
    BY LenProperties DEF Bytes
  <2>2. Len(b) < 65536
    BY <1>4 DEF Message
  <2> QED
    BY <2>1, <2>2, Bytes32Are
<1> HIDE DEF h
<1>8. g = h /\ Remains(l, d, o, <<>>, b)
  BY <1>1, <1>4, <1>5, <1>6, PieceRead
<1>9. b = <<>> => d = <<>> /\ o = <<>>
  BY <1>8, NothingRemains
<1>10. Stage("data", l, u, d, o, <<>>, Len(b), r)
  BY <1>3, <1>4, <1>8 DEF Stage
<1> QED
  BY <1>3, <1>4, <1>7, <1>8, <1>9, <1>10

(* The whole payload: nothing is left over. *)
LEMMA DataRead ==
    ASSUME NEW l, NEW u, NEW d \in Bytes, NEW o \in Writes, NEW g \in Bytes,
           NEW n, NEW r, Stage("data", l, u, d, o, g, n, r), Len(g) = n
    PROVE  u = <<>> /\ d = <<>> /\ o = <<>> /\ Message(r, g)
<1>1. u = <<>>
  BY Zenon DEF Stage
<1>2. PICK b \in Bytes : Message(r, b) /\ n = Len(b) /\ Remains(l, d, o, g, b)
  BY Zenon DEF Stage
<1>3. Then(b, <<>>) = b
  BY ThenEmpty DEF Bytes
<1>4. g = b /\ Remains(l, d, o, <<>>, <<>>)
  BY <1>2, <1>3, PieceRead, Nothing0
<1>5. d = <<>> /\ o = <<>>
  BY <1>4, NothingRemains
<1> QED
  BY <1>1, <1>2, <1>4, <1>5

-----------------------------------------------------------------------------
(* The invariant. *)

MainPlaces == {"prompt", "cmd", "arg", "size", "data", "join", "exit"}
LoopPlaces == {"none", "begin", "check", "cmd", "arg", "size", "data", "done"}

StreamTypes ==
    /\ link \in {"closed", "up", "lost", "closing"}
    /\ up \in Bytes /\ down \in Bytes /\ outbox \in Writes

PlaceTypes ==
    /\ at \in [Threads -> MainPlaces \cup LoopPlaces]
    /\ at["main"] \in MainPlaces /\ at["loop"] \in LoopPlaces

Requests  == [cmd : 0 .. READ_ALL, table : Tables, number : Int]
Responses == [size : Int, got : Bytes, whole : BOOLEAN, mixed : BOOLEAN]

CallTypes ==
    /\ request \in [Threads -> Requests]
    /\ need \in [Threads -> Nat] /\ got \in [Threads -> Bytes]
    /\ shown \in [Threads -> Responses]

OtherTypes ==
    /\ running \in BOOLEAN /\ joinable \in BOOLEAN /\ mixed \in BOOLEAN
    /\ stray \in 0 .. MaxStray /\ commands \in 0 .. MaxCommands
    /\ fault \in {"none", "uncaught exception", "joinable thread", "invalid memory"}

TypeInv == StreamTypes /\ PlaceTypes /\ CallTypes /\ OtherTypes

(* A read is not over yet, the read of a size is one of four bytes. *)
ReadInv ==
    \A t \in Threads :
        /\ Reading(t) => Len(got[t]) < need[t]
        /\ at[t] = "size" => need[t] = 4

(* What the threads ask, and that there is one loop at a time. *)
AskInv ==
    /\ ~joinable => at["loop"] \in {"none", "done"}
    /\ \A t \in Threads : at[t] = "cmd" \/ InCall(t) => Legit(request[t])
    /\ at["main"] = "cmd" \/ InCall("main") => request["main"].cmd # READ_ALL

(* As long as calls have not overlapped: one thread at most is in a call,  *)
(* all bytes under way belong to its call, and there are none without it.  *)
StreamInv ==
    /\ link = "closed" => down = <<>>
    /\ link \in {"up", "lost"} /\ ~mixed =>
         /\ ~(InCall("main") /\ InCall("loop"))
         /\ ~InCall("main") /\ ~InCall("loop") => up = <<>> /\ down = <<>> /\ outbox = <<>>
         /\ \A t \in Threads : InCall(t) =>
              Stage(at[t], link, up, down, outbox, got[t], need[t], request[t])

ClientInv == TypeInv /\ ReadInv /\ AskInv /\ StreamInv /\ ShownIsAnswer

LEMMA TypesAre == TypeInv /\ ReadInv => ClientTypeOK
<1> SUFFICES ASSUME TypeInv, ReadInv PROVE ClientTypeOK
  OBVIOUS
<1>1. /\ link \in {"closed", "up", "lost", "closing"}
      /\ up \in Seq(0 .. 255) /\ down \in Seq(0 .. 255) /\ outbox \in Seq(Seq(0 .. 255))
  BY DEF TypeInv, StreamTypes, Writes, Bytes, Byte
<1>2. /\ at["main"] \in {"prompt", "cmd", "arg", "size", "data", "join", "exit"}
      /\ at["loop"] \in {"none", "begin", "check", "cmd", "arg", "size", "data", "done"}
      /\ request \in [Threads -> [cmd : 0 .. READ_ALL, table : Tables, number : Int]]
  BY DEF TypeInv, PlaceTypes, CallTypes, Requests, MainPlaces, LoopPlaces
<1>3. need \in [Threads -> Nat] /\ got \in [Threads -> Seq(0 .. 255)]
  BY DEF TypeInv, CallTypes, Bytes, Byte
<1>4. \A t \in Threads : at[t] \in {"size", "data"} => Len(got[t]) < need[t]
  BY DEF ReadInv, Reading
<1>5. /\ running \in BOOLEAN /\ joinable \in BOOLEAN /\ mixed \in BOOLEAN
      /\ stray \in 0 .. MaxStray /\ commands \in 0 .. MaxCommands
      /\ fault \in {"none", "uncaught exception", "joinable thread", "invalid memory"}
  BY DEF TypeInv, OtherTypes
<1> QED
  BY <1>1, <1>2, <1>3, <1>4, <1>5, Zenon DEF ClientTypeOK

LEMMA ClientInit == Init => ClientInv
<1> SUFFICES ASSUME Init PROVE ClientInv
  OBVIOUS
<1>1. at["main"] = "prompt" /\ at["loop"] = "none"
  BY DEF Init, Threads
<1>2. TypeInv
  <2>1. StreamTypes
    BY Nothing0 DEF Init, StreamTypes
  <2>2. PlaceTypes
    BY <1>1 DEF Init, PlaceTypes, MainPlaces, LoopPlaces
  <2>3. CallTypes
    <3>1. NoRequest \in Requests
      BY DEF NoRequest, Requests, READ_ALL, Tables
    <3>2. Nothing \in Responses
      BY Nothing0 DEF Nothing, Responses
    <3> QED
      BY <3>1, <3>2, Nothing0 DEF Init, CallTypes
  <2>4. OtherTypes
    <3>1. running \in BOOLEAN /\ joinable \in BOOLEAN /\ mixed \in BOOLEAN
      BY Zenon DEF Init
    <3>2. /\ stray \in 0 .. MaxStray /\ commands \in 0 .. MaxCommands
          /\ fault \in {"none", "uncaught exception", "joinable thread", "invalid memory"}
      BY ClientAssumption DEF Init
    <3> QED
      BY <3>1, <3>2, Zenon DEF OtherTypes
  <2> QED
    BY <2>1, <2>2, <2>3, <2>4 DEF TypeInv
<1>3. ReadInv
  BY <1>1 DEF ReadInv, Reading, Threads
<1>4. AskInv
  BY <1>1 DEF AskInv, InCall, Threads
<1>5. StreamInv
  BY DEF Init, StreamInv
<1>6. ShownIsAnswer
  BY DEF Init, ShownIsAnswer, Nothing, Threads
<1> QED
  BY <1>2, <1>3, <1>4, <1>5, <1>6 DEF ClientInv

(* Where a thread has a request, and what its place says about the bytes. *)
Calling == {"cmd", "arg", "size", "data"}

LEMMA OtherIs ==
    ASSUME NEW t \in Threads
    PROVE  /\ Other(t) \in Threads /\ Other(t) # t
           /\ \A s \in Threads : s = t \/ s = Other(t)
BY DEF Threads, Other

(* What has to be shown of the connection when one thread has gone on and  *)
(* the other is not in a call.                                             *)
LEMMA OneInCall ==
    ASSUME NEW t \in Threads,
           link' = "closed" => down' = <<>>,
           link' \in {"up", "lost"} /\ ~mixed' =>
             /\ ~InCall(Other(t))'
             /\ ~InCall(t)' => up' = <<>> /\ down' = <<>> /\ outbox' = <<>>
             /\ InCall(t)' => Stage(at'[t], link', up', down', outbox', got'[t], need'[t],
                                    request'[t])
    PROVE  StreamInv'
<1>1. ~(InCall(t)' /\ InCall(Other(t))') => ~(InCall("main")' /\ InCall("loop")')
  BY Zenon DEF Threads, Other
<1>2. InCall(t)' => InCall("main")' \/ InCall("loop")'
  BY DEF Threads
<1>3. link' \in {"up", "lost"} /\ ~mixed' =>
        /\ ~(InCall("main")' /\ InCall("loop")')
        /\ ~InCall("main")' /\ ~InCall("loop")' => up' = <<>> /\ down' = <<>> /\ outbox' = <<>>
  BY <1>1, <1>2
<1>4. ASSUME link' \in {"up", "lost"}, ~mixed', NEW s \in Threads, InCall(s)'
      PROVE  Stage(at'[s], link', up', down', outbox', got'[s], need'[s], request'[s])
  <2>1. s = t
    BY <1>4, OtherIs
  <2> QED
    BY <1>4, <2>1
<1> QED
  BY <1>3, <1>4, Zenon DEF StreamInv

(* A step in which no thread enters, goes on with or leaves a call, and    *)
(* which leaves the connection alone.                                      *)
LEMMA QuietStep ==
    ASSUME ClientInv, PlaceTypes', OtherTypes',
           UNCHANGED <<link, streams, calls, mixed>>,
           \A t \in Threads : at'[t] = at[t] \/ (at[t] \notin Calling /\ at'[t] \notin Calling),
           ~joinable' => at'["loop"] \in {"none", "done"}
    PROVE  ClientInv'
<1> USE DEF streams, calls
<1>1. TypeInv'
  BY DEF ClientInv, TypeInv, StreamTypes, CallTypes
<1>2. \A t \in Threads : at'[t] = at[t] \/ (at[t] \notin Calling /\ at'[t] \notin Calling)
  OBVIOUS
<1>3. \A t \in Threads : /\ Reading(t)' => Reading(t)
                         /\ at'[t] = "size" => at[t] = "size"
                         /\ at'[t] = "cmd" \/ InCall(t)' => at[t] = "cmd" \/ InCall(t)
                         /\ InCall(t)' <=> InCall(t)
                         /\ InCall(t)' => at'[t] = at[t]
  BY <1>2 DEF Calling, Reading, InCall
<1>4. ReadInv'
  BY <1>3 DEF ClientInv, ReadInv
<1>5. AskInv'
  <2>1. \A t \in Threads : at'[t] = "cmd" \/ InCall(t)' => Legit(request'[t])
    BY <1>3 DEF ClientInv, AskInv
  <2>2. at'["main"] = "cmd" \/ InCall("main")' => request'["main"].cmd # READ_ALL
    BY <1>3 DEF ClientInv, AskInv, Threads
  <2> QED
    BY <2>1, <2>2 DEF AskInv
<1>6. StreamInv'
  <2>1. /\ InCall("main")' <=> InCall("main")
        /\ InCall("loop")' <=> InCall("loop")
    BY <1>3 DEF Threads
  <2>2. link' = "closed" => down' = <<>>
    BY DEF ClientInv, StreamInv
  <2>3. link' \in {"up", "lost"} /\ ~mixed' =>
          /\ ~(InCall("main")' /\ InCall("loop")')
          /\ ~InCall("main")' /\ ~InCall("loop")' => up' = <<>> /\ down' = <<>> /\ outbox' = <<>>
    BY <2>1 DEF ClientInv, StreamInv
  <2>4. ASSUME link' \in {"up", "lost"}, ~mixed', NEW t \in Threads, InCall(t)'
        PROVE  Stage(at'[t], link', up', down', outbox', got'[t], need'[t], request'[t])
    <3>1. Stage(at[t], link, up, down, outbox, got[t], need[t], request[t])
      BY <1>3, <2>4 DEF ClientInv, StreamInv
    <3>2. at'[t] = at[t]
      BY <1>3, <2>4
    <3> QED
      BY <3>1, <3>2
  <2> QED
    BY <2>2, <2>3, <2>4, Zenon DEF StreamInv
<1>7. ShownIsAnswer'
  BY DEF ClientInv, ShownIsAnswer
<1> QED
  BY <1>1, <1>4, <1>5, <1>6, <1>7 DEF ClientInv

LEMMA TypedCounts ==
    ASSUME ClientInv, Typed
    PROVE  at["main"] = "prompt" /\ commands' \in 0 .. MaxCommands
<1>1. commands \in 0 .. MaxCommands /\ MaxCommands \in Nat
  BY ClientAssumption, Zenon DEF ClientInv, TypeInv, OtherTypes
<1> QED
  BY <1>1 DEF Typed

LEMMA KeepsRefuse == ClientInv /\ Refuse => ClientInv'
<1> SUFFICES ASSUME ClientInv, Refuse PROVE ClientInv'
  OBVIOUS
<1>1. PlaceTypes'
  BY DEF Refuse, ClientInv, TypeInv, PlaceTypes
<1>2. OtherTypes'
  BY TypedCounts DEF Refuse, globals, overlap, ClientInv, TypeInv, OtherTypes
<1>3. UNCHANGED <<link, streams, calls, mixed>> /\ UNCHANGED <<at, joinable>>
  BY DEF Refuse, globals, overlap
<1>4. ~joinable' => at'["loop"] \in {"none", "done"}
  BY <1>3 DEF ClientInv, AskInv
<1> QED
  BY <1>1, <1>2, <1>3, <1>4, QuietStep

(* The process is terminated by a word of the command. *)
LEMMA KeepsThrow ==
    ASSUME ClientInv, Typed, fault' \in {"uncaught exception", "invalid memory"},
           UNCHANGED <<link, streams, at, calls, globals, overlap>>
    PROVE  ClientInv'
<1>1. PlaceTypes'
  BY DEF ClientInv, TypeInv, PlaceTypes
<1>2. OtherTypes'
  BY TypedCounts DEF globals, overlap, ClientInv, TypeInv, OtherTypes
<1>3. UNCHANGED <<link, streams, calls, mixed>> /\ UNCHANGED <<at, joinable>>
  BY DEF globals, overlap
<1>4. ~joinable' => at'["loop"] \in {"none", "done"}
  BY <1>3 DEF ClientInv, AskInv
<1> QED
  BY <1>1, <1>2, <1>3, <1>4, QuietStep

LEMMA KeepsStart == ClientInv /\ Start => ClientInv'
<1> SUFFICES ASSUME ClientInv, Start PROVE ClientInv'
  OBVIOUS
<1>1. at["main"] = "prompt" /\ commands' \in 0 .. MaxCommands
  BY TypedCounts DEF Start
<1>2. UNCHANGED <<link, streams, calls, mixed>> /\ UNCHANGED <<running, overlap>>
  BY DEF Start, overlap
<1>3. CASE joinable
  <2>1. UNCHANGED <<at, joinable>> /\ fault' = "joinable thread"
    BY <1>3 DEF Start
  <2>2. PlaceTypes'
    BY <2>1 DEF ClientInv, TypeInv, PlaceTypes
  <2>3. OtherTypes'
    BY <1>1, <1>2, <2>1 DEF overlap, ClientInv, TypeInv, OtherTypes
  <2> QED
    BY <1>2, <1>3, <2>1, <2>2, <2>3, QuietStep
<1>4. CASE ~joinable
  <2>1. at' = [at EXCEPT !["loop"] = "begin"] /\ joinable' = TRUE /\ fault' = fault
    BY <1>4 DEF Start
  <2>2. PlaceTypes'
    BY <2>1 DEF ClientInv, TypeInv, PlaceTypes, MainPlaces, LoopPlaces, Threads
  <2>3. OtherTypes'
    BY <1>1, <1>2, <2>1 DEF overlap, ClientInv, TypeInv, OtherTypes
  <2>4. \A t \in Threads : at'[t] = at[t] \/ (at[t] \notin Calling /\ at'[t] \notin Calling)
    BY <1>4, <2>1 DEF ClientInv, TypeInv, PlaceTypes, AskInv, Calling, Threads
  <2> QED
    BY <1>2, <2>1, <2>2, <2>3, <2>4, QuietStep
<1> QED
  BY <1>3, <1>4

LEMMA KeepsStop == ClientInv /\ Stop => ClientInv'
<1> SUFFICES ASSUME ClientInv, Stop PROVE ClientInv'
  OBVIOUS
<1>1. at["main"] = "prompt" /\ commands' \in 0 .. MaxCommands
  BY TypedCounts DEF Stop
<1>2. /\ UNCHANGED <<link, streams, calls, mixed>> /\ UNCHANGED <<joinable, overlap, fault>>
      /\ running' = FALSE
      /\ at' = [at EXCEPT !["main"] = IF joinable THEN "join" ELSE "prompt"]
  BY DEF Stop, overlap
<1>3. PlaceTypes'
  BY <1>2 DEF ClientInv, TypeInv, PlaceTypes, MainPlaces, LoopPlaces, Threads
<1>4. OtherTypes'
  BY <1>1, <1>2 DEF overlap, ClientInv, TypeInv, OtherTypes
<1>5. \A t \in Threads : at'[t] = at[t] \/ (at[t] \notin Calling /\ at'[t] \notin Calling)
  BY <1>1, <1>2 DEF ClientInv, TypeInv, PlaceTypes, Calling, Threads
<1>6. ~joinable' => at'["loop"] \in {"none", "done"}
  BY <1>2 DEF ClientInv, TypeInv, PlaceTypes, AskInv, Threads
<1> QED
  BY <1>2, <1>3, <1>4, <1>5, <1>6, QuietStep

LEMMA KeepsJoin == ClientInv /\ Join => ClientInv'
<1> SUFFICES ASSUME ClientInv, Join PROVE ClientInv'
  OBVIOUS
<1>1. /\ UNCHANGED <<link, streams, calls, mixed>> /\ UNCHANGED <<running, commands, overlap, fault>>
      /\ at["loop"] = "done" /\ at["main"] = "join" /\ joinable' = FALSE
      /\ at' = [at EXCEPT !["main"] = "prompt"]
  BY DEF Join, Goto, overlap
<1>2. PlaceTypes'
  BY <1>1 DEF ClientInv, TypeInv, PlaceTypes, MainPlaces, LoopPlaces, Threads
<1>3. OtherTypes'
  BY <1>1 DEF overlap, ClientInv, TypeInv, OtherTypes
<1>4. \A t \in Threads : at'[t] = at[t] \/ (at[t] \notin Calling /\ at'[t] \notin Calling)
  BY <1>1 DEF ClientInv, TypeInv, PlaceTypes, Calling, Threads
<1>5. at'["loop"] = "done"
  BY <1>1 DEF ClientInv, TypeInv, PlaceTypes, Threads
<1> QED
  BY <1>1, <1>2, <1>3, <1>4, <1>5, QuietStep

LEMMA KeepsQuit == ClientInv /\ Quit => ClientInv'
<1> SUFFICES ASSUME ClientInv, Quit PROVE ClientInv'
  OBVIOUS
<1>1. /\ UNCHANGED <<link, streams, calls, mixed>> /\ UNCHANGED <<running, joinable, commands, overlap>>
      /\ at["main"] = "prompt" /\ at' = [at EXCEPT !["main"] = "exit"]
      /\ fault' \in {"none", "joinable thread"}
  BY DEF Quit, Goto, globals, overlap
<1>2. PlaceTypes'
  BY <1>1 DEF ClientInv, TypeInv, PlaceTypes, MainPlaces, LoopPlaces, Threads
<1>3. OtherTypes'
  BY <1>1 DEF overlap, ClientInv, TypeInv, OtherTypes
<1>4. \A t \in Threads : at'[t] = at[t] \/ (at[t] \notin Calling /\ at'[t] \notin Calling)
  BY <1>1 DEF ClientInv, TypeInv, PlaceTypes, Calling, Threads
<1>5. ~joinable' => at'["loop"] \in {"none", "done"}
  BY <1>1 DEF ClientInv, TypeInv, PlaceTypes, AskInv, Threads
<1> QED
  BY <1>1, <1>2, <1>3, <1>4, <1>5, QuietStep

LEMMA KeepsLoopBegin == ClientInv /\ LoopBegin => ClientInv'
<1> SUFFICES ASSUME ClientInv, LoopBegin PROVE ClientInv'
  OBVIOUS
<1>1. /\ UNCHANGED <<link, streams, calls, mixed>> /\ UNCHANGED <<joinable, commands, overlap, fault>>
      /\ at["loop"] = "begin" /\ at' = [at EXCEPT !["loop"] = "check"]
      /\ running' = TRUE
  BY DEF LoopBegin, Goto, overlap
<1>2. PlaceTypes'
  BY <1>1 DEF ClientInv, TypeInv, PlaceTypes, MainPlaces, LoopPlaces, Threads
<1>3. OtherTypes'
  BY <1>1 DEF overlap, ClientInv, TypeInv, OtherTypes
<1>4. \A t \in Threads : at'[t] = at[t] \/ (at[t] \notin Calling /\ at'[t] \notin Calling)
  BY <1>1 DEF ClientInv, TypeInv, PlaceTypes, Calling, Threads
<1>5. joinable'
  BY <1>1 DEF ClientInv, AskInv
<1> QED
  BY <1>1, <1>2, <1>3, <1>4, <1>5, QuietStep

(* The loop asks for everything. *)
LEMMA KeepsLoopCheck == ClientInv /\ LoopCheck => ClientInv'
<1> SUFFICES ASSUME ClientInv, LoopCheck PROVE ClientInv'
  OBVIOUS
<1> USE DEF streams
<1>1. /\ UNCHANGED <<link, up, down, outbox, need, got, shown, running, joinable, commands, mixed,
                     fault>>
      /\ at["loop"] = "check"
      /\ at' = [at EXCEPT !["loop"] = IF running THEN "cmd" ELSE "done"]
      /\ request' = [request EXCEPT !["loop"] = [NoRequest EXCEPT !.cmd = READ_ALL]]
  BY DEF LoopCheck, Goto, globals
<1>2. at \in [Threads -> MainPlaces \cup LoopPlaces] /\ request \in [Threads -> Requests]
  BY DEF ClientInv, TypeInv, PlaceTypes, CallTypes
<1>3. /\ "main" \in Threads /\ "loop" \in Threads
      /\ at'["main"] = at["main"] /\ request'["main"] = request["main"]
      /\ at'["loop"] \in {"cmd", "done"}
      /\ request'["loop"] = [NoRequest EXCEPT !.cmd = READ_ALL]
  BY <1>1, <1>2 DEF Threads
<1>4. [NoRequest EXCEPT !.cmd = READ_ALL] \in Requests /\ Legit([NoRequest EXCEPT !.cmd = READ_ALL])
  BY DEF NoRequest, Requests, Legit, READ_ALL, Tables
<1>5. \A t \in Threads : t = "main" \/ t = "loop"
  BY DEF Threads
<1>6. TypeInv'
  <2>1. StreamTypes'
    BY <1>1 DEF ClientInv, TypeInv, StreamTypes
  <2>2. PlaceTypes'
    BY <1>1, <1>2, <1>3 DEF ClientInv, TypeInv, PlaceTypes, LoopPlaces
  <2>3. CallTypes'
    BY <1>1, <1>2, <1>4 DEF ClientInv, TypeInv, CallTypes
  <2>4. OtherTypes'
    <3>1. stray' \in 0 .. MaxStray
      <4>1. stray \in 0 .. MaxStray /\ MaxStray \in Nat
        BY ClientAssumption, Zenon DEF ClientInv, TypeInv, OtherTypes
      <4>2. CASE mixed /\ running
        <5>1. stray < MaxStray /\ stray' = stray + 1
          BY <4>2 DEF LoopCheck
        <5> QED
          BY <4>1, <5>1
      <4>3. CASE ~(mixed /\ running)
        BY <4>1, <4>3 DEF LoopCheck
      <4> QED
        BY <4>2, <4>3
    <3> QED
      BY <1>1, <3>1, Zenon DEF ClientInv, TypeInv, OtherTypes
  <2> QED
    BY <2>1, <2>2, <2>3, <2>4 DEF TypeInv
<1>7. /\ InCall("main")' <=> InCall("main")
      /\ Reading("main")' <=> Reading("main")
      /\ ~InCall("loop") /\ ~InCall("loop")' /\ ~Reading("loop")'
  BY <1>1, <1>3 DEF InCall, Reading
<1>8. ReadInv'
  BY <1>1, <1>3, <1>5, <1>7 DEF ClientInv, ReadInv
<1>9. AskInv'
  <2>1. joinable
    BY <1>1 DEF ClientInv, AskInv
  <2>2. at'["main"] = "cmd" \/ InCall("main")' => Legit(request'["main"])
    BY <1>3, <1>7 DEF ClientInv, AskInv
  <2>3. Legit(request'["loop"])
    BY <1>3, <1>4
  <2>4. at'["main"] = "cmd" \/ InCall("main")' => request'["main"].cmd # READ_ALL
    BY <1>3, <1>7 DEF ClientInv, AskInv
  <2>5. joinable'
    BY <1>1, <2>1
  <2> QED
    BY <1>5, <2>2, <2>3, <2>4, <2>5 DEF AskInv
<1>10. StreamInv'
  <2>1. ~InCall("main")' => (link' \in {"up", "lost"} /\ ~mixed' =>
          up' = <<>> /\ down' = <<>> /\ outbox' = <<>>)
    BY <1>1, <1>7 DEF ClientInv, StreamInv
  <2>2. link' \in {"up", "lost"} /\ ~mixed' /\ InCall("main")' =>
          Stage(at'["main"], link', up', down', outbox', got'["main"], need'["main"],
                request'["main"])
    BY <1>1, <1>3, <1>7 DEF ClientInv, StreamInv
  <2>3. link' = "closed" => down' = <<>>
    BY <1>1 DEF ClientInv, StreamInv
  <2>4. Other("main") = "loop"
    BY DEF Other
  <2> QED
    BY <1>3, <1>7, <2>1, <2>2, <2>3, <2>4, OneInCall
<1>11. ShownIsAnswer'
  BY <1>1, <1>3 DEF ClientInv, ShownIsAnswer
<1> QED
  BY <1>6, <1>8, <1>9, <1>10, <1>11 DEF ClientInv

LEMMA KeepsAsk ==
    ASSUME ClientInv, Typed, NEW x \in Tables, NEW cmd, NEW n \in Int, Ask(cmd, x, n),
           cmd \in 1 .. 8, TableOf(cmd) = x
    PROVE  ClientInv'
<1> USE DEF streams
<1> DEFINE r == [cmd |-> cmd, table |-> x, number |-> n]
<1>1. /\ UNCHANGED <<link, up, down, outbox, need, got, running, joinable, mixed, stray, fault>>
      /\ at["main"] = "prompt" /\ at' = [at EXCEPT !["main"] = "cmd"]
      /\ request' = [request EXCEPT !["main"] = r]
      /\ shown' = [shown EXCEPT !["main"] = Nothing]
  BY DEF Ask, Goto, globals, overlap
<1>2. r \in Requests /\ Legit(r) /\ r.cmd # READ_ALL
  BY DEF Requests, Legit, READ_ALL
<1> HIDE DEF r
<1>3. /\ at \in [Threads -> MainPlaces \cup LoopPlaces] /\ request \in [Threads -> Requests]
      /\ shown \in [Threads -> Responses]
  BY DEF ClientInv, TypeInv, PlaceTypes, CallTypes
<1>4. /\ "main" \in Threads /\ "loop" \in Threads
      /\ at'["loop"] = at["loop"] /\ request'["loop"] = request["loop"]
      /\ at'["main"] = "cmd" /\ request'["main"] = r /\ shown'["main"] = Nothing
  BY <1>1, <1>3 DEF Threads
<1>5. \A t \in Threads : t = "main" \/ t = "loop"
  BY DEF Threads
<1>6. TypeInv'
  <2>1. StreamTypes'
    BY <1>1 DEF ClientInv, TypeInv, StreamTypes
  <2>2. PlaceTypes'
    BY <1>1, <1>3, <1>4 DEF ClientInv, TypeInv, PlaceTypes, MainPlaces
  <2>3. CallTypes'
    <3>1. Nothing \in Responses
      BY Nothing0 DEF Nothing, Responses
    <3> QED
      BY <1>1, <1>2, <1>3, <3>1 DEF ClientInv, TypeInv, CallTypes
  <2>4. OtherTypes'
    BY <1>1, TypedCounts, Zenon DEF ClientInv, TypeInv, OtherTypes
  <2> QED
    BY <2>1, <2>2, <2>3, <2>4 DEF TypeInv
<1>7. /\ InCall("loop")' <=> InCall("loop")
      /\ Reading("loop")' <=> Reading("loop")
      /\ ~InCall("main") /\ ~InCall("main")' /\ ~Reading("main")'
  BY <1>1, <1>4 DEF InCall, Reading
<1>8. ReadInv'
  BY <1>1, <1>4, <1>5, <1>7 DEF ClientInv, ReadInv
<1>9. AskInv'
  <2>1. ~joinable' => at'["loop"] \in {"none", "done"}
    BY <1>1, <1>4 DEF ClientInv, AskInv
  <2>2. at'["loop"] = "cmd" \/ InCall("loop")' => Legit(request'["loop"])
    BY <1>4, <1>7 DEF ClientInv, AskInv
  <2>3. Legit(request'["main"]) /\ request'["main"].cmd # READ_ALL
    BY <1>2, <1>4
  <2> QED
    BY <1>5, <2>1, <2>2, <2>3 DEF AskInv
<1>10. StreamInv'
  <2>1. ~InCall("loop")' => (link' \in {"up", "lost"} /\ ~mixed' =>
          up' = <<>> /\ down' = <<>> /\ outbox' = <<>>)
    BY <1>1, <1>7 DEF ClientInv, StreamInv
  <2>2. link' \in {"up", "lost"} /\ ~mixed' /\ InCall("loop")' =>
          Stage(at'["loop"], link', up', down', outbox', got'["loop"], need'["loop"],
                request'["loop"])
    BY <1>1, <1>4, <1>7 DEF ClientInv, StreamInv
  <2>3. link' = "closed" => down' = <<>>
    BY <1>1 DEF ClientInv, StreamInv
  <2>4. Other("loop") = "main"
    BY DEF Other
  <2> QED
    BY <1>4, <1>7, <2>1, <2>2, <2>3, <2>4, OneInCall
<1>11. ShownIsAnswer'
  BY <1>4 DEF Nothing, ShownIsAnswer
<1> QED
  BY <1>6, <1>8, <1>9, <1>10, <1>11 DEF ClientInv

LEMMA KeepsRead == ClientInv /\ Read => ClientInv'
<1> SUFFICES ASSUME ClientInv, Read PROVE ClientInv'
  OBVIOUS
<1>1. Typed
  BY DEF Read
<1>2. PICK x \in Named : \/ \E n \in Numbers : Ask(Code(x, FALSE), x, n)
                        \/ Ask(Code(x, TRUE), x, 0)
  BY Zenon DEF Read
<1>3. x \in Tables
  BY ClientAssumption
<1>4. CASE \E n \in Numbers : Ask(Code(x, FALSE), x, n)
  <2>1. PICK n \in Numbers : Ask(Code(x, FALSE), x, n)
    BY <1>4
  <2>2. n \in Int
    BY ClientAssumption
  <2>3. FALSE \in BOOLEAN
    OBVIOUS
  <2>4. Code(x, FALSE) \in 1 .. 8 /\ TableOf(Code(x, FALSE)) = x
    BY <1>3, <2>3, CodeIs, Zenon
  <2> DEFINE cmd == Code(x, FALSE)
  <2>5. Ask(cmd, x, n) /\ cmd \in 1 .. 8 /\ TableOf(cmd) = x
    BY <2>1, <2>4
  <2> HIDE DEF cmd
  <2> QED
    BY <1>1, <1>3, <2>2, <2>5, KeepsAsk
<1>5. CASE Ask(Code(x, TRUE), x, 0)
  <2>1. TRUE \in BOOLEAN
    OBVIOUS
  <2>2. Code(x, TRUE) \in 1 .. 8 /\ TableOf(Code(x, TRUE)) = x
    BY <1>3, <2>1, CodeIs, Zenon
  <2> DEFINE cmd == Code(x, TRUE)
  <2>3. Ask(cmd, x, 0) /\ cmd \in 1 .. 8 /\ TableOf(cmd) = x
    BY <1>5, <2>2
  <2> HIDE DEF cmd
  <2>4. 0 \in Int
    OBVIOUS
  <2> QED
    BY <1>1, <1>3, <2>3, <2>4, KeepsAsk
<1> QED
  BY <1>2, <1>4, <1>5

(* The user's thread gives up the connection, and perhaps opens another. *)
LEMMA KeepsAnew ==
    ASSUME ClientInv, PlaceTypes', OtherTypes', UNCHANGED <<at, calls, globals>>,
           link' \in {"up", "closed", "closing"},
           link' = "closed" => down' = <<>>,
           link' = "up" /\ ~mixed' => ~InCall("loop"),
           at["main"] = "prompt",
           \/ up' = <<>> /\ down' = <<>> /\ outbox' = <<>>
           \/ link' = "closing" /\ UNCHANGED streams
    PROVE  ClientInv'
<1>1. TypeInv'
  <2>1. StreamTypes'
    BY Nothing0 DEF streams, ClientInv, TypeInv, StreamTypes
  <2>2. CallTypes'
    BY DEF calls, ClientInv, TypeInv, CallTypes
  <2> QED
    BY <2>1, <2>2 DEF TypeInv
<1>2. ReadInv'
  BY DEF calls, ClientInv, ReadInv, Reading
<1>3. AskInv'
  BY DEF calls, globals, ClientInv, AskInv, InCall
<1>4. StreamInv'
  <2>1. ~InCall("main")' /\ (InCall("loop")' <=> InCall("loop"))
    BY DEF InCall
  <2>2. Other("main") = "loop" /\ "main" \in Threads
    BY DEF Other, Threads
  <2> QED
    BY <2>1, <2>2, OneInCall
<1>5. ShownIsAnswer'
  BY DEF calls, ClientInv, ShownIsAnswer
<1> QED
  BY <1>1, <1>2, <1>3, <1>4, <1>5 DEF ClientInv

LEMMA KeepsReopened ==
    ASSUME ClientInv, Typed, UNCHANGED <<at, calls, globals, fault>>,
           link' \in {"up", "closed"}, up' = <<>>, down' = <<>>, outbox' = <<>>,
           mixed' = InCall("loop"), stray' = 0
    PROVE  ClientInv'
<1>1. PlaceTypes'
  BY DEF ClientInv, TypeInv, PlaceTypes
<1>2. OtherTypes'
  <2>1. stray' \in 0 .. MaxStray /\ commands' \in 0 .. MaxCommands
    BY ClientAssumption, TypedCounts
  <2>2. InCall("loop") \in BOOLEAN
    BY DEF InCall
  <2>3. mixed' \in BOOLEAN
    BY <2>2, Zenon
  <2> QED
    BY <2>1, <2>3, Zenon DEF globals, ClientInv, TypeInv, OtherTypes
<1>3. ~mixed' => ~InCall("loop")
  BY Zenon
<1> QED
  BY <1>1, <1>2, <1>3, TypedCounts, KeepsAnew

LEMMA KeepsConnects == ClientInv /\ (Connect \/ ConnectUnresolved \/ ConnectTooShort) => ClientInv'
<1> SUFFICES ASSUME ClientInv, Connect \/ ConnectUnresolved \/ ConnectTooShort PROVE ClientInv'
  OBVIOUS
<1>1. CASE Connect
  BY <1>1, KeepsReopened, Zenon DEF Connect
<1>2. CASE ConnectUnresolved
  <2>1. fault' \in {"uncaught exception", "invalid memory"}
    BY <1>2 DEF ConnectUnresolved
  <2> QED
    BY <1>2, <2>1, KeepsThrow, Zenon DEF ConnectUnresolved
<1>3. CASE ConnectTooShort
  <2>1. Typed /\ UNCHANGED <<at, calls, globals>>
    BY <1>3 DEF ConnectTooShort
  <2>2. CASE /\ fault' \in {"uncaught exception", "invalid memory"}
             /\ UNCHANGED <<link, streams, mixed, stray>>
    <3>1. UNCHANGED <<link, streams, at, calls, globals, overlap>>
      BY <2>1, <2>2 DEF overlap
    <3> QED
      BY <2>1, <2>2, <3>1, KeepsThrow
  <2>3. CASE /\ link' = "closed" /\ up' = <<>> /\ down' = <<>> /\ outbox' = <<>>
             /\ mixed' = InCall("loop") /\ stray' = 0 /\ UNCHANGED fault
    <3>1. link' \in {"up", "closed"} /\ UNCHANGED <<at, calls, globals, fault>>
      BY <2>1, <2>3
    <3> QED
      BY <2>1, <2>3, <3>1, KeepsReopened, Zenon
  <2> QED
    BY <1>3, <2>2, <2>3, Zenon DEF ConnectTooShort
<1> QED
  BY <1>1, <1>2, <1>3

LEMMA KeepsDisconnect == ClientInv /\ Disconnect => ClientInv'
<1> SUFFICES ASSUME ClientInv, Disconnect PROVE ClientInv'
  OBVIOUS
<1>1. Typed /\ UNCHANGED <<at, calls, globals, overlap, fault>>
  BY DEF Disconnect
<1>2. PlaceTypes'
  BY <1>1 DEF ClientInv, TypeInv, PlaceTypes
<1>3. OtherTypes'
  BY <1>1, TypedCounts DEF globals, overlap, ClientInv, TypeInv, OtherTypes
<1>4. /\ link' \in {"closed", "closing"}
      /\ link' = "closed" => down' = <<>>
      /\ \/ up' = <<>> /\ down' = <<>> /\ outbox' = <<>>
         \/ link' = "closing" /\ UNCHANGED streams
  BY DEF Disconnect
<1> QED
  BY <1>1, <1>2, <1>3, <1>4, TypedCounts, KeepsAnew

(* The server's steps, and its end. *)
LEMMA ServerStep ==
    ASSUME ClientInv, StreamTypes', UNCHANGED <<at, calls, globals, commands, mixed, fault>>,
           stray' \in 0 .. MaxStray,
           link' = "closed" => down' = <<>>,
           link' \in {"up", "lost"} =>
             /\ link = "up"
             /\ up = <<>> /\ down = <<>> /\ outbox = <<>> => up' = <<>> /\ down' = <<>> /\ outbox' = <<>>
             /\ \A t \in Threads :
                  InCall(t) /\ Legit(request[t])
                    /\ Stage(at[t], "up", up, down, outbox, got[t], need[t], request[t]) =>
                      Stage(at[t], link', up', down', outbox', got[t], need[t], request[t])
    PROVE  ClientInv'
<1>1. UNCHANGED <<at, request, need, got, shown, running, joinable, commands, mixed, fault>>
  BY DEF calls, globals
<1>2. TypeInv'
  <2>1. PlaceTypes' /\ CallTypes'
    BY <1>1 DEF ClientInv, TypeInv, PlaceTypes, CallTypes
  <2>2. OtherTypes'
    BY <1>1, Zenon DEF ClientInv, TypeInv, OtherTypes
  <2> QED
    BY <2>1, <2>2 DEF TypeInv
<1>3. ReadInv'
  BY <1>1 DEF ClientInv, ReadInv, Reading
<1>4. AskInv'
  BY <1>1 DEF ClientInv, AskInv, InCall
<1>5. StreamInv'
  <2>1. \A t \in Threads : InCall(t)' <=> InCall(t)
    BY <1>1 DEF InCall
  <2>2. /\ InCall("main")' <=> InCall("main")
        /\ InCall("loop")' <=> InCall("loop")
    BY <2>1 DEF Threads
  <2>3. ASSUME link' \in {"up", "lost"}, ~mixed'
        PROVE  /\ ~(InCall("main")' /\ InCall("loop")')
               /\ ~InCall("main")' /\ ~InCall("loop")' => up' = <<>> /\ down' = <<>> /\ outbox' = <<>>
    BY <1>1, <2>2, <2>3 DEF ClientInv, StreamInv
  <2>4. ASSUME link' \in {"up", "lost"}, ~mixed', NEW t \in Threads, InCall(t)'
        PROVE  Stage(at'[t], link', up', down', outbox', got'[t], need'[t], request'[t])
    <3>1. InCall(t) /\ link = "up" /\ ~mixed
      BY <1>1, <2>1, <2>4
    <3>2. Legit(request[t])
      BY <3>1 DEF ClientInv, AskInv
    <3>3. Stage(at[t], "up", up, down, outbox, got[t], need[t], request[t])
      BY <3>1 DEF ClientInv, StreamInv
    <3>4. Stage(at[t], link', up', down', outbox', got[t], need[t], request[t])
      BY <2>4, <3>1, <3>2, <3>3
    <3> QED
      BY <1>1, <3>4
  <2> QED
    BY <2>3, <2>4, Zenon DEF StreamInv
<1>6. ShownIsAnswer'
  BY <1>1 DEF ClientInv, ShownIsAnswer
<1> QED
  BY <1>2, <1>3, <1>4, <1>5, <1>6 DEF ClientInv

LEMMA StrayKept ==
    ASSUME ClientInv, UNCHANGED stray
    PROVE  stray' \in 0 .. MaxStray
BY DEF ClientInv, TypeInv, OtherTypes

LEMMA StreamsAre ==
    ASSUME ClientInv
    PROVE  /\ up \in Bytes /\ down \in Bytes /\ outbox \in Writes
           /\ \A t \in Threads : got[t] \in Bytes /\ need[t] \in Nat
           /\ \A t \in Threads : InCall(t) => at[t] \in {"arg", "size", "data"}
BY DEF ClientInv, TypeInv, StreamTypes, CallTypes, InCall

LEMMA KeepsServe == ClientInv /\ Serve => ClientInv'
<1> SUFFICES ASSUME ClientInv, Serve PROVE ClientInv'
  OBVIOUS
<1> DEFINE cmd  == up[1]
           arg  == Number16(SubSeq(up, 2, 3))
           left == SubSeq(up, 4, Len(up))
<1>1. /\ link \in {"up", "closing"} /\ outbox = <<>> /\ Len(up) >= 3
      /\ outbox' = Response(cmd, arg) /\ up' = left
      /\ link' = link /\ down' = down
      /\ UNCHANGED <<at, calls, globals, commands, mixed, fault>>
  BY DEF Serve
<1>2. stray' \in 0 .. MaxStray
  <2>1. stray \in 0 .. MaxStray /\ MaxStray \in Nat
    BY ClientAssumption DEF ClientInv, TypeInv, OtherTypes
  <2>2. CASE mixed
    <3>1. stray < MaxStray /\ stray' = stray + 1
      BY <2>2 DEF Serve
    <3> QED
      BY <2>1, <3>1
  <2>3. CASE ~mixed
    <3>1. stray' = stray
      BY <2>3 DEF Serve
    <3> QED
      BY <2>1, <3>1
  <2> QED
    BY <2>2, <2>3
<1>3. up \in Bytes /\ Len(up) \in Nat
  BY StreamsAre, LenProperties DEF Bytes
<1>4. cmd \in Byte
  BY <1>1, <1>3, EachByte
<1>5. arg \in Nat
  <2>1. /\ 2 \in Int /\ 3 \in Int /\ \A i \in 2 .. 3 : up[i] \in Byte
    BY <1>1, <1>3, EachByte
  <2>2. SubSeq(up, 2, 3) \in Seq(Byte) /\ Len(SubSeq(up, 2, 3)) = 3 - 2 + 1
    BY <2>1, SubSeqProperties
  <2> DEFINE v == SubSeq(up, 2, 3)
  <2>3. v \in Bytes /\ Len(v) >= 2
    BY <2>2 DEF Bytes
  <2> HIDE DEF v
  <2>4. Number16(v) \in Nat
    BY <2>3, Number16Is
  <2> QED
    BY <2>4 DEF v
<1>6. left \in Bytes
  <2>1. 3 \in 0 .. Len(up)
    BY <1>1, <1>3
  <2>2. Behind(up, 3) \in Seq(Byte)
    BY <1>3, <2>1, PlaceIs DEF Bytes
  <2>3. left = Behind(up, 3)
    BY DEF Behind
  <2> QED
    BY <2>2, <2>3 DEF Bytes
<1>7. up # <<>>
  BY <1>1, NotShort
<1>8. Response(cmd, arg) \in Writes
  BY <1>4, <1>5, ResponseTyped
<1>9. ASSUME NEW t \in Threads, link = "up", InCall(t), Legit(request[t]),
             Stage(at[t], "up", up, down, outbox, got[t], need[t], request[t])
      PROVE  Stage(at[t], "up", left, down, Response(cmd, arg), got[t], need[t], request[t])
  <2>1. at[t] \in {"arg", "size", "data"}
    BY <1>9, StreamsAre
  <2> DEFINE c == cmd
             a == arg
             l == left
  <2>2. c = up[1] /\ a = Number16(SubSeq(up, 2, 3)) /\ l = SubSeq(up, 4, Len(up))
    OBVIOUS
  <2> HIDE DEF c, a, l
  <2>3. Stage(at[t], "up", l, down, Response(c, a), got[t], need[t], request[t])
    BY <1>1, <1>3, <1>9, <2>1, <2>2, Served
  <2> QED
    BY <2>3 DEF c, a, l
<1> HIDE DEF cmd, arg, left
<1>10. StreamTypes'
  BY <1>1, <1>6, <1>8 DEF ClientInv, TypeInv, StreamTypes
<1>11. link' = "closed" => down' = <<>>
  BY <1>1
<1>12. ASSUME link' \in {"up", "lost"}
       PROVE  /\ link = "up"
              /\ \A t \in Threads :
                   InCall(t) /\ Legit(request[t])
                     /\ Stage(at[t], "up", up, down, outbox, got[t], need[t], request[t]) =>
                       Stage(at[t], link', up', down', outbox', got[t], need[t], request[t])
  <2>1. link = "up" /\ link' = "up"
    BY <1>1, <1>12
  <2> QED
    BY <1>1, <1>9, <2>1
<1> QED
  BY <1>1, <1>7, <1>10, <1>11, <1>12, <1>2, ServerStep, Zenon

LEMMA KeepsDeliver == ClientInv /\ Deliver => ClientInv'
<1> SUFFICES ASSUME ClientInv, Deliver PROVE ClientInv'
  OBVIOUS
<1>1. PICK k \in Pieces(Head(outbox)) :
        /\ down' = down \o SubSeq(Head(outbox), 1, k)
        /\ outbox' = (IF k = Len(Head(outbox)) THEN <<>>
                      ELSE <<SubSeq(Head(outbox), k + 1, Len(Head(outbox)))>>) \o Tail(outbox)
  BY Zenon DEF Deliver
<1> DEFINE d == Then(down, Before(Head(outbox), k))
           o == Uncut(outbox, k)
<1>2. /\ link \in {"up", "closing"} /\ outbox # <<>>
      /\ down' = d /\ outbox' = o
      /\ link' = link /\ up' = up
      /\ UNCHANGED <<at, calls, globals, commands, overlap, fault>>
  BY <1>1, Zenon DEF Deliver, Then, Before, Behind, Uncut
<1>3. k \in 0 .. Len(Head(outbox))
  <2>1. Len(Head(outbox)) \in Nat
    BY <1>2, StreamsAre, HeadTailProperties, LenProperties DEF Writes, Bytes
  <2> QED
    BY <2>1 DEF Pieces
<1>4. d \in Bytes /\ o \in Writes
  <2>1. Before(Head(outbox), k) \in Bytes /\ o \in Writes
    BY <1>2, <1>3, StreamsAre, SpellsCut
  <2> QED
    BY <2>1, StreamsAre, ThenIs DEF Bytes
<1>5. ASSUME NEW t \in Threads, InCall(t),
             Stage(at[t], "up", up, down, outbox, got[t], need[t], request[t])
      PROVE  Stage(at[t], "up", up, d, o, got[t], need[t], request[t])
  BY <1>2, <1>5, <1>3, StreamsAre, Delivered
<1> HIDE DEF d, o
<1>6. StreamTypes'
  BY <1>2, <1>4 DEF ClientInv, TypeInv, StreamTypes
<1>7. link' = "closed" => down' = <<>>
  BY <1>2
<1>8. ASSUME link' \in {"up", "lost"}
      PROVE  /\ link = "up"
             /\ \A t \in Threads :
                  InCall(t) /\ Legit(request[t])
                    /\ Stage(at[t], "up", up, down, outbox, got[t], need[t], request[t]) =>
                      Stage(at[t], link', up', down', outbox', got[t], need[t], request[t])
  <2>1. link = "up" /\ link' = "up"
    BY <1>2, <1>8
  <2> QED
    BY <1>2, <1>5, <2>1
<1>9. UNCHANGED <<at, calls, globals, commands, mixed, fault>> /\ stray' \in 0 .. MaxStray
  BY <1>2, StrayKept DEF overlap
<1> QED
  BY <1>2, <1>6, <1>7, <1>8, <1>9, ServerStep, Zenon

LEMMA KeepsServerGone == ClientInv /\ ServerGone => ClientInv'
<1> SUFFICES ASSUME ClientInv, ServerGone PROVE ClientInv'
  OBVIOUS
<1>1. /\ up' = <<>> /\ outbox' = <<>>
      /\ UNCHANGED <<at, calls, globals, commands, overlap, fault>>
      /\ \/ link = "up" /\ link' = "lost" /\ down' \in {down, <<>>}
         \/ link = "closing" /\ link' = "closed" /\ down' = <<>>
  BY DEF ServerGone
<1>2. StreamTypes'
  <2>1. down' \in Bytes
    BY <1>1, StreamsAre, Nothing0
  <2> QED
    BY <1>1, <2>1, Nothing0 DEF StreamTypes
<1>3. link' = "closed" => down' = <<>>
  BY <1>1
<1>4. ASSUME link' \in {"up", "lost"}
      PROVE  /\ link = "up"
             /\ up = <<>> /\ down = <<>> /\ outbox = <<>> => up' = <<>> /\ down' = <<>> /\ outbox' = <<>>
             /\ \A t \in Threads :
                  InCall(t) /\ Legit(request[t])
                    /\ Stage(at[t], "up", up, down, outbox, got[t], need[t], request[t]) =>
                      Stage(at[t], link', up', down', outbox', got[t], need[t], request[t])
  <2>1. link = "up" /\ link' = "lost" /\ down' \in {down, <<>>}
    BY <1>1, <1>4
  <2>2. ASSUME NEW t \in Threads, InCall(t), Legit(request[t]),
               Stage(at[t], "up", up, down, outbox, got[t], need[t], request[t])
        PROVE  Stage(at[t], "lost", <<>>, down', <<>>, got[t], need[t], request[t])
    BY <2>1, <2>2, StreamsAre, Lost
  <2> QED
    BY <1>1, <2>1, <2>2
<1>5. UNCHANGED <<at, calls, globals, commands, mixed, fault>> /\ stray' \in 0 .. MaxStray
  BY <1>1, StrayKept DEF overlap
<1> QED
  BY <1>1, <1>2, <1>3, <1>4, <1>5, ServerStep, Zenon

-----------------------------------------------------------------------------
(* The steps of a call. *)

LEMMA CallStepKeeps ==
    ASSUME ClientInv, NEW t \in Threads, NEW place,
           at[t] \in Calling, at' = [at EXCEPT ![t] = place],
           t = "main" => place \in MainPlaces, t = "loop" => place \in LoopPlaces \ {"none", "done"},
           UNCHANGED <<request, running, joinable, commands, stray>>,
           StreamTypes', CallTypes', mixed' \in BOOLEAN,
           fault' \in {"none", "uncaught exception", "joinable thread", "invalid memory"},
           \A s \in Threads : s # t => got'[s] = got[s] /\ need'[s] = need[s],
           place \in {"size", "data"} => Len(got'[t]) < need'[t],
           place = "size" => need'[t] = 4,
           link' = "closed" => down' = <<>>,
           link' \in {"up", "lost"} /\ ~mixed' =>
             /\ ~InCall(Other(t))
             /\ place \notin {"arg", "size", "data"} => up' = <<>> /\ down' = <<>> /\ outbox' = <<>>
             /\ place \in {"arg", "size", "data"} =>
                  Stage(place, link', up', down', outbox', got'[t], need'[t], request[t]),
           ShownIsAnswer'
    PROVE  ClientInv'
<1>1. at \in [Threads -> MainPlaces \cup LoopPlaces]
  BY DEF ClientInv, TypeInv, PlaceTypes
<1>2. at'[t] = place /\ \A s \in Threads : s # t => at'[s] = at[s]
  BY <1>1
<1>3. /\ InCall(t)' <=> place \in {"arg", "size", "data"}
      /\ Reading(t)' <=> place \in {"size", "data"}
      /\ \A s \in Threads : s # t => (InCall(s)' <=> InCall(s)) /\ (Reading(s)' <=> Reading(s))
  BY <1>2 DEF InCall, Reading
<1>4. TypeInv'
  <2>1. PlaceTypes'
    <3>1. at["main"] \in MainPlaces /\ at["loop"] \in LoopPlaces
      BY DEF ClientInv, TypeInv, PlaceTypes
    <3>2. t = "main" \/ t = "loop"
      BY DEF Threads
    <3>3. place \in MainPlaces \cup LoopPlaces
      BY <3>2
    <3>4. at' \in [Threads -> MainPlaces \cup LoopPlaces]
      BY <1>1, <3>3
    <3>5. at'["main"] \in MainPlaces /\ at'["loop"] \in LoopPlaces
      BY <1>2, <3>1, <3>2 DEF Threads
    <3> QED
      BY <3>4, <3>5 DEF PlaceTypes
  <2>2. OtherTypes'
    BY Zenon DEF ClientInv, TypeInv, OtherTypes
  <2> QED
    BY <2>1, <2>2 DEF TypeInv
<1>5. ReadInv'
  <2>1. ASSUME NEW s \in Threads
        PROVE  (Reading(s)' => Len(got'[s]) < need'[s]) /\ (at'[s] = "size" => need'[s] = 4)
    BY <1>2, <1>3 DEF ClientInv, ReadInv
  <2> QED
    BY <2>1 DEF ReadInv
<1>6. AskInv'
  <2>1. at[t] = "cmd" \/ InCall(t)
    BY DEF Calling, InCall
  <2>2. \A s \in Threads : at'[s] = "cmd" \/ InCall(s)' => Legit(request'[s])
    BY <1>2, <1>3, <2>1 DEF ClientInv, AskInv
  <2>3. at'["main"] = "cmd" \/ InCall("main")' => request'["main"].cmd # READ_ALL
    BY <1>2, <1>3, <2>1 DEF ClientInv, AskInv, Threads
  <2>4. ~joinable' => at'["loop"] \in {"none", "done"}
    <3>1. at["loop"] \in Calling => joinable
      BY DEF ClientInv, AskInv, Calling
    <3> QED
      BY <1>2, <3>1 DEF ClientInv, AskInv, Threads
  <2> QED
    BY <2>2, <2>3, <2>4 DEF AskInv
<1>7. StreamInv'
  <2>1. InCall(Other(t))' <=> InCall(Other(t))
    BY <1>3, OtherIs
  <2> QED
    BY <1>2, <1>3, <2>1, OneInCall
<1> QED
  BY <1>4, <1>5, <1>6, <1>7 DEF ClientInv

(* What holds of a call that has not been disturbed. *)
LEMMA OnlyCaller ==
    ASSUME ClientInv, NEW t \in Threads, link \in {"up", "lost"}, ~mixed, InCall(t)
    PROVE  /\ ~InCall(Other(t))
           /\ Stage(at[t], link, up, down, outbox, got[t], need[t], request[t])
           /\ Legit(request[t])
           /\ t = "main" => request[t].cmd # READ_ALL
<1>1. ~(InCall("main") /\ InCall("loop"))
  BY DEF ClientInv, StreamInv
<1>2. ~InCall(Other(t))
  BY <1>1 DEF Threads, Other
<1>3. Stage(at[t], link, up, down, outbox, got[t], need[t], request[t])
  BY DEF ClientInv, StreamInv
<1>4. Legit(request[t]) /\ (t = "main" => request[t].cmd # READ_ALL)
  BY DEF ClientInv, AskInv
<1> QED
  BY <1>2, <1>3, <1>4

LEMMA KeepsSendCmd ==
    ASSUME ClientInv, NEW t \in Threads, SendCmd(t)
    PROVE  ClientInv'
<1>1. /\ at[t] = "cmd" /\ at' = [at EXCEPT ![t] = "arg"]
      /\ UNCHANGED <<link, down, outbox, request, need, got, shown, running, joinable, commands,
                      stray>>
  BY DEF SendCmd, Goto, calls, globals
<1>2. mixed' = (mixed \/ InCall(Other(t)))
  BY Zenon DEF SendCmd
<1>3. \/ link = "up" /\ up' = up \o <<request[t].cmd>> /\ fault' = fault
      \/ link = "lost" /\ up' = up /\ fault' = fault
      \/ link # "up" /\ up' = up /\ fault' = "uncaught exception"
  BY Zenon DEF SendCmd, Send
<1>4. Legit(request[t])
  BY <1>1 DEF ClientInv, AskInv
<1>5. request[t].cmd \in Byte
  BY <1>4 DEF Legit, Byte, READ_ALL
<1>6. ~InCall(t)
  BY <1>1 DEF InCall
<1>7. StreamTypes'
  <2>1. up \in Bytes
    BY StreamsAre
  <2>2. <<request[t].cmd>> \in Bytes
    BY <1>5 DEF Bytes
  <2> DEFINE c == <<request[t].cmd>>
  <2>3. up' = Then(up, c) \/ up' = up
    BY <1>3, Zenon DEF Then
  <2>4. Then(up, c) \in Bytes
    BY <2>1, <2>2, ThenIs DEF Bytes
  <2> HIDE DEF c
  <2>5. up' \in Bytes
    BY <2>1, <2>3, <2>4
  <2> QED
    BY <1>1, <2>5 DEF ClientInv, TypeInv, StreamTypes
<1>8. CallTypes'
  BY <1>1 DEF ClientInv, TypeInv, CallTypes
<1>9. mixed' \in BOOLEAN
  <2>1. (mixed \/ InCall(Other(t))) \in BOOLEAN
    OBVIOUS
  <2> QED
    BY <1>2, <2>1, Zenon
<1>10. fault' \in {"none", "uncaught exception", "joinable thread", "invalid memory"}
  BY <1>3 DEF ClientInv, TypeInv, OtherTypes
<1>11. ASSUME link' \in {"up", "lost"}, ~mixed'
       PROVE  /\ ~InCall(Other(t))
              /\ Stage("arg", link', up', down', outbox', got'[t], need'[t], request[t])
  <2>1. ~mixed /\ ~InCall(Other(t))
    BY <1>2, <1>11, Zenon
  <2>2. link \in {"up", "lost"} /\ link' = link
    BY <1>1, <1>11
  <2>3. ~InCall("main") /\ ~InCall("loop")
    BY <1>6, <2>1 DEF Threads, Other
  <2>4. up = <<>> /\ down = <<>> /\ outbox = <<>>
    BY <2>1, <2>2, <2>3 DEF ClientInv, StreamInv
  <2>5. up' = IF link = "up" THEN <<request[t].cmd>> ELSE <<>>
    <3>1. <<request[t].cmd>> \in Bytes
      BY <1>5 DEF Bytes
    <3>2. Then(<<>>, <<request[t].cmd>>) = <<request[t].cmd>>
      BY <3>1, ThenEmpty DEF Bytes
    <3>3. link = "up" => up' = Then(up, <<request[t].cmd>>)
      BY <1>3, Zenon DEF Then
    <3>4. link # "up" => up' = up
      BY <1>3, Zenon
    <3> QED
      BY <2>4, <3>2, <3>3, <3>4, Zenon
  <2> DEFINE r == request[t]
             g == got'[t]
             n == need'[t]
  <2>6. Stage("arg", link, IF link = "up" THEN <<r.cmd>> ELSE <<>>, <<>>, <<>>, g, n, r)
    <3> HIDE DEF r, g, n
    <3> QED
      BY <2>2, AtArg
  <2> QED
    BY <1>1, <2>1, <2>2, <2>4, <2>5, <2>6, Zenon
<1>12. ShownIsAnswer'
  BY <1>1 DEF ClientInv, ShownIsAnswer
<1>13. link' = "closed" => down' = <<>>
  BY <1>1 DEF ClientInv, StreamInv
<1>14. "arg" \in MainPlaces /\ "arg" \in LoopPlaces \ {"none", "done"} /\ at[t] \in Calling
  BY <1>1 DEF MainPlaces, LoopPlaces, Calling
<1> QED
  BY <1>1, <1>7, <1>8, <1>9, <1>10, <1>11, <1>12, <1>13, <1>14, CallStepKeeps

LEMMA KeepsSendArg ==
    ASSUME ClientInv, NEW t \in Threads, SendArg(t)
    PROVE  ClientInv'
<1> DEFINE r == request[t]
           a == Bytes16(r.number)
<1>1. /\ at[t] = "arg" /\ at' = [at EXCEPT ![t] = "size"]
      /\ need' = [need EXCEPT ![t] = 4] /\ got' = [got EXCEPT ![t] = <<>>]
      /\ UNCHANGED <<link, down, outbox, request, shown, running, joinable, commands, mixed, stray>>
  BY DEF SendArg, Goto, globals, overlap
<1>2. \/ link = "up" /\ up' = up \o a /\ fault' = fault
      \/ link = "lost" /\ up' = up /\ fault' = fault
      \/ link # "up" /\ up' = up /\ fault' = "uncaught exception"
  BY Zenon DEF SendArg, Send
<1>3. InCall(t)
  BY <1>1 DEF InCall
<1>4. r.number \in Int
  BY <1>3 DEF Legit, ClientInv, AskInv
<1>5. a \in Bytes
  BY <1>4, Bytes16Are
<1>6. /\ need \in [Threads -> Nat] /\ got \in [Threads -> Bytes]
  BY DEF ClientInv, TypeInv, CallTypes
<1>7. need'[t] = 4 /\ got'[t] = <<>> /\ Len(<<>>) < 4
  BY <1>1, <1>6
<1>8. StreamTypes'
  <2>1. up \in Bytes
    BY StreamsAre
  <2>2. up' = Then(up, a) \/ up' = up
    BY <1>2, Zenon DEF Then
  <2>3. Then(up, a) \in Bytes
    BY <1>5, <2>1, ThenIs DEF Bytes
  <2>4. up' \in Bytes
    BY <2>1, <2>2, <2>3
  <2> QED
    BY <1>1, <2>4 DEF ClientInv, TypeInv, StreamTypes
<1>9. CallTypes'
  BY <1>1, Nothing0 DEF ClientInv, TypeInv, CallTypes
<1>10. mixed' \in BOOLEAN
  BY <1>1, Zenon DEF ClientInv, TypeInv, OtherTypes
<1>11. fault' \in {"none", "uncaught exception", "joinable thread", "invalid memory"}
  BY <1>2 DEF ClientInv, TypeInv, OtherTypes
<1>12. ASSUME link' \in {"up", "lost"}, ~mixed'
       PROVE  /\ ~InCall(Other(t))
              /\ Stage("size", link', up', down', outbox', got'[t], need'[t], request[t])
  <2>1. link \in {"up", "lost"} /\ link' = link /\ ~mixed
    BY <1>1, <1>12
  <2>2. /\ ~InCall(Other(t)) /\ Legit(r)
        /\ Stage("arg", link, up, down, outbox, got[t], need[t], r)
    BY <1>1, <1>3, <2>1, OnlyCaller
  <2>3. up' = IF link = "up" THEN up \o Bytes16(r.number) ELSE up
    BY <1>2, Zenon
  <2> DEFINE g == got[t]
             n == need[t]
  <2>4. Stage("size", link, IF link = "up" THEN up \o Bytes16(r.number) ELSE up, down, outbox,
              <<>>, 4, r)
    <3>1. Stage("arg", link, up, down, outbox, g, n, r)
      BY <2>2
    <3> HIDE DEF r, g, n
    <3> QED
      BY <2>1, <2>2, <3>1, AtSize
  <2> QED
    BY <1>1, <1>7, <2>1, <2>2, <2>3, <2>4, Zenon
<1>13. ShownIsAnswer'
  BY <1>1 DEF ClientInv, ShownIsAnswer
<1>14. link' = "closed" => down' = <<>>
  BY <1>1 DEF ClientInv, StreamInv
<1>15. "size" \in MainPlaces /\ "size" \in LoopPlaces \ {"none", "done"} /\ at[t] \in Calling
  BY <1>1 DEF MainPlaces, LoopPlaces, Calling
<1>16. \A s \in Threads : s # t => got'[s] = got[s] /\ need'[s] = need[s]
  BY <1>1, <1>6
<1> HIDE DEF r, a
<1> QED
  BY <1>1, <1>7, <1>8, <1>9, <1>10, <1>11, <1>12, <1>13, <1>14, <1>15, <1>16, CallStepKeeps
  DEF r

LEMMA LostRead ==
    ASSUME NEW place \in {"size", "data"}, NEW u, NEW d, NEW o, NEW g, NEW n, NEW r,
           Stage(place, "lost", u, d, o, g, n, r)
    PROVE  u = <<>> /\ o = <<>>
<1>1. PICK b : Remains("lost", d, o, g, b)
  BY Zenon DEF Stage
<1>2. u = <<>>
  BY Zenon DEF Stage
<1> QED
  BY <1>1, <1>2 DEF Remains

(* A call comes to its end. *)
AfterCall(t) == IF t = "main" THEN "prompt" ELSE "check"

LEMMA AfterCallIs ==
    ASSUME NEW t \in Threads
    PROVE  /\ t = "main" => AfterCall(t) \in MainPlaces
           /\ t = "loop" => AfterCall(t) \in LoopPlaces \ {"none", "done"}
           /\ AfterCall(t) \notin {"arg", "size", "data"}
BY DEF AfterCall, MainPlaces, LoopPlaces, Threads

LEMMA KeepsReadFails ==
    ASSUME ClientInv, NEW t \in Threads, ReadFails(t)
    PROVE  ClientInv'
<1>1. /\ at[t] \in {"size", "data"}
      /\ link = "closed" \/ (link = "lost" /\ down = <<>>)
      /\ at' = [at EXCEPT ![t] = AfterCall(t)]
      /\ got' = [got EXCEPT ![t] = <<>>]
      /\ UNCHANGED <<link, up, down, outbox, request, need, running, joinable, commands, mixed,
                      stray, fault>>
  BY DEF ReadFails, Reading, Finish, AfterCall, streams, globals, overlap
<1>2. PICK size, bytes :
        /\ \/ size = 0 /\ bytes = <<>>
           \/ size = need[t] /\ bytes = got[t]
        /\ shown' = [shown EXCEPT ![t] = [size |-> size, got |-> bytes, whole |-> FALSE,
                                                mixed |-> mixed]]
  BY Zenon DEF ReadFails, Finish
<1>3. /\ need \in [Threads -> Nat] /\ got \in [Threads -> Bytes]
      /\ shown \in [Threads -> Responses]
  BY DEF ClientInv, TypeInv, CallTypes
<1>4. mixed \in BOOLEAN /\ mixed' = mixed
  BY <1>1, Zenon DEF ClientInv, TypeInv, OtherTypes
<1> DEFINE s == [size |-> size, got |-> bytes, whole |-> FALSE, mixed |-> mixed]
<1>5. s \in Responses /\ s.whole = FALSE
  <2>1. size \in Int /\ bytes \in Bytes
    BY <1>2, <1>3, Nothing0
  <2>2. s.whole = FALSE
    BY Zenon
  <2>3. s \in Responses
    BY <1>4, <2>1, Zenon DEF Responses
  <2> QED
    BY <2>2, <2>3
<1>6. shown' = [shown EXCEPT ![t] = s]
  BY <1>2
<1> HIDE DEF s
<1>7. CallTypes'
  BY <1>1, <1>3, <1>5, <1>6, Nothing0 DEF ClientInv, TypeInv, CallTypes
<1>8. ShownIsAnswer'
  <2>1. CASE t = "main"
    <3>1. shown'["main"] = s
      BY <1>3, <1>6, <2>1
    <3> QED
      BY <1>5, <3>1 DEF ShownIsAnswer
  <2>2. CASE t # "main"
    <3>1. shown'["main"] = shown["main"] /\ request'["main"] = request["main"]
      BY <1>1, <1>6, <2>2
    <3> QED
      BY <3>1 DEF ClientInv, ShownIsAnswer
  <2> QED
    BY <2>1, <2>2
<1>9. StreamTypes' /\ fault' \in {"none", "uncaught exception", "joinable thread", "invalid memory"}
  BY <1>1 DEF ClientInv, TypeInv, StreamTypes, OtherTypes
<1>10. InCall(t) /\ at[t] \in Calling
  BY <1>1 DEF InCall, Calling
<1>11. ASSUME link' \in {"up", "lost"}, ~mixed'
       PROVE  ~InCall(Other(t)) /\ up' = <<>> /\ down' = <<>> /\ outbox' = <<>>
  <2>1. link = "lost" /\ ~mixed /\ down = <<>>
    BY <1>1, <1>11
  <2>2. /\ ~InCall(Other(t))
        /\ Stage(at[t], "lost", up, down, outbox, got[t], need[t], request[t])
    BY <1>10, <2>1, OnlyCaller
  <2>3. up = <<>> /\ outbox = <<>>
    BY <1>1, <2>2, LostRead
  <2> QED
    BY <1>1, <2>1, <2>2, <2>3
<1>12. link' = "closed" => down' = <<>>
  BY <1>1 DEF ClientInv, StreamInv
<1>13. \A q \in Threads : q # t => got'[q] = got[q] /\ need'[q] = need[q]
  BY <1>1, <1>3
<1> DEFINE place == AfterCall(t)
<1>14. /\ at' = [at EXCEPT ![t] = place]
       /\ t = "main" => place \in MainPlaces
       /\ t = "loop" => place \in LoopPlaces \ {"none", "done"}
       /\ place \notin {"arg", "size", "data"}
  BY <1>1, AfterCallIs
<1> HIDE DEF place
<1> QED
  BY <1>1, <1>4, <1>7, <1>8, <1>9, <1>10, <1>11, <1>12, <1>13, <1>14, CallStepKeeps

(* What has been read of a response with one more piece. *)
Amount(t)  == IF Len(down) < need[t] - Len(got[t]) THEN Len(down) ELSE need[t] - Len(got[t])
ReadSoFar(t) == Then(got[t], Before(down, Amount(t)))

ReadPart(t) ==
    /\ Len(ReadSoFar(t)) < need[t]
    /\ got' = [got EXCEPT ![t] = ReadSoFar(t)]
    /\ UNCHANGED <<at, need, shown>>

ReadData(t) ==
    /\ ~(Len(ReadSoFar(t)) < need[t])
    /\ got' = [got EXCEPT ![t] = <<>>]
    /\ at[t] = "data"
    /\ Finish(t, need[t], ReadSoFar(t), TRUE) /\ UNCHANGED need

ReadZero(t) ==
    /\ ~(Len(ReadSoFar(t)) < need[t])
    /\ got' = [got EXCEPT ![t] = <<>>]
    /\ at[t] # "data" /\ Number32(ReadSoFar(t)) = 0
    /\ Finish(t, 0, <<>>, TRUE) /\ UNCHANGED need

ReadSize(t) ==
    /\ ~(Len(ReadSoFar(t)) < need[t])
    /\ got' = [got EXCEPT ![t] = <<>>]
    /\ at[t] # "data" /\ Number32(ReadSoFar(t)) # 0
    /\ need' = [need EXCEPT ![t] = Number32(ReadSoFar(t))]
    /\ at' = [at EXCEPT ![t] = "data"]
    /\ UNCHANGED shown

LEMMA ReadSomeIs ==
    ASSUME NEW t \in Threads, ReadSome(t)
    PROVE  /\ Reading(t) /\ down # <<>>
           /\ link # "closing" \/ t = "loop"
           /\ link = "closing" =>
                link' = "closed" /\ up' = <<>> /\ down' = <<>> /\ outbox' = <<>>
           /\ link # "closing" =>
                down' = Behind(down, Amount(t)) /\ UNCHANGED <<link, up, outbox>>
           /\ ReadPart(t) \/ ReadData(t) \/ ReadZero(t) \/ ReadSize(t)
           /\ UNCHANGED <<request, globals, commands, overlap, fault>>
<1>1. /\ Reading(t) /\ down # <<>>
      /\ link # "closing" \/ t = "loop"
      /\ UNCHANGED <<request, globals, commands, overlap, fault>>
  BY Zenon DEF ReadSome
<1>2. /\ link = "closing" =>
           link' = "closed" /\ up' = <<>> /\ down' = <<>> /\ outbox' = <<>>
      /\ link # "closing" =>
           down' = Behind(down, Amount(t)) /\ UNCHANGED <<link, up, outbox>>
  BY Zenon DEF ReadSome, Behind, Amount
<1>3. IF Len(ReadSoFar(t)) < need[t]
      THEN got' = [got EXCEPT ![t] = ReadSoFar(t)] /\ UNCHANGED <<at, need, shown>>
      ELSE /\ got' = [got EXCEPT ![t] = <<>>]
           /\ IF at[t] = "data"
              THEN Finish(t, need[t], ReadSoFar(t), TRUE) /\ UNCHANGED need
              ELSE IF Number32(ReadSoFar(t)) = 0
              THEN Finish(t, 0, <<>>, TRUE) /\ UNCHANGED need
              ELSE /\ need' = [need EXCEPT ![t] = Number32(ReadSoFar(t))]
                   /\ at' = [at EXCEPT ![t] = "data"]
                   /\ UNCHANGED shown
  BY Zenon DEF ReadSome, ReadSoFar, Amount, Then, Before
<1>4. ReadPart(t) \/ ReadData(t) \/ ReadZero(t) \/ ReadSize(t)
  BY <1>3, Zenon DEF ReadPart, ReadData, ReadZero, ReadSize
<1> QED
  BY <1>1, <1>2, <1>4

(* The piece taken, and the connection after it. *)
LEMMA ReadSomeTakes ==
    ASSUME ClientInv, NEW t \in Threads, ReadSome(t)
    PROVE  /\ at[t] \in {"size", "data"} /\ at[t] \in Calling
           /\ UNCHANGED <<request, running, joinable, commands, mixed, stray, fault>>
           /\ ReadPart(t) \/ ReadData(t) \/ ReadZero(t) \/ ReadSize(t)
           /\ ReadSoFar(t) \in Bytes /\ Len(ReadSoFar(t)) <= need[t]
           /\ StreamTypes' /\ (link' = "closed" => down' = <<>>)
           /\ link' \in {"up", "lost"} /\ ~mixed' =>
                /\ ~InCall(Other(t))
                /\ Stage(at[t], link', up', down', outbox', ReadSoFar(t), need[t], request[t])
           /\ t = "main" /\ ~mixed =>
                link' \in {"up", "lost"} /\ ~mixed' /\ request[t].cmd # READ_ALL
<1> DEFINE k == Amount(t)
           g == Then(got[t], Before(down, k))
<1>1. /\ at[t] \in {"size", "data"} /\ down # <<>>
      /\ link # "closing" \/ t = "loop"
      /\ link = "closing" =>
           link' = "closed" /\ up' = <<>> /\ down' = <<>> /\ outbox' = <<>>
      /\ link # "closing" => down' = Behind(down, k) /\ UNCHANGED <<link, up, outbox>>
      /\ ReadPart(t) \/ ReadData(t) \/ ReadZero(t) \/ ReadSize(t)
      /\ UNCHANGED <<request, running, joinable, commands, mixed, stray, fault>>
  BY ReadSomeIs DEF Reading, globals, overlap
<1>2. InCall(t) /\ Reading(t) /\ at[t] \in Calling
  BY <1>1 DEF InCall, Reading, Calling
<1>3. /\ down \in Seq(Byte) /\ got[t] \in Seq(Byte) /\ need[t] \in Nat
      /\ Len(got[t]) < need[t] /\ Len(down) \in Nat /\ Len(got[t]) \in Nat
  BY <1>2, StreamsAre, LenProperties DEF Bytes, ClientInv, ReadInv
<1>4. k \in 0 .. Len(down) /\ Len(got[t]) + k <= need[t]
  BY <1>3 DEF Amount
<1> HIDE DEF k
<1>5. /\ Before(down, k) \in Seq(Byte) /\ Len(Before(down, k)) = k /\ Behind(down, k) \in Seq(Byte)
  BY <1>3, <1>4, PlaceIs
<1>6. g \in Bytes /\ Len(g) <= need[t]
  <2>1. g \in Seq(Byte) /\ Len(g) = Len(got[t]) + Len(Before(down, k))
    BY <1>3, <1>5, ThenIs
  <2> QED
    BY <1>4, <1>5, <2>1 DEF Bytes
<1>7. ReadSoFar(t) = g
  BY DEF ReadSoFar, k
<1>8. StreamTypes'
  <2>1. CASE link = "closing"
    BY <1>1, <2>1, Nothing0 DEF StreamTypes
  <2>2. CASE link # "closing"
    BY <1>1, <1>5, <2>2 DEF ClientInv, TypeInv, StreamTypes, Bytes
  <2> QED
    BY <2>1, <2>2
<1>9. link # "closed"
  BY <1>1 DEF ClientInv, StreamInv
<1>10. link' = "closed" => down' = <<>>
  BY <1>1, <1>9
<1>11. ASSUME link' \in {"up", "lost"}, ~mixed'
       PROVE  /\ ~InCall(Other(t))
              /\ Stage(at[t], link', up', down', outbox', g, need[t], request[t])
  <2>1. link # "closing" /\ link \in {"up", "lost"} /\ ~mixed
    BY <1>1, <1>11
  <2>2. ~InCall(Other(t)) /\ Stage(at[t], link, up, down, outbox, got[t], need[t], request[t])
    BY <1>2, <2>1, OnlyCaller
  <2>3. Stage(at[t], link, up, Behind(down, k), outbox, g, need[t], request[t])
    BY <1>1, <1>3, <1>4, <2>2, PartRead DEF Bytes
  <2> QED
    BY <1>1, <2>1, <2>2, <2>3
<1>12. ASSUME t = "main", ~mixed
       PROVE  link' \in {"up", "lost"} /\ ~mixed' /\ request[t].cmd # READ_ALL
  <2>1. link # "closing" /\ link \in {"up", "lost"}
    BY <1>1, <1>9, <1>12 DEF ClientInv, TypeInv, StreamTypes
  <2> QED
    BY <1>1, <1>2, <1>12, <2>1, OnlyCaller
<1> HIDE DEF g
<1> QED
  BY <1>1, <1>2, <1>6, <1>7, <1>8, <1>10, <1>11, <1>12

LEMMA FinishShows ==
    ASSUME ClientInv, NEW t \in Threads, NEW size \in Int, NEW bytes \in Bytes,
           Finish(t, size, bytes, TRUE), UNCHANGED <<request, mixed>>,
           t = "main" /\ ~mixed =>
             Decode(request[t].table, request[t].cmd > 4, size, bytes) = Answer(request[t])
    PROVE  shown' \in [Threads -> Responses] /\ ShownIsAnswer' /\ at' = [at EXCEPT ![t] = AfterCall(t)]
<1> DEFINE s == [size |-> size, got |-> bytes, whole |-> TRUE, mixed |-> mixed]
<1>1. shown' = [shown EXCEPT ![t] = s] /\ at' = [at EXCEPT ![t] = AfterCall(t)]
  BY Zenon DEF Finish, AfterCall
<1>2. mixed \in BOOLEAN
  BY Zenon DEF ClientInv, TypeInv, OtherTypes
<1>3. s \in Responses /\ s.size = size /\ s.got = bytes
  <2>1. s \in Responses
    BY <1>2, Zenon DEF Responses
  <2>2. s.size = size /\ s.got = bytes
    OBVIOUS
  <2> QED
    BY <2>1, <2>2
<1>4. s.mixed = mixed
  BY Zenon
<1> HIDE DEF s
<1>5. shown \in [Threads -> Responses]
  BY DEF ClientInv, TypeInv, CallTypes
<1>6. shown' \in [Threads -> Responses]
  BY <1>1, <1>3, <1>5
<1>7. ShownIsAnswer'
  <2>1. CASE t = "main"
    <3>1. shown'["main"] = s /\ request'["main"] = request[t]
      BY <1>1, <1>5, <2>1
    <3>2. ~s.mixed => Answered(request[t], s)
      BY <1>3, <1>4, <2>1, Zenon DEF Answered
    <3> QED
      BY <3>1, <3>2, Zenon DEF ShownIsAnswer
  <2>2. CASE t # "main"
    <3>1. shown'["main"] = shown["main"] /\ request'["main"] = request["main"]
      BY <1>1, <2>2
    <3> QED
      BY <3>1 DEF ClientInv, ShownIsAnswer
  <2> QED
    BY <2>1, <2>2
<1> QED
  BY <1>1, <1>6, <1>7

LEMMA KeepsReadSome ==
    ASSUME ClientInv, NEW t \in Threads, ReadSome(t)
    PROVE  ClientInv'
<1> DEFINE g == ReadSoFar(t)
<1>1. /\ at[t] \in {"size", "data"} /\ at[t] \in Calling
      /\ UNCHANGED <<request, running, joinable, commands, mixed, stray, fault>>
      /\ ReadPart(t) \/ ReadData(t) \/ ReadZero(t) \/ ReadSize(t)
      /\ g \in Bytes /\ Len(g) <= need[t]
      /\ StreamTypes' /\ (link' = "closed" => down' = <<>>)
  BY ReadSomeTakes
<1>2. link' \in {"up", "lost"} /\ ~mixed' =>
        /\ ~InCall(Other(t))
        /\ Stage(at[t], link', up', down', outbox', g, need[t], request[t])
  BY ReadSomeTakes
<1>3. t = "main" /\ ~mixed =>
        link' \in {"up", "lost"} /\ ~mixed' /\ request[t].cmd # READ_ALL
  BY ReadSomeTakes
<1>4. /\ need \in [Threads -> Nat] /\ got \in [Threads -> Bytes]
      /\ shown \in [Threads -> Responses] /\ request \in [Threads -> Requests]
      /\ at \in [Threads -> MainPlaces \cup LoopPlaces]
  BY DEF ClientInv, TypeInv, PlaceTypes, CallTypes
<1>5. /\ mixed' \in BOOLEAN
      /\ fault' \in {"none", "uncaught exception", "joinable thread", "invalid memory"}
  BY <1>1, Zenon DEF ClientInv, TypeInv, OtherTypes
<1>6. link' \in {"up", "lost"} => down' \in Bytes /\ outbox' \in Writes
  BY <1>1 DEF StreamTypes
<1>7. /\ at[t] \in MainPlaces \cap LoopPlaces /\ at[t] \notin {"none", "done"}
      /\ "data" \in MainPlaces \cap LoopPlaces
  BY <1>1 DEF MainPlaces, LoopPlaces
<1>8. need[t] \in Nat /\ Len(g) \in Nat
  BY <1>1, <1>4, LenProperties DEF Bytes
<1>9. at[t] = "size" => need[t] = 4
  BY DEF ClientInv, ReadInv
<1>10. CASE ReadPart(t)
  <2>1. /\ Len(g) < need[t] /\ got' = [got EXCEPT ![t] = g]
        /\ at' = at /\ need' = need /\ shown' = shown
    BY <1>10 DEF ReadPart
  <2> HIDE DEF g
  <2> DEFINE place == at[t]
  <2>2. at' = [at EXCEPT ![t] = place]
    BY <1>4, <2>1
  <2>3. CallTypes'
    BY <1>1, <1>4, <2>1 DEF CallTypes
  <2>4. ShownIsAnswer'
    BY <1>1, <2>1 DEF ClientInv, ShownIsAnswer
  <2>5. got'[t] = g /\ need'[t] = need[t]
    BY <1>4, <2>1
  <2>6. \A s \in Threads : s # t => got'[s] = got[s] /\ need'[s] = need[s]
    BY <1>4, <2>1
  <2>7. /\ place \in {"size", "data"} /\ (place = "size" => need'[t] = 4)
        /\ Len(got'[t]) < need'[t]
        /\ t = "main" => place \in MainPlaces
        /\ t = "loop" => place \in LoopPlaces \ {"none", "done"}
    BY <1>1, <1>7, <1>9, <2>1, <2>5
  <2>8. link' \in {"up", "lost"} /\ ~mixed' =>
          /\ ~InCall(Other(t))
          /\ Stage(place, link', up', down', outbox', got'[t], need'[t], request[t])
    BY <1>2, <2>5
  <2> HIDE DEF place
  <2> QED
    BY <1>1, <1>5, <2>2, <2>3, <2>4, <2>6, <2>7, <2>8, CallStepKeeps
<1>11. CASE ReadData(t)
  <2>1. /\ Len(g) = need[t] /\ got' = [got EXCEPT ![t] = <<>>] /\ at[t] = "data"
        /\ Finish(t, need[t], g, TRUE) /\ need' = need
    <3>1. Len(g) = need[t]
      BY <1>1, <1>8, <1>11 DEF ReadData
    <3> QED
      BY <1>11, <3>1, Zenon DEF ReadData
  <2> HIDE DEF g
  <2>2. link' \in {"up", "lost"} /\ ~mixed' =>
          /\ ~InCall(Other(t))
          /\ up' = <<>> /\ down' = <<>> /\ outbox' = <<>> /\ Message(request[t], g)
    <3>1. ASSUME link' \in {"up", "lost"}, ~mixed'
          PROVE  up' = <<>> /\ down' = <<>> /\ outbox' = <<>> /\ Message(request[t], g)
      BY <1>1, <1>2, <1>6, <2>1, <3>1, DataRead
    <3> QED
      BY <1>2, <3>1
  <2>3. t = "main" /\ ~mixed =>
          Decode(request[t].table, request[t].cmd > 4, need[t], g) = Answer(request[t])
    <3>1. ASSUME t = "main", ~mixed
          PROVE  Decode(request[t].table, request[t].cmd > 4, need[t], g) = Answer(request[t])
      <4>1. Message(request[t], g) /\ request[t].cmd # READ_ALL
        BY <1>3, <2>2, <3>1
      <4>2. Decode(request[t].table, request[t].cmd > 4, Len(g), g) = Answer(request[t])
        BY <4>1, MessageShows
      <4>3. Len(g) = need[t]
        BY <2>1, Zenon
      <4> QED
        BY <4>2, <4>3, Zenon
    <3> QED
      BY <3>1, Zenon
  <2>4. shown' \in [Threads -> Responses] /\ ShownIsAnswer' /\ at' = [at EXCEPT ![t] = AfterCall(t)]
    <3>1. need[t] \in Int
      BY <1>8
    <3> QED
      BY <1>1, <2>1, <2>3, <3>1, FinishShows
  <2>5. CallTypes'
    BY <1>1, <1>4, <2>1, <2>4, Nothing0 DEF CallTypes
  <2>6. \A s \in Threads : s # t => got'[s] = got[s] /\ need'[s] = need[s]
    BY <1>4, <2>1
  <2> DEFINE place == AfterCall(t)
  <2>7. /\ at' = [at EXCEPT ![t] = place]
        /\ t = "main" => place \in MainPlaces
        /\ t = "loop" => place \in LoopPlaces \ {"none", "done"}
        /\ place \notin {"arg", "size", "data"}
    BY <2>4, AfterCallIs
  <2> HIDE DEF place
  <2> QED
    BY <1>1, <1>5, <2>2, <2>4, <2>5, <2>6, <2>7, CallStepKeeps
<1>12. CASE ReadZero(t)
  <2>1. /\ Len(g) = need[t] /\ got' = [got EXCEPT ![t] = <<>>] /\ at[t] = "size"
        /\ Number32(g) = 0 /\ Finish(t, 0, <<>>, TRUE) /\ need' = need
    <3>1. Len(g) = need[t] /\ at[t] = "size"
      BY <1>1, <1>8, <1>12 DEF ReadZero
    <3> QED
      BY <1>12, <3>1, Zenon DEF ReadZero
  <2> HIDE DEF g
  <2>2. link' \in {"up", "lost"} /\ ~mixed' =>
          /\ ~InCall(Other(t))
          /\ up' = <<>> /\ down' = <<>> /\ outbox' = <<>> /\ Message(request[t], <<>>)
    <3>1. ASSUME link' \in {"up", "lost"}, ~mixed'
          PROVE  up' = <<>> /\ down' = <<>> /\ outbox' = <<>> /\ Message(request[t], <<>>)
      <4>1. /\ up' = <<>>
            /\ \E b \in Bytes : /\ Message(request[t], b) /\ Number32(g) = Len(b)
                                /\ b = <<>> => down' = <<>> /\ outbox' = <<>>
        BY <1>1, <1>2, <1>6, <2>1, <3>1, SizeRead
      <4>2. PICK b \in Bytes : /\ Message(request[t], b) /\ Len(b) = 0
                               /\ b = <<>> => down' = <<>> /\ outbox' = <<>>
        BY <2>1, <4>1
      <4>3. b = <<>>
        BY <4>2, EmptySeq DEF Bytes
      <4> QED
        BY <4>1, <4>2, <4>3
    <3> QED
      BY <1>2, <3>1
  <2>3. t = "main" /\ ~mixed =>
          Decode(request[t].table, request[t].cmd > 4, 0, <<>>) = Answer(request[t])
    <3>1. ASSUME t = "main", ~mixed
          PROVE  Decode(request[t].table, request[t].cmd > 4, 0, <<>>) = Answer(request[t])
      <4>1. Message(request[t], <<>>) /\ request[t].cmd # READ_ALL
        BY <1>3, <2>2, <3>1
      <4>2. Decode(request[t].table, request[t].cmd > 4, Len(<<>>), <<>>) = Answer(request[t])
        BY <4>1, MessageShows
      <4> QED
        BY <4>2, Nothing0, Zenon
    <3> QED
      BY <3>1, Zenon
  <2>4. shown' \in [Threads -> Responses] /\ ShownIsAnswer' /\ at' = [at EXCEPT ![t] = AfterCall(t)]
    <3>1. 0 \in Int /\ <<>> \in Bytes
      BY Nothing0
    <3> QED
      BY <1>1, <2>1, <2>3, <3>1, FinishShows
  <2>5. CallTypes'
    BY <1>1, <1>4, <2>1, <2>4, Nothing0 DEF CallTypes
  <2>6. \A s \in Threads : s # t => got'[s] = got[s] /\ need'[s] = need[s]
    BY <1>4, <2>1
  <2> DEFINE place == AfterCall(t)
  <2>7. /\ at' = [at EXCEPT ![t] = place]
        /\ t = "main" => place \in MainPlaces
        /\ t = "loop" => place \in LoopPlaces \ {"none", "done"}
        /\ place \notin {"arg", "size", "data"}
    BY <2>4, AfterCallIs
  <2> HIDE DEF place
  <2> QED
    BY <1>1, <1>5, <2>2, <2>4, <2>5, <2>6, <2>7, CallStepKeeps
<1>13. CASE ReadSize(t)
  <2> DEFINE size == Number32(g)
  <2>1. /\ Len(g) = need[t] /\ got' = [got EXCEPT ![t] = <<>>] /\ at[t] = "size"
        /\ size # 0 /\ need' = [need EXCEPT ![t] = size]
        /\ at' = [at EXCEPT ![t] = "data"] /\ shown' = shown
    BY <1>1, <1>8, <1>13 DEF ReadSize
  <2> HIDE DEF g
  <2>2. size \in Nat
    BY <1>1, <1>9, <2>1, Number32Is
  <2>3. link' \in {"up", "lost"} /\ ~mixed' =>
          /\ ~InCall(Other(t))
          /\ Stage("data", link', up', down', outbox', <<>>, size, request[t])
    <3>1. ASSUME link' \in {"up", "lost"}, ~mixed'
          PROVE  Stage("data", link', up', down', outbox', <<>>, size, request[t])
      <4>1. \E b \in Bytes : /\ Number32(g) = Len(b)
                             /\ Stage("data", link', up', down', outbox', <<>>, Len(b), request[t])
        BY <1>1, <1>2, <1>6, <2>1, <3>1, SizeRead
      <4> QED
        BY <4>1
    <3> QED
      BY <1>2, <3>1
  <2> HIDE DEF size
  <2>4. got'[t] = <<>> /\ need'[t] = size /\ Len(<<>>) < size
    BY <1>4, <2>1, <2>2
  <2>5. CallTypes'
    BY <1>1, <1>4, <2>1, <2>2, Nothing0 DEF CallTypes
  <2>6. \A s \in Threads : s # t => got'[s] = got[s] /\ need'[s] = need[s]
    BY <1>4, <2>1
  <2>7. ShownIsAnswer'
    BY <1>1, <2>1 DEF ClientInv, ShownIsAnswer
  <2> DEFINE place == "data"
  <2>8. /\ at' = [at EXCEPT ![t] = place] /\ place \in {"arg", "size", "data"} /\ place # "size"
        /\ t = "main" => place \in MainPlaces
        /\ t = "loop" => place \in LoopPlaces \ {"none", "done"}
    BY <1>7, <2>1
  <2>9. link' \in {"up", "lost"} /\ ~mixed' =>
          /\ ~InCall(Other(t))
          /\ Stage(place, link', up', down', outbox', got'[t], need'[t], request[t])
    BY <2>3, <2>4
  <2>10. Len(got'[t]) < need'[t]
    BY <2>4
  <2> HIDE DEF place
  <2> QED
    BY <1>1, <1>5, <2>5, <2>6, <2>7, <2>8, <2>9, <2>10, CallStepKeeps
<1> QED
  BY <1>1, <1>10, <1>11, <1>12, <1>13

-----------------------------------------------------------------------------
LEMMA KeepsCallStep ==
    ASSUME ClientInv, NEW t \in Threads, CallStep(t)
    PROVE  ClientInv'
BY KeepsSendCmd, KeepsSendArg, KeepsReadSome, KeepsReadFails DEF CallStep

LEMMA KeepsUserStep == ClientInv /\ UserStep => ClientInv'
<1> SUFFICES ASSUME ClientInv, UserStep PROVE ClientInv'
  OBVIOUS
<1>1. CASE ReadNoNumber
  <2>1. fault' \in {"uncaught exception", "invalid memory"}
    BY <1>1 DEF ReadNoNumber
  <2> QED
    BY <1>1, <2>1, KeepsThrow, Zenon DEF ReadNoNumber
<1> QED
  BY <1>1, KeepsConnects, KeepsDisconnect, KeepsRead, KeepsRefuse, KeepsStart, KeepsStop, KeepsQuit
  DEF UserStep

LEMMA ClientNext == ClientInv /\ [Next]_vars => ClientInv'
<1> SUFFICES ASSUME ClientInv, [Next]_vars PROVE ClientInv'
  OBVIOUS
<1>1. "main" \in Threads /\ "loop" \in Threads
  BY DEF Threads
<1>2. CASE MainStep
  BY <1>1, <1>2, KeepsCallStep, KeepsJoin DEF MainStep
<1>3. CASE LoopStep
  BY <1>1, <1>3, KeepsCallStep, KeepsLoopBegin, KeepsLoopCheck DEF LoopStep
<1>4. CASE UNCHANGED vars
  <2>1. /\ UNCHANGED <<link, streams, calls, mixed>> /\ UNCHANGED <<at, joinable, globals, commands>>
        /\ UNCHANGED <<overlap, fault>>
    BY <1>4 DEF vars, globals, overlap
  <2>2. PlaceTypes'
    BY <2>1 DEF ClientInv, TypeInv, PlaceTypes
  <2>3. OtherTypes'
    BY <2>1, Zenon DEF globals, overlap, ClientInv, TypeInv, OtherTypes
  <2>4. ~joinable' => at'["loop"] \in {"none", "done"}
    BY <2>1 DEF ClientInv, AskInv
  <2> QED
    BY <2>1, <2>2, <2>3, <2>4, QuietStep
<1> QED
  BY <1>2, <1>3, <1>4, KeepsUserStep, KeepsServe, KeepsDeliver, KeepsServerGone, Zenon DEF Next

LEMMA ClientInvariant == Spec => []ClientInv
BY ClientInit, ClientNext, PTL DEF Spec

(* Every variable has its type, and a read never has more than it asked    *)
(* for (src/mbclient.cpp, src/TcpConnection.cpp).                          *)
THEOREM ClientTypesAreKept == Spec => []ClientTypeOK
<1>1. ClientInv => ClientTypeOK
  BY TypesAre DEF ClientInv
<1> QED
  BY <1>1, ClientInvariant, PTL

(* As long as calls do not overlap, no byte of one call is left for the    *)
(* next, in either direction: the sizes that TcpConnection announces are   *)
(* those of what it writes.                                                *)
THEOREM EndsStayInStep == Spec => []InStep
<1>1. ClientInv => InStep
  BY DEF ClientInv, StreamInv, InStep
<1> QED
  BY <1>1, ClientInvariant, PTL

(* A read that received its whole response, while calls have not           *)
(* overlapped, shows the registers that were asked for, and no value for a *)
(* number that no register has, if the number fits into two bytes: for     *)
(* every table, all splits of the bytes and tables of up to 255 registers  *)
(* (src/mbclient.cpp, readResponse and decodeResponse).                    *)
THEOREM WhatIsShownWasAsked == Spec => []ShownIsAsked
<1>1. ClientInv => ShownIsAsked
  <2>1. ClientInv => ShownIsAnswer
    BY DEF ClientInv
  <2>2. ClientInv => request["main"].number \in Int
    BY DEF ClientInv, TypeInv, CallTypes, Requests, Threads
  <2>3. ClientInv /\ IsSent(request["main"].number)
          => Answer(request["main"]) = Registers(request["main"])
    BY <2>2, AnswerIsAsked
  <2> QED
    BY <2>1, <2>3, Zenon DEF ShownIsAnswer, ShownIsAsked, Answered, Asked
<1> QED
  BY <1>1, ClientInvariant, PTL
=============================================================================
