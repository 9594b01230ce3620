---------------------------- MODULE ValuesProofs ----------------------------
(***************************************************************************)
(* Proofs about the conversions of Values, for bytes of any even number of *)
(* values.  An int is WordSize times its high register plus its low one;   *)
(* the quotient and the remainder of a division are the only ones with     *)
(* that property, and everything below follows from it.                    *)
(***************************************************************************)
EXTENDS Values, TLAPS

LEMMA WordFacts ==
  /\ ByteSize \in Nat /\ WordSize \in Nat /\ IntMax \in Nat
  /\ WordSize \div 2 \in Nat /\ WordSize \div 2 > 0
  /\ WordSize = 2 * (WordSize \div 2)
  /\ IntMax + 1 = WordSize * (WordSize \div 2)
PROOF
<1>1. ByteSize \in Nat /\ ByteSize >= 2 /\ ByteSize % 2 = 0 /\ IntMax \in Nat
  BY WidthAssumption, LimitsAssumption
<1>2. PICK k \in Int : ByteSize = 2 * k /\ k > 0
  <2>1. ByteSize = 2 * (ByteSize \div 2) /\ ByteSize \div 2 \in Int
    BY <1>1
  <2> QED
    BY <1>1, <2>1
<1>3. k * ByteSize \in Int /\ k * ByteSize > 0
  BY <1>1, <1>2
<1>4. WordSize = 2 * (k * ByteSize)
  BY <1>1, <1>2 DEF WordSize
<1>5. WordSize \div 2 = k * ByteSize
  BY <1>3, <1>4
<1>6. 2 * (IntMax + 1) = WordSize * WordSize
  BY <1>1, WidthAssumption DEF WordSize
<1>7. WordSize * WordSize = 2 * (WordSize * (k * ByteSize))
  BY <1>3, <1>4
<1> QED
  BY <1>1, <1>3, <1>4, <1>5, <1>6, <1>7

\* The quotient and the remainder of a division.
LEMMA Division ==
  ASSUME NEW n \in Int, NEW m \in Nat, m > 0
  PROVE  /\ n \div m \in Int
         /\ n % m \in 0..(m - 1)
         /\ n = m * (n \div m) + (n % m)
PROOF
<1> QED
  OBVIOUS

\* They are the only ones.
LEMMA DivisionIsUnique ==
  ASSUME NEW n \in Int, NEW m \in Nat, m > 0,
         NEW d \in Int, NEW r \in 0..(m - 1), n = m * d + r
  PROVE  n \div m = d /\ n % m = r
PROOF
<1>1. n \div m \in Int /\ n % m \in 0..(m - 1) /\ n = m * (n \div m) + (n % m)
  BY Division
<1> DEFINE e == n \div m
           s == n % m
<1>2. e \in Int /\ s \in 0..(m - 1) /\ m * d + r = m * e + s
  BY <1>1
<1> HIDE DEF e, s
<1>3. ~(e < d)
  <2> SUFFICES ASSUME e < d PROVE FALSE
    OBVIOUS
  <2>1. d - e >= 1 /\ d - e \in Int
    BY <1>2
  <2>2. m * (d - e) >= m
    BY <2>1
  <2>3. m * d - m * e = m * (d - e)
    BY <1>2
  <2> QED
    BY <1>2, <2>2, <2>3
<1>4. ~(d < e)
  <2> SUFFICES ASSUME d < e PROVE FALSE
    OBVIOUS
  <2>1. e - d >= 1 /\ e - d \in Int
    BY <1>2
  <2>2. m * (e - d) >= m
    BY <2>1
  <2>3. m * e - m * d = m * (e - d)
    BY <1>2
  <2> QED
    BY <1>2, <2>2, <2>3
<1>5. e = d
  BY <1>2, <1>3, <1>4
<1>6. s = r
  BY <1>2, <1>5
<1> QED
  BY <1>5, <1>6 DEF e, s

\* A register holds what it is given, and the cast to int16_t gives back a number
\* of either sign.
THEOREM SignedRoundTrip ==
  ASSUME NEW n \in SignedWords
  PROVE  n % WordSize \in Words /\ Signed(n % WordSize) = n
PROOF
<1> DEFINE H == WordSize \div 2
<1>1. H \in Nat /\ H > 0 /\ WordSize = 2 * H /\ WordSize \in Nat
  BY WordFacts
<1>2. n \in Int /\ -H <= n /\ n <= H - 1
  BY <1>1 DEF SignedWords
<1> HIDE DEF H
<1>3. CASE n >= 0
  <2>1. n \in 0..(WordSize - 1) /\ n = WordSize * 0 + n
    BY <1>1, <1>2, <1>3
  <2>2. n % WordSize = n
    BY <1>1, <1>2, <2>1, DivisionIsUnique
  <2> QED
    BY <1>1, <1>2, <2>1, <2>2 DEF Signed, Words, H
<1>4. CASE n < 0
  <2>1. n + WordSize \in 0..(WordSize - 1) /\ n = WordSize * (-1) + (n + WordSize)
    BY <1>1, <1>2, <1>4
  <2>2. n % WordSize = n + WordSize
    BY <1>1, <1>2, <2>1, DivisionIsUnique
  <2>3. n + WordSize >= H
    BY <1>1, <1>2
  <2> QED
    BY <1>1, <1>2, <2>1, <2>2, <2>3 DEF Signed, Words, H
<1> QED
  BY <1>2, <1>3, <1>4

\* A register holds an unsigned number as it is.
THEOREM UnsignedRoundTrip ==
  ASSUME NEW n \in Words
  PROVE  n % WordSize = n
PROOF
<1>1. WordSize \in Nat /\ WordSize > 0 /\ n \in 0..(WordSize - 1) /\ n \in Int
  BY WordFacts DEF Words
<1>2. n = WordSize * 0 + n
  BY <1>1
<1> QED
  BY <1>1, <1>2, DivisionIsUnique

LEMMA NumberOfPair ==
  ASSUME NEW a \in Int, NEW b \in Int
  PROVE  Number(<<a, b>>) =
           IF b * WordSize + a > IntMax THEN (b * WordSize + a) - WordSize * WordSize
                                        ELSE b * WordSize + a
PROOF
<1> DEFINE p == <<a, b>>
<1>1. p[1] = a /\ p[2] = b
  OBVIOUS
<1>2. Number(p) = IF p[2] * WordSize + p[1] > IntMax
                  THEN (p[2] * WordSize + p[1]) - WordSize * WordSize ELSE p[2] * WordSize + p[1]
  BY Zenon DEF Number
<1> QED
  BY <1>1, <1>2, Zenon

\* The two registers of an int, whatever its sign, make that int again.
THEOREM PairRoundTrip ==
  ASSUME NEW n \in Ints
  PROVE  /\ Pair(n)[1] \in Words /\ Pair(n)[2] \in Words
         /\ Number(Pair(n)) = n
PROOF
<1> DEFINE W == WordSize
           H == WordSize \div 2
           d == n \div WordSize
           r == n % WordSize
           e == d % WordSize
<1>1. H \in Nat /\ H > 0 /\ W = 2 * H /\ W \in Nat /\ W > 0 /\ IntMax \in Nat /\ IntMax + 1 = W * H
  BY WordFacts
<1>2. n \in Int /\ -(W * H) <= n /\ n < W * H
  BY <1>1 DEF Ints
<1>3. d \in Int /\ r \in 0..(W - 1) /\ n = W * d + r
  BY <1>1, <1>2, Division
<1>4. Pair(n) = <<r, e>>
  BY DEF Pair
<1> HIDE DEF W, H, d, r
<1>5. d < H
  <2> SUFFICES ASSUME d >= H PROVE FALSE
    BY <1>1, <1>3
  <2>1. W * d >= W * H
    BY <1>1, <1>3
  <2> QED
    BY <1>1, <1>2, <1>3, <2>1
<1>6. d >= -H
  <2> SUFFICES ASSUME d + 1 <= -H PROVE FALSE
    BY <1>1, <1>3
  <2>1. W * (d + 1) <= W * (-H)
    BY <1>1, <1>3
  <2>2. W * (d + 1) = W * d + W /\ W * (-H) = -(W * H)
    BY <1>1, <1>3
  <2> QED
    BY <1>1, <1>2, <1>3, <2>1, <2>2
<1>7. e = IF d >= 0 THEN d ELSE d + W
  <2>1. CASE d >= 0
    <3>1. d \in 0..(W - 1) /\ d = W * 0 + d
      BY <1>1, <1>3, <1>5, <2>1
    <3> QED
      BY <1>1, <1>3, <2>1, <3>1, DivisionIsUnique DEF W
  <2>2. CASE d < 0
    <3>1. d + W \in 0..(W - 1) /\ d = W * (-1) + (d + W)
      BY <1>1, <1>3, <1>6, <2>2
    <3>2. d % W = d + W
      BY <1>1, <1>3, <3>1, DivisionIsUnique
    <3> QED
      BY <1>3, <2>2, <3>2 DEF W
  <2> QED
    BY <1>3, <2>1, <2>2
<1> HIDE DEF e
<1>8. e \in 0..(W - 1)
  BY <1>1, <1>3, <1>5, <1>6, <1>7
<1>9. Number(<<r, e>>) = IF e * W + r > IntMax THEN (e * W + r) - W * W ELSE e * W + r
  <2>1. W * W \in Int /\ e * W + r \in Int
    BY <1>1, <1>3, <1>8
  <2>2. W = WordSize
    BY DEF W
  <2> QED
    BY <2>1, <2>2, <1>3, <1>8, NumberOfPair
<1>10. CASE d >= 0
  <2>1. e * W + r = n
    BY <1>1, <1>3, <1>7, <1>10
  <2>2. n <= IntMax
    BY <1>1, <1>2
  <2> QED
    BY <1>1, <1>2, <1>3, <1>4, <1>8, <1>9, <2>1, <2>2 DEF Words, W
<1>11. CASE d < 0
  <2>1. e = d + W
    BY <1>3, <1>7, <1>11
  <2>2. e * W = W * d + W * W
    BY <1>1, <1>3, <2>1
  <2>3. W * W = 2 * (W * H)
    BY <1>1
  <2>4. e * W + r = n + W * W /\ W * W \in Int
    BY <1>1, <1>2, <1>3, <2>2
  <2>5. n + W * W > IntMax /\ n + W * W - W * W = n
    BY <1>1, <1>2, <2>3, <2>4
  <2> QED
    BY <1>1, <1>3, <1>4, <1>8, <1>9, <2>4, <2>5 DEF Words, W
<1> QED
  BY <1>3, <1>10, <1>11

\* Swapping the registers twice, as a write and the read of it do with -B, leaves a
\* 32-bit value as it was.
THEOREM SwapTwice ==
  ASSUME NEW a, NEW b, NEW big \in BOOLEAN
  PROVE  Swap(Swap(<<a, b>>, big), big) = <<a, b>>
PROOF
<1> QED
  BY DEF Swap
=============================================================================
