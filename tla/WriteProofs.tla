---------------------------- MODULE WriteProofs ----------------------------
(***************************************************************************)
(* Proofs about the values a command line writes: what is typed is what    *)
(* the frame carries, and the library and the command line take the same   *)
(* texts for values.                                                       *)
(***************************************************************************)
EXTENDS CommandProofs, ValuesProofs, SequenceTheorems

\* The number and the cells a text stands for.
Num(p, t) == CliNumber(p.eFunction, p.eFormat, t).num
CellsOf(p, t) == Cells(p.eFormat, Num(p, t), p.bIsBigEndian)

\* The n-th value of a block is the one a text stands for.
Placed(p, block, n, t) ==
  IF Wide(p.eFormat)
  THEN block[2 * n - 1] = CellsOf(p, t)[1] /\ block[2 * n] = CellsOf(p, t)[2]
  ELSE block[n] = CellsOf(p, t)[1]

Stored(p, block, ts) ==
  /\ block \in [1..CellCount(p) -> Int]
  /\ \A n \in 1..Len(ts) :
       CliAccepts(p.eFunction, p.eFormat, ts[n]) /\ Placed(p, block, n, ts[n])

WritesValues(p) == p.bIsWrite /\ ~p.bIsReportSlaveID

FormatInv ==
  /\ pc = "options" => q.eFormat # "bin"
  /\ pc \in AfterOptions => (q.eFormat = "bin" <=> UsesBinary(q.eFunction))

BlockInv ==
  /\ pc = "values" => Stored(q, pvData, texts) /\ q.iCount = nb /\ Len(texts) < nb
  /\ pc \in AfterValues /\ WritesValues(q) =>
       Stored(q, pvData, texts) /\ q.iCount = nb /\ Len(texts) = nb
  /\ pc = "written" => WritesValues(q) /\ frame = Frame(q, pvData)

WInv == CInv /\ FormatInv /\ BlockInv

-----------------------------------------------------------------------------
LEMMA RangesAreInts == 0..1 \subseteq Ints /\ Words \subseteq Ints /\ SignedWords \subseteq Ints
PROOF
<1> DEFINE H == WordSize \div 2
           W == WordSize
<1>1. W \in Nat /\ H \in Nat /\ H > 0 /\ W = 2 * H /\ IntMax \in Nat /\ IntMax + 1 = W * H
  BY WordFacts
<1> HIDE DEF H, W
<1>2. W * H >= W
  BY <1>1
<1>3. IntMax + 1 >= W
  BY <1>1, <1>2
<1>4. Words = 0..(W - 1) /\ SignedWords = (-H)..(H - 1) /\ Ints = (-IntMax - 1)..IntMax
  BY DEF Words, SignedWords, Ints, W, H
<1> QED
  BY <1>1, <1>3, <1>4

\* What is accepted is an int, and belongs to the range of its format.
LEMMA AcceptedFacts ==
  ASSUME NEW f, NEW format \in Formats, NEW t, CliAccepts(f, format, t)
  PROVE  LET n == CliNumber(f, format, t).num
         IN /\ n \in Ints
            /\ ~IsReadOnly(f) /\ (f # "coil" => format # "string")
            /\ f = "coil" => n \in 0..1
            /\ f # "coil" /\ format = "int16" => n \in SignedWords
            /\ f # "coil" /\ format \in {"dec", "hex", "bin"} => n \in Words
PROOF
  BY DEF CliAccepts, GetsInt, GetsDouble, Formats, UsesBinary

LEMMA IntsAreIntegers == \A n \in Ints : n \in Int
PROOF
  BY WordFacts DEF Ints

LEMMA SingleInts ==
  ASSUME NEW n \in Ints
  PROVE  Single(n) \in Ints
PROOF
<1> DEFINE K == IntMax
           H == WordSize \div 2
<1>1. K \in Nat /\ n \in (-K - 1)..K
  BY WordFacts DEF Ints
<1>2. H \in Nat /\ K + 1 = (2 * H) * H
  BY WordFacts
<1>3. H * H \in Nat /\ K + 1 = 2 * (H * H)
  BY <1>1, <1>2
<1> DEFINE s == H * H
<1>4. s \in Nat /\ K + 1 = 2 * s
  BY <1>3
<1> HIDE DEF K, H, s
<1>5. n - (n % 2) \in (-K - 1)..K
  BY <1>1, <1>4
<1> QED
  BY <1>5 DEF Single, Ints, K

LEMMA WordsAreIntegers == 0 \in Words /\ \A w \in Words : w \in Int
PROOF
<1>1. WordSize \in Nat /\ WordSize > 0
  BY WordFacts
<1> QED
  BY <1>1 DEF Words

LEMMA RemaindersAreWords ==
  ASSUME NEW n \in Int
  PROVE  n % WordSize \in Words /\ n \div WordSize \in Int
PROOF
<1>1. WordSize \in Nat /\ WordSize > 0
  BY WordFacts
<1> QED
  BY <1>1, Division DEF Words

LEMMA CellsFacts ==
  ASSUME NEW format \in Formats, NEW n \in Ints, NEW big \in BOOLEAN
  PROVE  /\ Wide(format) => \E a, b \in Words : Cells(format, n, big) = <<a, b>>
         /\ ~Wide(format) => \E a \in Words : Cells(format, n, big) = <<a>>
PROOF
<1>1. ASSUME NEW m \in Ints
      PROVE  \E a, b \in Words : Swap(Pair(m), big) = <<a, b>>
  <2> DEFINE x == m % WordSize
             y == (m \div WordSize) % WordSize
  <2>1. x \in Words /\ y \in Words
    BY IntsAreIntegers, RemaindersAreWords
  <2>2. Pair(m) = <<x, y>>
    BY DEF Pair
  <2> HIDE DEF x, y
  <2>3. Swap(Pair(m), big) = IF big THEN <<y, x>> ELSE <<x, y>>
    BY <2>2 DEF Swap
  <2> QED
    BY <2>1, <2>3
<1>2. CASE format = "int"
  BY <1>1, <1>2 DEF Cells, Wide
<1>3. CASE format = "float"
  BY <1>1, <1>3, SingleInts DEF Cells, Wide
<1>4. CASE format \notin {"int", "float"}
  <2>1. n % WordSize \in Words
    BY IntsAreIntegers, RemaindersAreWords
  <2>2. Cells(format, n, big) = <<n % WordSize>>
    BY <1>4 DEF Cells
  <2> QED
    BY <1>4, <2>1, <2>2 DEF Wide
<1> QED
  BY <1>2, <1>3, <1>4

-----------------------------------------------------------------------------
\* A value read back from its place is the one that was typed.
LEMMA ReadBack ==
  ASSUME NEW p \in Context, p.eFormat = "bin" <=> UsesBinary(p.eFunction),
         NEW t, CliAccepts(p.eFunction, p.eFormat, t),
         NEW block, NEW n \in Nat \ {0}, Placed(p, block, n, t)
  PROVE  Head(Shown(p.eFormat, block, n - 1, p.bIsBigEndian)) =
           IF p.eFormat = "float" THEN Single(Num(p, t)) ELSE Num(p, t)
PROOF
<1> DEFINE f == p.eFunction
           format == p.eFormat
           big == p.bIsBigEndian
           m == Num(p, t)
           w == block[(n - 1) + 1]
           pair == <<block[2 * (n - 1) + 1], block[2 * (n - 1) + 2]>>
<1>1. format \in Formats /\ big \in BOOLEAN /\ f \in Functions
  BY DEF Context
<1>2. /\ m \in Ints /\ ~IsReadOnly(f) /\ (f # "coil" => format # "string")
      /\ f = "coil" => m \in 0..1
      /\ f # "coil" /\ format = "int16" => m \in SignedWords
      /\ f # "coil" /\ format \in {"dec", "hex", "bin"} => m \in Words
  BY <1>1, AcceptedFacts DEF Num
<1>3. f \in {"coil", "holdingReg"} /\ (f = "coil" <=> format = "bin")
  BY <1>1, <1>2 DEF Functions, IsReadOnly, UsesBinary
<1>4. (n - 1) + 1 = n /\ 2 * (n - 1) + 1 = 2 * n - 1 /\ 2 * (n - 1) + 2 = 2 * n
  OBVIOUS
<1>5. w = block[n] /\ pair = <<block[2 * n - 1], block[2 * n]>>
  BY <1>4
<1>6. ~Wide(format) => block[n] = Cells(format, m, big)[1]
  BY DEF Placed, CellsOf, Num
<1>7. Wide(format) => /\ block[2 * n - 1] = Cells(format, m, big)[1]
                      /\ block[2 * n] = Cells(format, m, big)[2]
  BY DEF Placed, CellsOf, Num
<1>8. Shown(format, block, n - 1, big) =
        CASE format = "bin"    -> <<IF w # 0 THEN 1 ELSE 0>>
          [] format = "dec"    -> IF w >= WordSize \div 2 THEN <<w, Signed(w)>> ELSE <<w>>
          [] format = "int16"  -> <<Signed(w)>>
          [] format = "hex"    -> <<w>>
          [] format = "string" -> <<w \div ByteSize, w % ByteSize>>
          [] OTHER             -> <<Number(Swap(pair, big))>>
  BY DEF Shown
<1> HIDE DEF w, pair, f, format, big, m
<1>9. CASE format \in {"bin", "dec", "hex"}
  <2>1. m \in Words
    <3>1. f = "coil" => m \in Words
      <4>1. 0 \in Words /\ 1 \in Words
        BY WordFacts DEF Words
      <4> QED
        BY <1>2, <4>1
    <3> QED
      BY <1>2, <1>9, <3>1
  <2>2. Cells(format, m, big) = <<m % WordSize>>
    BY <1>9 DEF Cells
  <2>3. w = m
    BY <1>5, <1>6, <1>9, <2>1, <2>2, UnsignedRoundTrip DEF Wide
  <2>4. CASE format = "bin"
    <3>1. m \in 0..1
      BY <1>2, <1>3, <2>4
    <3>2. (IF w # 0 THEN 1 ELSE 0) = m
      BY <2>3, <3>1
    <3>3. Shown(format, block, n - 1, big) = <<IF w # 0 THEN 1 ELSE 0>>
      BY <1>8, <2>4
    <3> QED
      BY <2>4, <3>2, <3>3 DEF format, big, m
  <2>5. CASE format = "hex"
    <3>1. Shown(format, block, n - 1, big) = <<w>>
      BY <1>8, <2>5
    <3> QED
      BY <2>3, <2>5, <3>1 DEF format, big, m
  <2>6. CASE format = "dec"
    <3>1. Shown(format, block, n - 1, big) \in {<<w, Signed(w)>>, <<w>>}
      BY <1>8, <2>6
    <3>2. Head(Shown(format, block, n - 1, big)) = w
      BY <3>1
    <3> QED
      BY <2>3, <2>6, <3>2 DEF format, big, m
  <2> QED
    BY <1>9, <2>4, <2>5, <2>6
<1>10. CASE format = "int16"
  <2>1. m \in SignedWords
    BY <1>2, <1>3, <1>10
  <2>2. Cells(format, m, big) = <<m % WordSize>>
    BY <1>10 DEF Cells
  <2>3. w = m % WordSize
    BY <1>5, <1>6, <1>10, <2>2 DEF Wide
  <2>4. Signed(w) = m
    BY <2>1, <2>3, SignedRoundTrip
  <2>5. Shown(format, block, n - 1, big) = <<Signed(w)>>
    BY <1>8, <1>10
  <2> QED
    BY <1>10, <2>4, <2>5 DEF format, big, m
<1>11. CASE Wide(format)
  <2> DEFINE k == IF format = "float" THEN Single(m) ELSE m
             c == Cells(format, m, big)
  <2>1. c = Swap(Pair(k), big)
    BY <1>11 DEF Cells, Wide
  <2>2. k \in Ints
    BY <1>2, SingleInts
  <2>3. pair = <<c[1], c[2]>>
    BY <1>5, <1>7, <1>11
  <2> DEFINE x == k % WordSize
             y == (k \div WordSize) % WordSize
  <2>4. Pair(k) = <<x, y>>
    BY DEF Pair
  <2>5. Number(<<x, y>>) = k
    BY <2>2, <2>4, PairRoundTrip
  <2> HIDE DEF x, y, k, c
  <2>6. c = IF big THEN <<y, x>> ELSE <<x, y>>
    BY <2>1, <2>4 DEF Swap
  <2>7. pair = c
    BY <2>3, <2>6
  <2>8. Swap(pair, big) = <<x, y>>
    BY <1>1, <2>6, <2>7 DEF Swap
  <2>9. Shown(format, block, n - 1, big) = <<Number(Swap(pair, big))>>
    BY <1>8, <1>11 DEF Wide
  <2>10. Head(Shown(format, block, n - 1, big)) = k
    BY <2>5, <2>8, <2>9
  <2> QED
    BY <2>10 DEF k, format, big, m
<1> QED
  BY <1>1, <1>2, <1>3, <1>9, <1>10, <1>11 DEF Formats, Wide

LEMMA WholeSubSeq ==
  ASSUME NEW N \in Nat, N >= 1, NEW block \in [1..N -> Int]
  PROVE  /\ Len(SubSeq(block, 1, N)) = N
         /\ \A k \in 1..N : SubSeq(block, 1, N)[k] = block[k]
PROOF
<1>1. (\A k \in 1..N : block[k] \in Int) /\ 1 \in Int /\ N \in Int
  OBVIOUS
<1>2. /\ Len(SubSeq(block, 1, N)) = IF 1 <= N THEN N - 1 + 1 ELSE 0
      /\ \A k \in 1 .. N - 1 + 1 : SubSeq(block, 1, N)[k] = block[1 + k - 1]
  BY <1>1, SubSeqProperties
<1>3. (IF 1 <= N THEN N - 1 + 1 ELSE 0) = N /\ N - 1 + 1 = N
  OBVIOUS
<1>4. \A k \in 1..N : 1 + k - 1 = k
  OBVIOUS
<1> QED
  BY <1>2, <1>3, <1>4

\* The frame carries the block, whole.
LEMMA FrameFacts ==
  ASSUME NEW p \in Context, p.iCount >= 1, NEW block \in [1..CellCount(p) -> Int]
  PROVE  LET r == Frame(p, block)
         IN /\ Len(r.cells) = CellCount(p)
            /\ \A k \in 1..CellCount(p) : r.cells[k] = block[k]
            /\ Len(r.cells) > 1 => r.code \in {15, 16}
PROOF
<1> DEFINE N == CellCount(p)
           r == Frame(p, block)
<1>1. N \in Nat /\ N >= 1
  <2>1. p.iCount \in Int
    BY DEF Context
  <2> QED
    BY <2>1 DEF CellCount
<1>2. /\ Len(SubSeq(block, 1, N)) = N
      /\ \A k \in 1..N : SubSeq(block, 1, N)[k] = block[k]
  BY <1>1, WholeSubSeq
<1>3. \/ r.cells = <<block[1]>> /\ N = 1
      \/ r.cells = SubSeq(block, 1, N) /\ r.code \in {15, 16}
  <2> DEFINE one == [code |-> 5, cells |-> <<block[1]>>]
             oneReg == [code |-> 6, cells |-> <<block[1]>>]
             many == [code |-> 15, cells |-> SubSeq(block, 1, N)]
             manyRegs == [code |-> 16, cells |-> SubSeq(block, 1, N)]
  <2>1. \/ N = 1 /\ (r = one \/ r = oneReg)
        \/ r = many \/ r = manyRegs
    <3> HIDE DEF one, oneReg, many, manyRegs
    <3> QED
      BY DEF Frame, one, oneReg, many, manyRegs
  <2> HIDE DEF r, N
  <2> QED
    BY <2>1
<1> HIDE DEF N, r
<1>4. Len(r.cells) = N
  BY <1>2, <1>3
<1>5. ASSUME NEW k \in 1..N PROVE r.cells[k] = block[k]
  BY <1>1, <1>2, <1>3
<1>6. Len(r.cells) > 1 => r.code \in {15, 16}
  BY <1>3, <1>4
<1> QED
  BY <1>4, <1>5, <1>6 DEF N, r

-----------------------------------------------------------------------------
\* A step of the options, the device or the bridge keeps the formats apart.
LEMMA EarlyStep ==
  ASSUME WInv, CInv', pc' \in Early,
         \/ \E w \in OptionWords : Legal(w) /\ q' = Applied(q, w) /\ pc = "options" /\ pc' = "options"
         \/ q' = Normalized(q, StartRefs) /\ pc = "options" /\ pc' = "device"
         \/ q'.eFormat = q.eFormat /\ q'.eFunction = q.eFunction /\ pc \in {"device", "bridge"}
            /\ pc' # "options"
  PROVE  WInv'
PROOF
<1>1. BlockInv'
  BY DEF BlockInv, Early, AfterValues
<1>2. FormatInv'
  <2>1. CASE \E w \in OptionWords : Legal(w) /\ q' = Applied(q, w) /\ pc = "options" /\ pc' = "options"
    <3>1. PICK w \in OptionWords : Legal(w) /\ q' = Applied(q, w)
      BY <2>1
    <3>2. q.eFormat # "bin" /\ q \in Context
      BY <2>1 DEF WInv, FormatInv, CInv
    <3>3. w.opt = "t" => w.text \in (Formats \ {"dec", "bin"}) \cup {"plain"}
      <4>1. w.text # "illegal"
        BY <3>1 DEF Legal
      <4> QED
        BY <4>1, CommandLineAssumption
    <3>4. CASE w.opt = "t"
      <4>1. q' = [q EXCEPT !.eFunction = FunctionOf(w.list[1]),
                           !.eFormat = IF w.text = "plain" THEN @ ELSE w.text]
        BY <3>1, <3>4 DEF Applied
      <4>2. q'.eFormat = IF w.text = "plain" THEN q.eFormat ELSE w.text
        BY <3>2, <4>1 DEF Context
      <4>3. q'.eFormat # "bin"
        BY <3>2, <3>3, <3>4, <4>2
      <4> QED
        BY <2>1, <4>3 DEF FormatInv, AfterOptions
    <3>5. CASE w.opt # "t"
      <4>1. q'.eFormat = q.eFormat
        BY <3>1, <3>2, <3>5 DEF Applied, Context
      <4> QED
        BY <2>1, <3>2, <4>1 DEF FormatInv, AfterOptions
    <3> QED
      BY <3>4, <3>5
  <2>2. CASE q' = Normalized(q, StartRefs) /\ pc = "options" /\ pc' = "device"
    <3>1. q.eFormat # "bin" /\ q \in Context
      BY <2>2 DEF WInv, FormatInv, CInv
    <3>2. /\ q'.eFunction = q.eFunction
          /\ q'.eFormat = IF UsesBinary(q.eFunction) THEN "bin" ELSE q.eFormat
      BY <2>2, <3>1 DEF Normalized, Context
    <3> QED
      BY <2>2, <3>1, <3>2 DEF FormatInv
  <2>3. CASE q'.eFormat = q.eFormat /\ q'.eFunction = q.eFunction /\ pc \in {"device", "bridge"}
             /\ pc' # "options"
    BY <2>3 DEF WInv, FormatInv, AfterOptions
  <2> QED
    BY <2>1, <2>2, <2>3
<1> QED
  BY <1>1, <1>2 DEF WInv

\* A line that is refused writes nothing.
LEMMA RefusedStep ==
  ASSUME CInv', pc' \in {"refused", "informed"}
  PROVE  WInv'
PROOF
  BY DEF WInv, FormatInv, BlockInv, AfterOptions, AfterValues

\* What makes the block right depends on these fields only.
LEMMA SameStored ==
  ASSUME NEW p, NEW r, NEW block, NEW ts, Stored(p, block, ts),
         r.eFormat = p.eFormat, r.eFunction = p.eFunction, r.iCount = p.iCount,
         r.bIsBigEndian = p.bIsBigEndian
  PROVE  Stored(r, block, ts)
PROOF
  BY DEF Stored, Placed, CellsOf, Num, CellCount

LEMMA CountValuesWrites ==
  ASSUME WInv, CInv', NEW n \in 0..MaxValues, CountValues(n)
  PROVE  WInv'
PROOF
<1>1. pc = "values?" /\ nb' = n /\ UNCHANGED texts /\ n \in Nat
  BY CommandLineAssumption DEF CountValues
<1>2. q \in Context /\ texts = <<>> /\ (q.eFormat = "bin" <=> UsesBinary(q.eFunction))
  BY <1>1 DEF WInv, CInv, FormatInv, ArgumentsInv, Early, AfterOptions
<1>3. CASE Refuse
  <2>1. pc' = "refused"
    BY <1>3 DEF Refuse
  <2> QED
    BY <2>1, RefusedStep
<1>4. CASE q.bIsReportSlaveID /\ q' = q /\ pc' = "lists"
  BY <1>1, <1>2, <1>4 DEF WInv, FormatInv, BlockInv, WritesValues
<1>5. CASE n = 0 /\ q' = [q EXCEPT !.bIsWrite = FALSE] /\ pc' = "lists"
  <2>1. ~q'.bIsWrite /\ q'.eFormat = q.eFormat /\ q'.eFunction = q.eFunction
    BY <1>2, <1>5 DEF Context
  <2> QED
    BY <1>1, <1>2, <1>5, <2>1 DEF WInv, FormatInv, BlockInv, WritesValues
<1>6. CASE /\ n > 0 /\ q' = [q EXCEPT !.bIsPolling = FALSE, !.iCount = n] /\ pc' = "values"
           /\ pvData' = [cell \in 1..CellCount(q') |-> 0]
  <2>1. q'.iCount = n /\ q'.eFormat = q.eFormat /\ q'.eFunction = q.eFunction
    BY <1>2, <1>6 DEF Context
  <2>2. FormatInv'
    BY <1>2, <1>6, <2>1 DEF FormatInv
  <2>3. Len(texts') = 0
    BY <1>1, <1>2
  <2>4. pvData' \in [1..CellCount(q') -> Int]
    BY <1>6
  <2>5. Stored(q', pvData', texts')
    BY <2>3, <2>4 DEF Stored
  <2>6. BlockInv'
    BY <1>1, <1>6, <2>1, <2>3, <2>5 DEF BlockInv, AfterValues
  <2> QED
    BY <2>2, <2>6 DEF WInv
<1> QED
  BY <1>1, <1>3, <1>4, <1>5, <1>6 DEF CountValues, Counted

\* A text joins the block; the values before it stay what they were.
LEMMA StoredNext ==
  ASSUME NEW p \in Context, NEW block, NEW ts \in Seq(Texts), NEW t \in Texts,
         Stored(p, block, ts), CliAccepts(p.eFunction, p.eFormat, t),
         Len(ts) < p.iCount
  PROVE  Stored(p, Store(block, Len(ts), CellsOf(p, t)), Append(ts, t))
PROOF
<1> DEFINE N == CellCount(p)
           i == Len(ts)
           k == p.iCount
           s == Store(block, i, CellsOf(p, t))
           us == Append(ts, t)
<1>1. i \in Nat /\ k \in Int /\ i < k
  BY DEF Context
<1>2. N = k * (IF Wide(p.eFormat) THEN 2 ELSE 1)
  BY DEF CellCount
<1>3. block \in [1..N -> Int]
  BY DEF Stored
<1>4. /\ Len(us) = i + 1 /\ us[i + 1] = t
      /\ \A n \in 1..i : us[n] = ts[n]
  OBVIOUS
<1>5. \A n \in 1..i : CliAccepts(p.eFunction, p.eFormat, ts[n]) /\ Placed(p, block, n, ts[n])
  BY DEF Stored
<1>6. Num(p, t) \in Ints /\ p.eFormat \in Formats /\ p.bIsBigEndian \in BOOLEAN
  BY AcceptedFacts DEF Num, Context
<1> HIDE DEF N, i, k, us
<1>7. CASE Wide(p.eFormat)
  <2>1. PICK a, b \in Int : CellsOf(p, t) = <<a, b>>
    BY <1>6, <1>7, CellsFacts, WordsAreIntegers DEF CellsOf
  <2>2. N \in Nat /\ N = 2 * k
    BY <1>1, <1>2, <1>7
  <2>3. /\ s \in [1..N -> Int]
        /\ 2 * i + 2 \in 1..N => s[2 * i + 1] = a /\ s[2 * i + 2] = b
        /\ \A c \in 1..N : c \notin {2 * i + 1, 2 * i + 2} => s[c] = block[c]
    <3>1. s = [ n \in 1..N |-> IF n - i * 2 \in 1..2 THEN <<a, b>>[n - i * 2] ELSE block[n] ]
      BY <1>3, <2>1 DEF Store
    <3> HIDE DEF s
    <3>2. s = [ n \in 1..N |-> IF n = 2 * i + 1 THEN a ELSE IF n = 2 * i + 2 THEN b ELSE block[n] ]
      BY <1>1, <2>2, <3>1
    <3>3. s \in [1..N -> Int]
      BY <1>3, <3>2
    <3>4. ASSUME 2 * i + 2 \in 1..N PROVE s[2 * i + 1] = a /\ s[2 * i + 2] = b
      <4>1. 2 * i + 1 \in 1..N /\ 2 * i + 2 # 2 * i + 1
        BY <1>1, <2>2, <3>4
      <4> QED
        BY <3>2, <3>4, <4>1
    <3> QED
      BY <3>2, <3>3, <3>4
  <2> HIDE DEF s
  <2>4. s[2 * i + 1] = a /\ s[2 * i + 2] = b
    BY <1>1, <2>2, <2>3
  <2>5. Placed(p, s, i + 1, t)
    <3>1. 2 * (i + 1) - 1 = 2 * i + 1 /\ 2 * (i + 1) = 2 * i + 2
      BY <1>1
    <3> QED
      BY <1>7, <2>1, <2>4, <3>1 DEF Placed
  <2>6. ASSUME NEW n \in 1..i PROVE Placed(p, s, n, ts[n])
    <3>1. /\ 2 * n - 1 \in 1..N /\ 2 * n - 1 \notin {2 * i + 1, 2 * i + 2}
          /\ 2 * n \in 1..N /\ 2 * n \notin {2 * i + 1, 2 * i + 2}
      BY <1>1, <2>2
    <3>2. s[2 * n - 1] = block[2 * n - 1] /\ s[2 * n] = block[2 * n]
      BY <2>3, <3>1
    <3> QED
      BY <1>5, <1>7, <3>2 DEF Placed
  <2>7. ASSUME NEW n \in 1..Len(us)
        PROVE  CliAccepts(p.eFunction, p.eFormat, us[n]) /\ Placed(p, s, n, us[n])
    <3>1. n \in 1..i \/ n = i + 1
      BY <1>1, <1>4
    <3> QED
      BY <1>4, <1>5, <2>5, <2>6, <3>1
  <2> QED
    BY <2>3, <2>7 DEF Stored, s, us, N, i
<1>8. CASE ~Wide(p.eFormat)
  <2>1. PICK a \in Int : CellsOf(p, t) = <<a>>
    BY <1>6, <1>8, CellsFacts, WordsAreIntegers DEF CellsOf
  <2>2. N \in Nat /\ N = k
    BY <1>1, <1>2, <1>8
  <2>3. /\ s \in [1..N -> Int]
        /\ i + 1 \in 1..N => s[i + 1] = a
        /\ \A c \in 1..N : c # i + 1 => s[c] = block[c]
    <3>1. s = [ n \in 1..N |-> IF n - i \in 1..1 THEN <<a>>[n - i] ELSE block[n] ]
      <4>1. s = [ n \in 1..N |-> IF n - i * 1 \in 1..1 THEN <<a>>[n - i * 1] ELSE block[n] ]
        BY <1>3, <2>1 DEF Store
      <4>2. i * 1 = i
        BY <1>1
      <4> QED
        BY <4>1, <4>2
    <3> HIDE DEF s
    <3>2. s = [ n \in 1..N |-> IF n = i + 1 THEN a ELSE block[n] ]
      BY <1>1, <2>2, <3>1
    <3> QED
      BY <1>3, <3>2
  <2> HIDE DEF s
  <2>4. s[i + 1] = a
    BY <1>1, <2>2, <2>3
  <2>5. Placed(p, s, i + 1, t)
    BY <1>8, <2>1, <2>4 DEF Placed
  <2>6. ASSUME NEW n \in 1..i PROVE Placed(p, s, n, ts[n])
    <3>1. n \in 1..N /\ n # i + 1
      BY <1>1, <2>2
    <3>2. s[n] = block[n]
      BY <2>3, <3>1
    <3> QED
      BY <1>5, <1>8, <3>2 DEF Placed
  <2>7. ASSUME NEW n \in 1..Len(us)
        PROVE  CliAccepts(p.eFunction, p.eFormat, us[n]) /\ Placed(p, s, n, us[n])
    <3>1. n \in 1..i \/ n = i + 1
      BY <1>1, <1>4
    <3> QED
      BY <1>4, <1>5, <2>5, <2>6, <3>1
  <2> QED
    BY <2>3, <2>7 DEF Stored, s, us, N, i
<1> QED
  BY <1>7, <1>8

LEMMA ConvertValueWrites ==
  ASSUME WInv, CInv', NEW t \in Texts, ConvertValue(t)
  PROVE  WInv'
PROOF
<1>1. pc = "values" /\ texts' = Append(texts, t) /\ nb' = nb
  BY DEF ConvertValue
<1>2. CASE Refuse
  <2>1. pc' = "refused"
    BY <1>2 DEF Refuse
  <2> QED
    BY <2>1, RefusedStep
<1>3. CASE /\ CliAccepts(q.eFunction, q.eFormat, t) /\ q' = q
           /\ pvData' = Store(pvData, Len(texts), CellsOf(q, t))
           /\ pc' = IF Len(texts) + 1 = nb THEN "lists" ELSE "values"
  <2>1. /\ q \in Context /\ texts \in Seq(Texts) /\ nb \in Nat
        /\ Stored(q, pvData, texts) /\ q.iCount = nb /\ Len(texts) < nb
        /\ q.eFormat = "bin" <=> UsesBinary(q.eFunction)
    BY <1>1 DEF WInv, CInv, BlockInv, FormatInv, AfterOptions
  <2>2. Stored(q', pvData', texts')
    BY <1>1, <1>3, <2>1, StoredNext
  <2>3. Len(texts') = Len(texts) + 1 /\ Len(texts) \in Nat
    BY <1>1, <2>1
  <2>4. /\ pc' = "lists" => Len(texts') = nb
        /\ pc' = "values" => Len(texts') < nb
        /\ pc' \in {"lists", "values"}
    BY <1>3, <2>1, <2>3
  <2>5. BlockInv'
    BY <1>1, <1>3, <2>1, <2>2, <2>4 DEF BlockInv, AfterValues
  <2>6. FormatInv'
    BY <1>3, <2>1, <2>4 DEF FormatInv
  <2> QED
    BY <2>5, <2>6 DEF WInv
<1> QED
  BY <1>2, <1>3 DEF ConvertValue, CellsOf, Num

LEMMA LastWrites ==
  ASSUME WInv, CInv', CheckLists \/ CheckAddresses \/ WriteOnce
  PROVE  WInv'
PROOF
<1>1. UNCHANGED <<texts, nb>>
  BY DEF CheckLists, CheckAddresses, WriteOnce
<1>2. CASE Refuse
  <2>1. pc' = "refused"
    BY <1>2 DEF Refuse
  <2> QED
    BY <2>1, RefusedStep
<1>3. CASE /\ \/ pc = "lists" /\ pc' = "addresses" /\ (q' = q \/ q' = [q EXCEPT !.piSlaveAddr = <<1>>, !.iSlaveCount = 1])
              \/ pc = "addresses" /\ pc' = "ready" /\ q' = q
              \/ pc = "ready" /\ pc' = "written" /\ q' = q /\ WritesValues(q) /\ frame' = Frame(q, pvData)
           /\ pvData' = pvData
  <2>1. q \in Context /\ (q.eFormat = "bin" <=> UsesBinary(q.eFunction))
    BY <1>3 DEF WInv, CInv, FormatInv, AfterOptions
  <2>2. /\ q'.eFormat = q.eFormat /\ q'.eFunction = q.eFunction /\ q'.iCount = q.iCount
        /\ q'.bIsBigEndian = q.bIsBigEndian
        /\ q'.bIsWrite = q.bIsWrite /\ q'.bIsReportSlaveID = q.bIsReportSlaveID
    BY <1>3, <2>1 DEF Context
  <2>3. WritesValues(q') => WritesValues(q)
    BY <2>2 DEF WritesValues
  <2>4. WritesValues(q) => Stored(q, pvData, texts) /\ q.iCount = nb /\ Len(texts) = nb
    BY <1>3 DEF WInv, BlockInv, AfterValues
  <2>5. WritesValues(q) => Stored(q', pvData', texts')
    BY <1>1, <1>3, <2>2, <2>4, SameStored
  <2>6. pc' = "written" => WritesValues(q') /\ frame' = Frame(q', pvData')
    BY <1>3
  <2>7. pc' \in {"addresses", "ready", "written"}
    BY <1>3
  <2>8. BlockInv'
    BY <1>1, <2>2, <2>3, <2>4, <2>5, <2>6, <2>7 DEF BlockInv
  <2>9. FormatInv'
    BY <2>1, <2>2, <2>7 DEF FormatInv
  <2> QED
    BY <2>8, <2>9 DEF WInv
<1> QED
  BY <1>2, <1>3 DEF CheckLists, CheckAddresses, WriteOnce, WritesValues

LEMMA InitWInv == CommandInit => WInv
PROOF
<1> SUFFICES ASSUME CommandInit PROVE WInv
  OBVIOUS
<1>1. CInv
  BY InitCInv
<1>2. pc = "options" /\ q = Defaults
  BY DEF CommandInit
<1>3. q.eFormat = "dec"
  BY <1>2 DEF Defaults
<1> QED
  BY <1>1, <1>2, <1>3 DEF WInv, FormatInv, BlockInv, AfterOptions, AfterValues

LEMMA StepWInv == WInv /\ [CommandNext]_commandVars => WInv'
PROOF
<1> SUFFICES ASSUME WInv, [CommandNext]_commandVars PROVE WInv'
  OBVIOUS
<1>1. CInv' /\ q \in Context
  BY StepCInv DEF WInv, CInv
<1>2. CASE UNCHANGED commandVars
  BY <1>1, <1>2 DEF commandVars, WInv, FormatInv, BlockInv, Stored, Placed, CellsOf, Num,
     CellCount, WritesValues
<1>3. CASE Refuse
  <2>1. pc' = "refused"
    BY <1>3 DEF Refuse
  <2> QED
    BY <1>1, <2>1, RefusedStep
<1>4. CASE \E w \in OptionWords : Option(w)
  <2>1. PICK w \in OptionWords : Option(w)
    BY <1>4
  <2>2. CASE Legal(w) /\ q' = Applied(q, w) /\ pc = "options" /\ pc' = "options"
    BY <1>1, <2>2, EarlyStep DEF Early
  <2> QED
    BY <1>3, <2>1, <2>2 DEF Option
<1>5. CASE Information
  <2>1. pc' = "informed"
    BY <1>5 DEF Information
  <2> QED
    BY <1>1, <2>1, RefusedStep
<1>6. CASE EndOfOptions
  <2>1. CASE q' = Normalized(q, StartRefs) /\ pc = "options" /\ pc' = "device"
    BY <1>1, <2>1, EarlyStep DEF Early
  <2> QED
    BY <1>3, <1>6, <2>1 DEF EndOfOptions
<1>7. CASE \E d \in Devices : TakeDevice(d)
  <2>1. PICK d \in Devices : TakeDevice(d)
    BY <1>7
  <2>2. /\ pc = "device" /\ pc' \in {"bridge", "values?"}
        /\ q'.eFormat = q.eFormat /\ q'.eFunction = q.eFunction
    BY <1>1, <2>1 DEF TakeDevice, Context
  <2> QED
    BY <1>1, <2>2, EarlyStep DEF Early
<1>8. CASE DeviceMissing
  BY <1>3, <1>8 DEF DeviceMissing
<1>9. CASE SetUpBridge
  <2>1. CASE /\ pc = "bridge" /\ pc' \in {"bridge", "values?"}
             /\ q'.eFormat = q.eFormat /\ q'.eFunction = q.eFunction
    BY <1>1, <2>1, EarlyStep DEF Early
  <2> QED
    BY <1>1, <1>3, <1>9, <2>1 DEF SetUpBridge, Context
<1>10. CASE \E n \in 0..MaxValues : CountValues(n)
  BY <1>1, <1>10, CountValuesWrites
<1>11. CASE \E t \in Texts : ConvertValue(t)
  BY <1>1, <1>11, ConvertValueWrites
<1>12. CASE CheckLists \/ CheckAddresses \/ WriteOnce
  BY <1>1, <1>12, LastWrites
<1> QED
  BY <1>2, <1>4, <1>5, <1>6, <1>7, <1>8, <1>9, <1>10, <1>11, <1>12 DEF CommandNext

-----------------------------------------------------------------------------
\* The cells of the block are words, and no more is typed than was counted.
HoldsWords(block) == \E L \in Nat : block \in [1..L -> Words]

Ranges ==
  /\ options \in 0..MaxOptions /\ nb \in 0..MaxValues /\ Len(texts) <= nb
  /\ bridge \in {"none", "chip", "port", "ready"}
  /\ HoldsWords(pvData)

TInv == WInv /\ Ranges

LEMMA NothingHoldsWords == HoldsWords(<<>>)
PROOF
<1>1. <<>> \in [1..0 -> Words]
  OBVIOUS
<1> QED
  BY <1>1 DEF HoldsWords

LEMMA StoreHoldsWords ==
  ASSUME NEW block, HoldsWords(block), NEW p \in Context, NEW t \in Texts,
         CliAccepts(p.eFunction, p.eFormat, t), NEW i \in Nat
  PROVE  HoldsWords(Store(block, i, CellsOf(p, t)))
PROOF
<1>1. PICK L \in Nat : block \in [1..L -> Words]
  BY DEF HoldsWords
<1> DEFINE cells == CellsOf(p, t)
<1>2. cells \in Seq(Words)
  <2>1. Num(p, t) \in Ints /\ p.eFormat \in Formats /\ p.bIsBigEndian \in BOOLEAN
    BY AcceptedFacts DEF Num, Context
  <2>2. CASE Wide(p.eFormat)
    <3>1. PICK a, b \in Words : cells = <<a, b>>
      BY <2>1, <2>2, CellsFacts DEF CellsOf
    <3> QED
      BY <3>1
  <2>3. CASE ~Wide(p.eFormat)
    <3>1. PICK a \in Words : cells = <<a>>
      BY <2>1, <2>3, CellsFacts DEF CellsOf
    <3> QED
      BY <3>1
  <2> QED
    BY <2>2, <2>3
<1> HIDE DEF cells
<1>3. \A at \in 1..Len(cells) : cells[at] \in Words
  BY <1>2
<1>4. DOMAIN block = 1..L /\ \A n \in 1..L : block[n] \in Words
  BY <1>1
<1>5. Store(block, i, cells) \in [1..L -> Words]
  BY <1>3, <1>4 DEF Store
<1> QED
  BY <1>5 DEF HoldsWords, cells

LEMMA InitTInv == CommandInit => TInv
PROOF
<1> SUFFICES ASSUME CommandInit PROVE TInv
  OBVIOUS
<1>1. options = 0 /\ nb = 0 /\ texts = <<>> /\ pvData = <<>> /\ bridge = "none"
  BY DEF CommandInit
<1> QED
  BY <1>1, InitWInv, NothingHoldsWords, CommandLineAssumption DEF TInv, Ranges

LEMMA StepTInv == TInv /\ [CommandNext]_commandVars => TInv'
PROOF
<1> SUFFICES ASSUME TInv, [CommandNext]_commandVars PROVE TInv'
  OBVIOUS
<1>1. WInv /\ WInv' /\ Ranges
  BY StepWInv DEF TInv
<1>2. q \in Context /\ texts \in Seq(Texts) /\ nb \in Nat
  BY <1>1 DEF WInv, CInv
<1>3. MaxOptions \in Nat /\ MaxValues \in Nat
  BY CommandLineAssumption
<1>4. Refuse => HoldsWords(pvData')
  BY NothingHoldsWords DEF Refuse
<1>5. CASE UNCHANGED commandVars
  BY <1>1, <1>5 DEF TInv, Ranges, HoldsWords, commandVars
<1>6. CASE \E w \in OptionWords : Option(w)
  <2>1. /\ options' = options + 1 /\ options < MaxOptions
        /\ UNCHANGED <<texts, nb, bridge>>
        /\ Refuse \/ pvData' = pvData
    BY <1>6 DEF Option
  <2>2. options' \in 0..MaxOptions
    BY <1>1, <1>3, <2>1 DEF Ranges
  <2> QED
    BY <1>1, <1>4, <2>1, <2>2 DEF TInv, Ranges
<1>7. CASE \E d \in Devices : TakeDevice(d)
  BY <1>1, <1>7 DEF TInv, Ranges, TakeDevice
<1>8. CASE \/ Information \/ EndOfOptions \/ DeviceMissing \/ SetUpBridge
           \/ CheckLists \/ CheckAddresses \/ WriteOnce
  <2>1. UNCHANGED <<options, texts, nb>> /\ (Refuse \/ pvData' = pvData)
    BY <1>8 DEF Information, EndOfOptions, DeviceMissing, SetUpBridge, CheckLists,
       CheckAddresses, WriteOnce
  <2>2. bridge' \in {"none", "chip", "port", "ready"}
    BY <1>1, <1>8 DEF Ranges, Information, EndOfOptions, DeviceMissing, SetUpBridge,
       CheckLists, CheckAddresses, WriteOnce
  <2> QED
    BY <1>1, <1>4, <2>1, <2>2 DEF TInv, Ranges
<1>9. CASE \E n \in 0..MaxValues : CountValues(n)
  <2>1. PICK n \in 0..MaxValues : CountValues(n)
    BY <1>9
  <2>2. pc = "values?" /\ nb' = n /\ UNCHANGED <<options, texts, bridge>>
    BY <2>1 DEF CountValues
  <2>3. texts = <<>>
    BY <1>1, <2>2 DEF WInv, CInv, ArgumentsInv, Early
  <2>4. Len(texts') <= nb'
    BY <1>3, <2>2, <2>3
  <2>5. CASE Refuse \/ pvData' = pvData
    BY <1>1, <1>4, <2>2, <2>4, <2>5 DEF TInv, Ranges
  <2>6. CASE pvData' = [cell \in 1..CellCount(Counted(q, n)) |-> 0]
    <3>1. Counted(q, n).iCount \in Nat
      <4>1. q.iCount \in Nat /\ n \in Nat
        BY <1>1, <1>2, <1>3, <2>2 DEF WInv, CInv, ArgumentsInv, Context
      <4>2. Counted(q, n).iCount = IF n > 0 THEN n ELSE q.iCount
        BY <1>2 DEF Counted, Context
      <4> QED
        BY <4>1, <4>2
    <3>2. CellCount(Counted(q, n)) \in Nat
      BY <3>1 DEF CellCount
    <3>3. HoldsWords(pvData')
      BY <2>6, <3>2, WordsAreIntegers DEF HoldsWords
    <3> QED
      BY <1>1, <2>2, <2>4, <3>3 DEF TInv, Ranges
  <2> QED
    BY <2>1, <2>5, <2>6 DEF CountValues
<1>10. CASE \E t \in Texts : ConvertValue(t)
  <2>1. PICK t \in Texts : ConvertValue(t)
    BY <1>10
  <2>2. /\ pc = "values" /\ texts' = Append(texts, t)
        /\ UNCHANGED <<options, nb, bridge>>
    BY <2>1 DEF ConvertValue
  <2>3. Len(texts) < nb
    BY <1>1, <2>2 DEF WInv, BlockInv
  <2>4. Len(texts') <= nb'
    BY <1>2, <2>2, <2>3
  <2>5. CASE Refuse
    BY <1>1, <1>4, <2>2, <2>4, <2>5 DEF TInv, Ranges
  <2>6. CASE /\ CliAccepts(q.eFunction, q.eFormat, t)
             /\ pvData' = Store(pvData, Len(texts), CellsOf(q, t))
    <3>1. HoldsWords(pvData) /\ Len(texts) \in Nat
      BY <1>1, <1>2 DEF Ranges
    <3>2. HoldsWords(pvData')
      BY <1>2, <2>6, <3>1, StoreHoldsWords
    <3> QED
      BY <1>1, <2>2, <2>4, <3>2 DEF TInv, Ranges
  <2> QED
    BY <2>1, <2>5, <2>6 DEF ConvertValue, CellsOf, Num
<1> QED
  BY <1>5, <1>6, <1>7, <1>8, <1>9, <1>10 DEF CommandNext

\* Every variable of the command line stays in its range, and from the first value to
\* the frame the block has the size its parameters ask for (mbpoll.c:1513-1543).
THEOREM TypeCorrect == CommandSpec => []CommandTypeOK
PROOF
<1>1. CommandInit => TInv
  BY InitTInv
<1>2. TInv /\ [CommandNext]_commandVars => TInv'
  BY StepTInv
<1>3. TInv => CommandTypeOK
  <2> SUFFICES ASSUME TInv PROVE CommandTypeOK
    OBVIOUS
  <2>1. pc \in CommandPcs /\ q \in Context
    BY DEF TInv, WInv, CInv
  <2>2. \A n \in 1..Len(pvData) : pvData[n] \in Words
    <3>1. PICK L \in Nat : pvData \in [1..L -> Words]
      BY DEF TInv, Ranges, HoldsWords
    <3>2. Len(pvData) = L
      BY <3>1
    <3> QED
      BY <3>1, <3>2
  <2>3. pc \in {"values", "written"} => Len(pvData) = CellCount(q)
    <3> SUFFICES ASSUME pc \in {"values", "written"}
                 PROVE  Len(pvData) = CellCount(q)
      OBVIOUS
    <3>1. pvData \in [1..CellCount(q) -> Int]
      BY DEF TInv, WInv, BlockInv, Stored, AfterValues
    <3>2. CellCount(q) \in Nat
      <4>1. q.iCount \in Nat
        BY <2>1 DEF TInv, WInv, CInv, ArgumentsInv, Context
      <4> QED
        BY <4>1 DEF CellCount
    <3> QED
      BY <3>1, <3>2
  <2> QED
    BY <2>1, <2>2, <2>3 DEF TInv, Ranges, CommandTypeOK, Context
<1> QED
  BY <1>1, <1>2, <1>3, PTL DEF CommandSpec

-----------------------------------------------------------------------------
\* For every format, register width and number of values: the frame of a write
\* carries the values that were typed, each at its place and none but them, as they
\* would be shown when they are read back (mbpoll.c:1511-1597, mbpoll-runtime.c:569-630,
\* utils.c:194-228).
THEOREM WritesWhatWasTyped == CommandSpec => []WrittenIsWhatWasTyped
PROOF
<1>1. CommandInit => WInv
  BY InitWInv
<1>2. WInv /\ [CommandNext]_commandVars => WInv'
  BY StepWInv
<1>3. WInv => WrittenIsWhatWasTyped
  <2> SUFFICES ASSUME WInv, pc = "written"
               PROVE  /\ Len(frame.cells) = nb * (IF Wide(q.eFormat) THEN 2 ELSE 1)
                      /\ Len(frame.cells) > 1 => frame.code \in {15, 16}
                      /\ \A n \in 1..nb :
                           Head(Shown(q.eFormat, frame.cells, n - 1, q.bIsBigEndian)) = Meant(texts[n])
    BY DEF WrittenIsWhatWasTyped
  <2>1. /\ q \in Context /\ nb \in Nat /\ q.iCount >= 1
        /\ q.eFormat = "bin" <=> UsesBinary(q.eFunction)
        /\ Stored(q, pvData, texts) /\ q.iCount = nb /\ Len(texts) = nb
        /\ frame = Frame(q, pvData)
    BY DEF WInv, CInv, FormatInv, BlockInv, ArgumentsInv, AfterOptions, AfterValues
  <2> DEFINE N == CellCount(q)
             cells == frame.cells
  <2>2. pvData \in [1..N -> Int]
    BY <2>1 DEF Stored
  <2>3. /\ Len(cells) = N
        /\ \A k \in 1..N : cells[k] = pvData[k]
        /\ Len(cells) > 1 => frame.code \in {15, 16}
    BY <2>1, <2>2, FrameFacts
  <2>4. N = nb * (IF Wide(q.eFormat) THEN 2 ELSE 1)
    BY <2>1 DEF CellCount
  <2> HIDE DEF N, cells
  <2>5. ASSUME NEW n \in 1..nb
        PROVE  Head(Shown(q.eFormat, cells, n - 1, q.bIsBigEndian)) = Meant(texts[n])
    <3>1. CliAccepts(q.eFunction, q.eFormat, texts[n]) /\ Placed(q, pvData, n, texts[n])
      BY <2>1 DEF Stored
    <3>2. n \in Nat \ {0}
      BY <2>1
    <3>3. Placed(q, cells, n, texts[n])
      <4>1. CASE Wide(q.eFormat)
        <5>1. 2 * n - 1 \in 1..N /\ 2 * n \in 1..N
          BY <2>1, <2>4, <4>1
        <5>2. cells[2 * n - 1] = pvData[2 * n - 1] /\ cells[2 * n] = pvData[2 * n]
          BY <2>3, <5>1
        <5> QED
          BY <3>1, <4>1, <5>2 DEF Placed
      <4>2. CASE ~Wide(q.eFormat)
        <5>1. n \in 1..N
          BY <2>1, <2>4, <4>2
        <5> QED
          BY <2>3, <3>1, <4>2, <5>1 DEF Placed
      <4> QED
        BY <4>1, <4>2
    <3>4. Head(Shown(q.eFormat, cells, n - 1, q.bIsBigEndian)) =
            IF q.eFormat = "float" THEN Single(Num(q, texts[n])) ELSE Num(q, texts[n])
      BY <2>1, <3>1, <3>2, <3>3, ReadBack
    <3> QED
      BY <3>4 DEF Meant, Num
  <2> QED
    BY <2>3, <2>4, <2>5 DEF cells
<1> QED
  BY <1>1, <1>2, <1>3, PTL DEF CommandSpec

\* The library and the command line take the same texts for values, but for those
\* that go on after the number (mbpoll.c:1180-1225, 1536-1597, mbpoll-runtime.c:160-260).
THEOREM SameTextsAreValues == CommandSpec => []LibraryAgrees
PROOF
<1>1. CInv => LibraryAgrees
  <2> SUFFICES ASSUME CInv, NEW t \in Texts
               PROVE  LibraryAccepts(q.eFunction, q.eFormat, t) <=>
                        /\ CliAccepts(q.eFunction, q.eFormat, t)
                        /\ ~CliNumber(q.eFunction, q.eFormat, t).rest
    BY DEF LibraryAgrees
  <2>1. q.eFormat \in Formats
    BY DEF CInv, Context
  <2>2. 0..1 \subseteq Ints /\ Words \subseteq Ints /\ SignedWords \subseteq Ints
    BY RangesAreInts
  <2> DEFINE bits == 0..1
  <2>3. bits \subseteq Ints
    BY <2>2
  <2> HIDE DEF bits
  <2> QED
    BY <2>1, <2>2, <2>3
       DEF LibraryAccepts, CliAccepts, CliNumber, Parses, GetsInt, GetsDouble, Formats, bits
<1> QED
  BY <1>1, Invariant, PTL
=============================================================================
