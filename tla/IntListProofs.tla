--------------------------- MODULE IntListProofs ---------------------------
(***************************************************************************)
(* Proofs about IntList, for every set of texts over every set of numbers. *)
(*                                                                         *)
(* The history variable seen carries what the first pass knew before each  *)
(* item to the second one.  The second pass retraces it: when it begins    *)
(* with no range open, which is what a closed text means, its index before *)
(* an item is what the first pass had counted before that item, as long as *)
(* an int can count it.                                                    *)
(***************************************************************************)
EXTENDS IntList, SequenceTheorems, FiniteSetTheorems, TLAPS

\* What the first pass has established of an item it went past.
Verified(n) ==
  /\ text[n].val \in Int
  /\ text[n].sep \in {",", ":", "end"}
  /\ text[n].sep = ":" =>
       /\ ~seen[n].open /\ seen[n + 1].open
       /\ seen[n + 1].first = Cast(text[n].val) /\ seen[n + 1].count = seen[n].count
  /\ text[n].sep # ":" => ~seen[n + 1].open
  /\ text[n].sep # ":" /\ seen[n].open =>
       seen[n + 1].count = seen[n].count + RangeLength(seen[n].first, Cast(text[n].val))
  /\ text[n].sep # ":" /\ ~seen[n].open => seen[n + 1].count = seen[n].count + 1

\* The trail of the first pass.
Trail ==
  /\ Len(seen) >= 1 /\ ~seen[1].open /\ seen[1].count = 0
  /\ pass = 1 => Len(seen) = p /\ seen[p].first = iFirst /\ seen[p].open = bIsLast
  /\ pass = 2 => Len(seen) = Len(text) + 1
  /\ Countable => iCount = seen[Len(seen)].count
  /\ \A n \in 1..(Len(seen) - 1) : Verified(n)
  /\ \A n \in 1..Len(seen) : seen[n].count <= seen[Len(seen)].count

\* The second pass retraces it.
Retrace ==
  /\ pass = 1 => iList = <<>>
  /\ pass = 2 /\ Closed =>
       /\ Len(iList) = seen[p].count
       /\ seen[p].open = bIsLast
       /\ bIsLast => seen[p].first = iFirst

\* How reading a text ends.
Ending ==
  /\ result = "list" => p = Len(text) + 1 /\ (pass = 1 => iCount <= 0)
  /\ result \in {"illegalValue", "illegalDelimiter"} => ~Legal
  /\ result = "runaway" /\ Closed => ~Bounded

IInv == TypeOK /\ Trail /\ Retrace /\ Ending

-----------------------------------------------------------------------------
\* What the constants say of the text being read.
LEMMA TextFacts ==
  ASSUME text \in Texts
  PROVE  /\ Len(text) \in Nat
         /\ \A n \in 1..Len(text) :
              /\ text[n].val \in Int \/ text[n].val = NoNumber
              /\ text[n].sep \in Separators
PROOF
<1>1. text \in Seq(Item)
  BY TextsAssumption
<1>2. Len(text) \in Nat /\ \A n \in 1..Len(text) : text[n] \in Item
  BY <1>1, ElementOfSeq
<1> QED
  BY <1>2, ValuesAssumption DEF Item

\* An int that is assigned an int keeps it.
LEMMA CastFacts ==
  ASSUME NEW n \in Int
  PROVE  /\ Cast(n) \in Int
         /\ n \in 0..IntMax => Cast(n) = n
PROOF
<1>1. IntMax \in Nat
  BY ValuesAssumption
<1>2. 2 * (IntMax + 1) \in Nat \ {0} /\ n + IntMax + 1 \in Int
  BY <1>1
<1>3. (n + IntMax + 1) % (2 * (IntMax + 1)) \in Int
  BY <1>2
<1>4. Cast(n) \in Int
  BY <1>1, <1>3 DEF Cast
<1>5. n \in 0..IntMax => n \in Ints
  BY <1>1 DEF Ints
<1> QED
  BY <1>4, <1>5 DEF Cast

\* The cells of a range are as many as the first pass counts for it.
LEMMA IntervalFacts ==
  ASSUME NEW a \in Int, NEW b \in Int
  PROVE  /\ Interval(a, b) \in Seq(Int)
         /\ Len(Interval(a, b)) = RangeLength(a, b)
         /\ RangeLength(a, b) \in Nat /\ RangeLength(a, b) >= 1 /\ Smaller(a, b) \in Int
PROOF
<1>1. /\ Larger(a, b) \in Int /\ Smaller(a, b) \in Int /\ Smaller(a, b) <= Larger(a, b)
  BY DEF Larger, Smaller
<1>2. RangeLength(a, b) \in Nat /\ RangeLength(a, b) >= 1 /\ RangeLength(a, b) = Larger(a, b) - Smaller(a, b) + 1
  BY <1>1 DEF RangeLength
<1>3. Interval(a, b) = [n \in 1..RangeLength(a, b) |-> Smaller(a, b) + n - 1]
  BY <1>2 DEF Interval
<1>4. \A n \in 1..RangeLength(a, b) : Smaller(a, b) + n - 1 \in Int
  BY <1>1, <1>2
<1> QED
  BY <1>1, <1>2, <1>3, <1>4

LEMMA InitInvariant == Init => IInv
PROOF
<1> SUFFICES ASSUME Init PROVE IInv
  OBVIOUS
<1>1. Len(text) \in Nat
  BY TextFacts DEF Init
<1>2. seen = <<[first |-> 0, open |-> FALSE, count |-> 0]>>
  BY DEF Init
<1>3. /\ Len(seen) = 1 /\ seen \in Seq([first : Int, open : BOOLEAN, count : Nat])
      /\ seen[1].first = 0 /\ seen[1].open = FALSE /\ seen[1].count = 0
  BY <1>2
<1>4. bIsLast \in BOOLEAN
  BY DEF Init
<1>5. TypeOK
  BY <1>1, <1>3, <1>4 DEF Init, TypeOK
<1>6. Trail
  <2>1. \A n \in 1..Len(seen) : n = 1
    BY <1>3
  <2>2. \A n \in 1..Len(seen) : seen[n].count <= seen[Len(seen)].count
    BY <1>3, <2>1
  <2>3. \A n \in 1..(Len(seen) - 1) : Verified(n)
    BY <1>3
  <2>4. seen[p].open = bIsLast
    BY <1>3 DEF Init
  <2>5. ~seen[1].open
    BY <1>3
  <2>6. Len(seen) = p /\ seen[p].first = iFirst /\ seen[Len(seen)].count = iCount /\ seen[1].count = 0
    BY <1>3 DEF Init
  <2> QED
    BY <1>3, <2>2, <2>3, <2>4, <2>5, <2>6 DEF Init, Trail
<1>7. Retrace /\ Ending
  BY DEF Init, Retrace, Ending
<1> QED
  BY <1>5, <1>6, <1>7 DEF IInv


\* What the first pass appends to its trail leaves the rest of it alone.
LEMMA TrailFacts ==
  ASSUME TypeOK, Trail, More, pass = 1, Advance, Added \in Nat,
         iFirst' \in Int, bIsLast' \in BOOLEAN
  PROVE  /\ seen' \in Seq([first : Int, open : BOOLEAN, count : Nat])
         /\ Len(seen') = p + 1
         /\ seen'[p + 1].first = iFirst' /\ seen'[p + 1].count = seen[p].count + Added
         /\ seen'[p + 1].open = bIsLast'
         /\ \A n \in 1..p : seen'[n] = seen[n]
         /\ \A n \in 1..p : seen[n] \in [first : Int, open : BOOLEAN, count : Nat]
PROOF
<1> DEFINE K == [first |-> iFirst', open |-> bIsLast', count |-> seen[p].count + Added]
<1>1. Len(seen) = p /\ Len(seen) >= 1
  BY DEF Trail
<1>2. seen \in Seq([first : Int, open : BOOLEAN, count : Nat])
  BY DEF TypeOK
<1>3. \A n \in 1..p : seen[n] \in [first : Int, open : BOOLEAN, count : Nat]
  BY <1>1, <1>2, ElementOfSeq
<1>4. p \in 1..p
  BY <1>1
<1>5. seen[p].count \in Nat
  BY <1>3, <1>4
<1>6. K \in [first : Int, open : BOOLEAN, count : Nat]
  BY <1>5
<1>7. K.first = iFirst' /\ K.open = bIsLast' /\ K.count = seen[p].count + Added
  OBVIOUS
<1>8. seen' = Append(seen, K)
  BY DEF Advance, Known
<1> HIDE DEF K
<1>9. /\ seen' \in Seq([first : Int, open : BOOLEAN, count : Nat])
      /\ Len(seen') = p + 1
      /\ seen'[p + 1] = K
      /\ \A n \in 1..p : seen'[n] = seen[n]
  BY <1>1, <1>2, <1>6, <1>8, AppendProperties
<1> QED
  BY <1>3, <1>7, <1>9

\* What an item of the first pass does.
Adds ==
  /\ More /\ pass = 1 /\ Advance
  /\ Here.val # NoNumber /\ Here.sep \in {",", ":", "end"} /\ Added \in Nat
  /\ \/ /\ Here.sep = ":" /\ ~bIsLast
        /\ iFirst' = Number /\ bIsLast' = TRUE /\ iCount' = iCount /\ Added = 0
     \/ /\ Here.sep # ":" /\ bIsLast
        /\ iFirst' = Smaller(iFirst, Number) /\ bIsLast' = FALSE
        /\ iCount' = Cast(iCount + Cast(Added)) /\ Added = RangeLength(iFirst, Number)
     \/ /\ Here.sep # ":" /\ ~bIsLast
        /\ iFirst' = iFirst /\ bIsLast' = FALSE
        /\ iCount' = Cast(iCount + Added) /\ Added = 1

\* A step of the first pass: the item is verified, and the trail goes on.
LEMMA CountItem ==
  ASSUME IInv, Adds
  PROVE  IInv'
PROOF
<1>0. /\ More /\ pass = 1 /\ Advance
      /\ Here.val # NoNumber /\ Here.sep \in {",", ":", "end"} /\ Added \in Nat
  BY DEF Adds
<1>a. Added \in Nat
  BY <1>0
<1>1. text \in Texts /\ p \in 1..(Len(text) + 1) /\ p <= Len(text)
  BY <1>0 DEF IInv, TypeOK, More
<1>2. p \in 1..Len(text) /\ Len(text) \in Nat /\ p \in Nat
  BY <1>1, TextFacts
<1>3. Here.val \in Int /\ Here = text[p] /\ Number = Cast(text[p].val) /\ IntMax \in Nat
  BY <1>0, <1>1, <1>2, TextFacts, ValuesAssumption DEF Here, Number
<1>4. Number \in Int /\ Cast(Added) \in Int /\ (Added <= IntMax => Cast(Added) = Added)
  BY <1>a, <1>3, CastFacts
<1>5. iFirst \in Int /\ iCount \in Int
  BY DEF IInv, TypeOK
<1>6. iFirst' \in Int
  BY <1>4, <1>5, IntervalFacts DEF Adds
<1>7. iCount + Cast(Added) \in Int /\ iCount + Added \in Int
  BY <1>a, <1>4, <1>5
<1>8. iCount' \in Int
  <2>1. iCount' = iCount \/ iCount' = Cast(iCount + Cast(Added)) \/ iCount' = Cast(iCount + Added)
    BY DEF Adds
  <2> QED
    BY <1>5, <1>7, <2>1, CastFacts
<1>9. bIsLast' \in BOOLEAN
  BY DEF Adds
<1>10. /\ seen' \in Seq([first : Int, open : BOOLEAN, count : Nat])
       /\ Len(seen') = p + 1
       /\ seen'[p + 1].first = iFirst' /\ seen'[p + 1].count = seen[p].count + Added
       /\ \A n \in 1..p : seen'[n] = seen[n]
       /\ \A n \in 1..p : seen[n] \in [first : Int, open : BOOLEAN, count : Nat]
  BY <1>6, <1>9, <1>0, TrailFacts DEF IInv
<1>11. seen'[p + 1].open = bIsLast'
  BY <1>6, <1>9, <1>0, TrailFacts DEF IInv
<1>12. p' = p + 1 /\ UNCHANGED <<text, pass, iList, result>>
  BY <1>0 DEF Advance
<1>13. TypeOK'
  <2>1. p' \in 1..(Len(text) + 1)
    BY <1>2, <1>12
  <2> QED
    BY <1>6, <1>8, <1>9, <1>10, <1>12, <2>1 DEF IInv, TypeOK
<1>14. /\ Len(seen) = p /\ seen[p].first = iFirst /\ seen[1].count = 0
       /\ seen[p].count <= IntMax => iCount = seen[p].count
       /\ \A n \in 1..(p - 1) : Verified(n)
       /\ \A n \in 1..p : seen[n].count <= seen[p].count
  BY <1>0 DEF IInv, Trail, Countable
<1>15. seen[p].open = bIsLast /\ ~seen[1].open
  BY <1>0 DEF IInv, Trail
<1>16. seen[p].count \in Nat
  BY <1>2, <1>10
<1>17. seen[p].count + Added <= IntMax => iCount' = seen[p].count + Added
  <2> SUFFICES ASSUME seen[p].count + Added <= IntMax PROVE iCount' = seen[p].count + Added
    OBVIOUS
  <2>1. iCount = seen[p].count /\ Cast(Added) = Added /\ iCount + Added \in 0..IntMax
    BY <1>a, <1>3, <1>4, <1>14, <1>16
  <2>2. Cast(iCount + Added) = iCount + Added
    BY <1>7, <2>1, CastFacts
  <2>3. \/ Added = 0 /\ iCount' = iCount
        \/ iCount' = Cast(iCount + Cast(Added))
        \/ iCount' = Cast(iCount + Added)
    BY DEF Adds
  <2> QED
    BY <1>a, <1>16, <2>1, <2>2, <2>3
<1>18. ASSUME NEW n \in Nat, n = p PROVE Verified(n)'
  <2>1. text'[p] = text[p] /\ seen'[p] = seen[p]
    BY <1>2, <1>10, <1>12
  <2>2. /\ text'[n].val \in Int /\ text'[n].sep = Here.sep /\ Cast(text'[n].val) = Number
        /\ seen'[n].count = seen[p].count /\ seen'[n].first = iFirst
        /\ seen'[n + 1].count = seen[p].count + Added /\ seen'[n + 1].first = iFirst'
    BY <1>0, <1>3, <1>10, <1>14, <2>1, <1>18
  <2>3. seen'[n].open = bIsLast /\ seen'[n + 1].open = bIsLast'
    BY <1>11, <1>15, <2>1, <1>18
  <2>4. text'[n].sep \in {",", ":", "end"}
    BY <1>0, <2>2
  <2>5. Verified(n)' <=>
          /\ text'[n].val \in Int
          /\ text'[n].sep \in {",", ":", "end"}
          /\ text'[n].sep = ":" =>
               /\ ~seen'[n].open /\ seen'[n + 1].open
               /\ seen'[n + 1].first = Cast(text'[n].val) /\ seen'[n + 1].count = seen'[n].count
          /\ text'[n].sep # ":" => ~seen'[n + 1].open
          /\ text'[n].sep # ":" /\ seen'[n].open =>
               seen'[n + 1].count = seen'[n].count + RangeLength(seen'[n].first, Cast(text'[n].val))
          /\ text'[n].sep # ":" /\ ~seen'[n].open => seen'[n + 1].count = seen'[n].count + 1
    BY DEF Verified
  <2>6. CASE Here.sep = ":"
    <3>1. ~seen'[n].open /\ seen'[n + 1].open
      BY <2>3, <2>6 DEF Adds
    <3>2. iFirst' = Number /\ seen[p].count + Added = seen[p].count
      BY <1>16, <2>6 DEF Adds
    <3> QED
      BY <2>2, <2>4, <2>5, <2>6, <3>1, <3>2
  <2>7. CASE Here.sep # ":" /\ bIsLast
    <3>1. seen'[n].open /\ ~seen'[n + 1].open
      BY <2>3, <2>7 DEF Adds
    <3>2. Added = RangeLength(iFirst, Number)
      BY <2>7 DEF Adds
    <3> QED
      BY <2>2, <2>4, <2>5, <2>7, <3>1, <3>2
  <2>8. CASE Here.sep # ":" /\ ~bIsLast
    <3>1. ~seen'[n].open /\ ~seen'[n + 1].open
      BY <2>3, <2>8 DEF Adds
    <3>2. Added = 1
      BY <2>8 DEF Adds
    <3> QED
      BY <2>2, <2>4, <2>5, <2>8, <3>1, <3>2
  <2> QED
    BY <2>6, <2>7, <2>8
<1>19. Trail'
  <2>1. \A n \in 1..(p - 1) : Verified(n)'
    <3> SUFFICES ASSUME NEW n \in 1..(p - 1) PROVE Verified(n)'
      OBVIOUS
    <3>1. n \in 1..p /\ n + 1 \in 1..p
      BY <1>2
    <3>2. seen'[n] = seen[n] /\ seen'[n + 1] = seen[n + 1]
      BY <1>10, <3>1
    <3> QED
      BY <1>12, <1>14, <3>2 DEF Verified
  <2>2. \A n \in 1..(Len(seen') - 1) : Verified(n)'
    <3>1. \A n \in 1..(Len(seen') - 1) : n \in 1..(p - 1) \/ n = p
      BY <1>2, <1>10
    <3> SUFFICES ASSUME NEW n \in 1..(Len(seen') - 1) PROVE Verified(n)'
      OBVIOUS
    <3>2. CASE n = p
      BY <1>2, <1>18, <3>2
    <3>3. CASE n \in 1..(p - 1)
      BY <2>1, <3>3
    <3> QED
      BY <3>1, <3>2, <3>3
  <2>3. \A n \in 1..Len(seen') : seen'[n].count <= seen'[Len(seen')].count
    <3>1. \A n \in 1..Len(seen') : n \in 1..p \/ n = p + 1
      BY <1>2, <1>10
    <3>2. \A n \in 1..p : seen'[n].count \in Nat /\ seen'[n].count <= seen[p].count
      BY <1>10, <1>14
    <3>3. \A n \in 1..p : seen'[n].count <= seen[p].count + Added
      BY <1>a, <1>16, <3>2
    <3>4. seen[p].count + Added <= seen[p].count + Added
      BY <1>a, <1>16
    <3> QED
      BY <1>10, <3>1, <3>3, <3>4
  <2>4. seen'[1] = seen[1]
    BY <1>2, <1>10
  <2>5. pass' = 1 /\ p' = p + 1 /\ Len(seen') = p + 1
    BY <1>0, <1>10, <1>12
  <2>6. ~seen'[1].open /\ seen'[1].count = 0
    BY <1>14, <1>15, <2>4
  <2>7. seen'[p'].open = bIsLast'
    BY <1>11, <2>5
  <2>8. Countable' => iCount' = seen'[Len(seen')].count
    BY <1>10, <1>17 DEF Countable
  <2> QED
    BY <1>2, <1>10, <2>2, <2>3, <2>5, <2>6, <2>7, <2>8 DEF Trail
<1>20. Retrace' /\ Ending'
  <2>1. pass' = 1 /\ result' = "running" /\ iList' = <<>>
    BY <1>0, <1>12 DEF IInv, Retrace, More
  <2> QED
    BY <2>1 DEF Retrace, Ending
<1> QED
  BY <1>13, <1>19, <1>20 DEF IInv

LEMMA CountStep ==
  ASSUME IInv, CountFirst \/ CountLast \/ CountOne
  PROVE  IInv'
PROOF
<1>1. /\ More /\ pass = 1 /\ Advance
      /\ Here.val # NoNumber /\ Here.sep \in {",", ":", "end"}
  BY DEF CountFirst, CountLast, CountOne
<1>2. text \in Texts /\ p \in 1..(Len(text) + 1) /\ p <= Len(text) /\ iFirst \in Int
  BY <1>1 DEF IInv, TypeOK, More
<1>3. p \in 1..Len(text)
  BY <1>2, TextFacts
<1>4. Here.val \in Int
  BY <1>1, <1>2, <1>3, TextFacts DEF Here
<1>5. RangeLength(iFirst, Number) \in Nat
  BY <1>2, <1>4, CastFacts, IntervalFacts DEF Number
<1>6. Added \in Nat
  BY <1>5 DEF Added
<1>7. Adds
  <2>1. CASE CountFirst
    <3>1. Here.sep = ":" /\ iFirst' = Number /\ bIsLast' = TRUE /\ iCount' = iCount
      BY <2>1 DEF CountFirst
    <3>2. ~bIsLast
      BY <2>1 DEF CountFirst, IsIllegal
    <3>3. Added = 0
      BY <3>1 DEF Added
    <3> QED
      BY <1>1, <1>6, <3>1, <3>2, <3>3 DEF Adds
  <2>2. CASE CountLast
    <3>1. /\ Here.sep # ":" /\ bIsLast
          /\ iFirst' = Smaller(iFirst, Number) /\ bIsLast' = FALSE
          /\ iCount' = Cast(iCount + Cast(RangeLength(iFirst, Number)))
      BY <2>2 DEF CountLast
    <3>2. Added = RangeLength(iFirst, Number)
      BY <3>1 DEF Added
    <3> QED
      BY <1>1, <1>6, <3>1, <3>2 DEF Adds
  <2>3. CASE CountOne
    <3>1. Here.sep # ":" /\ iFirst' = iFirst /\ iCount' = Cast(iCount + 1)
      BY <2>3 DEF CountOne
    <3>2. ~bIsLast /\ bIsLast' = FALSE
      BY <2>3 DEF CountOne, IInv, TypeOK
    <3>3. Added = 1
      BY <3>1, <3>2 DEF Added
    <3> QED
      BY <1>1, <1>6, <3>1, <3>2, <3>3 DEF Adds
  <2> QED
    BY <2>1, <2>2, <2>3
<1> QED
  BY <1>7, CountItem


\* A text that is rejected is not a legal one.
LEMMA RejectStep ==
  ASSUME IInv, RejectValue \/ RejectDelimiter
  PROVE  IInv'
PROOF
<1>1. /\ More /\ pass = 1
      /\ result' \in {"illegalValue", "illegalDelimiter"}
      /\ UNCHANGED <<text, pass, p, iFirst, bIsLast, iCount, iList, seen>>
  BY DEF RejectValue, RejectDelimiter, Illegal
<1>2. text \in Texts /\ p \in 1..(Len(text) + 1) /\ p <= Len(text)
  BY <1>1 DEF IInv, TypeOK, More
<1>3. p \in 1..Len(text)
  BY <1>2, TextFacts
<1>4. ~Legal
  <2>1. CASE Here.val = NoNumber \/ Here.sep = "other"
    BY <1>3, <2>1 DEF Legal, Here
  <2>2. CASE Here.sep = ":" /\ bIsLast
    <3>1. /\ Len(seen) = p
          /\ \A n \in 1..(Len(seen) - 1) : Verified(n)
      BY <1>1 DEF IInv, Trail
    <3>2. seen[p].open /\ ~seen[1].open
      BY <1>1, <2>2 DEF IInv, Trail
    <3>3. p # 1
      BY <3>2
    <3>4. PICK n \in Int : n = p - 1 /\ n \in 1..(Len(seen) - 1) /\ n + 1 = p
      BY <1>3, <3>1, <3>3, TextFacts
    <3>5. text[n].sep = ":"
      BY <3>1, <3>2, <3>4 DEF Verified
    <3>6. p > 1
      BY <1>3, <3>3, TextFacts
    <3> QED
      BY <1>3, <2>2, <3>4, <3>5, <3>6 DEF Legal, Here
  <2> QED
    BY <2>1, <2>2 DEF RejectValue, RejectDelimiter, IsIllegal
<1>5. TypeOK'
  BY <1>1 DEF IInv, TypeOK
<1>6. Trail'
  BY <1>1 DEF IInv, Trail, Verified, Countable
<1>7. Retrace'
  BY <1>1 DEF IInv, Retrace, Closed
<1>8. Ending'
  BY <1>1, <1>4 DEF Ending, Legal, Closed, Bounded
<1> QED
  BY <1>5, <1>6, <1>7, <1>8 DEF IInv

\* A text whose last range is closed leaves no range open at its end.
LEMMA NothingOpen ==
  ASSUME IInv, Closed, pass = 1, p > Len(text)
  PROVE  iCount > 0 => ~bIsLast
PROOF
<1>1. text \in Texts /\ p \in 1..(Len(text) + 1)
  BY DEF IInv, TypeOK
<1>2. Len(text) \in Nat /\ p = Len(text) + 1
  BY <1>1, TextFacts
<1>3. /\ Len(seen) = p /\ seen[1].count = 0
      /\ seen[p].count <= IntMax => iCount = seen[p].count
      /\ \A n \in 1..(Len(seen) - 1) : Verified(n)
  BY DEF IInv, Trail, Countable
<1>4. seen[p].open = bIsLast
  BY DEF IInv, Trail
<1>5. CASE Len(text) = 0
  <2>1. p = 1
    BY <1>2, <1>5
  <2> QED
    BY <1>3, <2>1, ValuesAssumption
<1>6. CASE Len(text) # 0
  <2>1. PICK n \in Int : n = Len(text) /\ n \in 1..(Len(seen) - 1) /\ n + 1 = p
    BY <1>2, <1>3, <1>6
  <2>2. text # <<>>
    BY <1>6
  <2>3. text[n].sep # ":"
    BY <2>1, <2>2 DEF Closed
  <2>4. ~seen[p].open
    BY <1>3, <2>1, <2>3 DEF Verified
  <2> QED
    BY <1>4, <2>4
<1> QED
  BY <1>5, <1>6

LEMMA AllocateStep ==
  ASSUME IInv, Allocate
  PROVE  IInv'
PROOF
<1>1. /\ result = "running" /\ pass = 1 /\ p > Len(text)
      /\ UNCHANGED <<text, iFirst, bIsLast, iCount, iList, seen>>
  BY DEF Allocate
<1>2. text \in Texts /\ p \in 1..(Len(text) + 1)
  BY DEF IInv, TypeOK
<1>3. Len(text) \in Nat /\ p = Len(text) + 1
  BY <1>1, <1>2, TextFacts
<1>4. /\ Len(seen) = p /\ seen[1].count = 0
      /\ iList = <<>>
  BY <1>1 DEF IInv, Trail, Retrace
<1>5. \/ iCount > 0 /\ pass' = 2 /\ p' = 1 /\ result' = result
      \/ result' = "noMemory" /\ pass' = 1 /\ p' = p
      \/ iCount <= 0 /\ result' = "list" /\ pass' = 1 /\ p' = p
  BY <1>1 DEF Allocate
<1>6. TypeOK'
  <2>1. p' \in 1..(Len(text) + 1)
    BY <1>2, <1>3, <1>5
  <2>2. pass' \in {1, 2}
    BY <1>5
  <2>3. result' \in {"running", "list", "illegalValue", "illegalDelimiter", "noMemory", "runaway"}
    BY <1>1, <1>5
  <2> QED
    BY <1>1, <2>1, <2>2, <2>3 DEF IInv, TypeOK
<1>7. Trail'
  <2>1. pass' = 2 => Len(seen) = Len(text) + 1
    BY <1>3, <1>4
  <2>2. pass' = 1 => p' = p
    BY <1>5
  <2>3. UNCHANGED <<text, seen, iFirst, bIsLast, iCount>>
    BY <1>1
  <2> QED
    BY <1>1, <2>1, <2>2, <2>3 DEF IInv, Trail, Verified, Countable
<1>8. Retrace'
  <2>1. CASE pass' = 1
    BY <1>1, <1>4, <2>1 DEF Retrace
  <2>2. CASE pass' = 2 /\ Closed
    <3>1. iCount > 0 /\ p' = 1
      BY <1>5, <2>2
    <3>2. ~bIsLast
      BY <1>1, <2>2, <3>1, NothingOpen
    <3>3. seen[1].open = FALSE /\ bIsLast = FALSE
      BY <3>2 DEF IInv, Trail, TypeOK
    <3>4. Len(iList) = seen[1].count
      BY <1>4
    <3>5. bIsLast' = FALSE /\ seen'[p'].open = FALSE /\ Len(iList') = seen'[p'].count
      BY <1>1, <3>1, <3>3, <3>4
    <3>6. seen'[p'].open = bIsLast'
      BY <3>5, Zenon
    <3>7. ~bIsLast'
      BY <3>5
    <3>8. pass' # 1
      BY <2>2
    <3> QED
      BY <3>5, <3>6, <3>7, <3>8 DEF Retrace
  <2>3. CASE pass' = 2 /\ ~Closed
    BY <1>1, <2>3 DEF Retrace, Closed
  <2> QED
    BY <1>5, <2>1, <2>2, <2>3
<1>9. Ending'
  BY <1>1, <1>3, <1>5 DEF Ending, Closed, Bounded
<1> QED
  BY <1>6, <1>7, <1>8, <1>9 DEF IInv

\* A step of the second pass goes where the first one went.
LEMMA AssignStep ==
  ASSUME IInv, AssignFirst \/ AssignLast \/ AssignOne
  PROVE  IInv'
PROOF
<1>1. /\ More /\ pass = 2 /\ p' = p + 1
      /\ UNCHANGED <<text, pass, iCount, result, seen>>
  BY DEF AssignFirst, AssignLast, AssignOne, Move
<1>2. text \in Texts /\ p \in 1..(Len(text) + 1) /\ p <= Len(text)
  BY <1>1 DEF IInv, TypeOK, More
<1>3. Len(text) \in Nat /\ p \in 1..Len(text) /\ p' \in 1..(Len(text) + 1) /\ p \in Nat
  BY <1>1, <1>2, TextFacts
<1>4. Len(seen) = Len(text) + 1 /\ \A n \in 1..(Len(seen) - 1) : Verified(n)
  BY <1>1 DEF IInv, Trail
<1>5. Verified(p) /\ Here = text[p]
  BY <1>3, <1>4 DEF Here
<1>6. Number \in Int /\ Number = Cast(text[p].val)
  BY <1>5, CastFacts DEF Verified, Number
<1>7. iFirst \in Int /\ iCount \in Int /\ iList \in Seq(Int)
  BY DEF IInv, TypeOK
<1>8. /\ Interval(iFirst, Number) \in Seq(Int)
      /\ Len(Interval(iFirst, Number)) = RangeLength(iFirst, Number)
      /\ Smaller(iFirst, Number) \in Int
  BY <1>6, <1>7, IntervalFacts
<1>9. \/ iList' = iList /\ iFirst' = Number
      \/ iList' = iList \o Interval(iFirst, Number) /\ iFirst' = Smaller(iFirst, Number)
      \/ iList' = Append(iList, Number) /\ iFirst' = iFirst
  BY DEF AssignFirst, AssignLast, AssignOne
<1>10. iList' \in Seq(Int) /\ iFirst' \in Int
  <2>1. iList \o Interval(iFirst, Number) \in Seq(Int)
    BY <1>7, <1>8, ConcatProperties
  <2>2. Append(iList, Number) \in Seq(Int)
    BY <1>6, <1>7, AppendProperties
  <2> QED
    BY <1>6, <1>7, <1>8, <1>9, <2>1, <2>2
<1>11. bIsLast' \in BOOLEAN
  BY DEF AssignFirst, AssignLast, AssignOne, IInv, TypeOK
<1>12. TypeOK'
  BY <1>1, <1>3, <1>10, <1>11 DEF IInv, TypeOK
<1>13. Trail'
  <2>1. pass' = 2
    BY <1>1
  <2>2. text' = text /\ iCount' = iCount /\ seen' = seen
    BY <1>1
  <2>3. \A n \in 1..(Len(seen') - 1) : Verified(n)'
    BY <1>4, <2>2 DEF Verified
  <2>4. /\ Len(seen) >= 1 /\ ~seen[1].open /\ seen[1].count = 0
        /\ Countable => iCount = seen[Len(seen)].count
        /\ \A n \in 1..Len(seen) : seen[n].count <= seen[Len(seen)].count
    BY <1>1 DEF IInv, Trail
  <2> QED
    BY <1>4, <2>1, <2>2, <2>3, <2>4 DEF Trail, Countable
<1>14. ASSUME Closed
       PROVE  /\ Len(iList') = seen[p + 1].count
              /\ seen[p + 1].open = bIsLast'
              /\ bIsLast' => seen[p + 1].first = iFirst'
  <2>1. Len(iList) = seen[p].count
    BY <1>1, <1>14 DEF IInv, Retrace
  <2>2. seen[p].open = bIsLast
    BY <1>1, <1>14 DEF IInv, Retrace
  <2>3. bIsLast => seen[p].first = iFirst
    BY <1>1, <1>14 DEF IInv, Retrace
  <2>4. seen[p + 1].open \in BOOLEAN
    <3>1. seen \in Seq([first : Int, open : BOOLEAN, count : Nat])
      BY DEF IInv, TypeOK
    <3>2. p + 1 \in 1..Len(seen)
      BY <1>3, <1>4
    <3>3. seen[p + 1] \in [first : Int, open : BOOLEAN, count : Nat]
      BY <3>1, <3>2, ElementOfSeq
    <3> QED
      BY <3>3
  <2>5. CASE AssignFirst
    <3>1. Here.sep = ":" /\ iFirst' = Number /\ iList' = iList /\ bIsLast' = TRUE
      BY <2>5 DEF AssignFirst
    <3>2. seen[p + 1].open /\ seen[p + 1].first = Number /\ seen[p + 1].count = seen[p].count
      BY <1>5, <1>6, <3>1 DEF Verified
    <3> QED
      BY <2>1, <2>4, <3>1, <3>2
  <2>6. CASE AssignLast
    <3>1. Here.sep # ":" /\ bIsLast /\ bIsLast' = FALSE
      BY <2>6 DEF AssignLast
    <3>2. seen[p].open
      BY <2>2, <3>1
    <3>3. ~seen[p + 1].open /\ seen[p + 1].count = seen[p].count + RangeLength(seen[p].first, Number)
      BY <1>5, <1>6, <3>1, <3>2 DEF Verified
    <3>4. Len(iList') = Len(iList) + RangeLength(iFirst, Number)
      BY <1>7, <1>8, <2>6, ConcatProperties DEF AssignLast
    <3>5. Len(iList') = seen[p + 1].count
      BY <2>1, <2>3, <3>1, <3>3, <3>4
    <3> QED
      BY <2>4, <3>1, <3>3, <3>5
  <2>7. CASE AssignOne
    <3>1. Here.sep # ":" /\ ~bIsLast /\ bIsLast' = bIsLast
      BY <2>7 DEF AssignOne
    <3>2. ~seen[p].open
      BY <2>2, <3>1
    <3>3. ~seen[p + 1].open /\ seen[p + 1].count = seen[p].count + 1
      BY <1>5, <1>6, <3>1, <3>2 DEF Verified
    <3>4. Len(iList') = Len(iList) + 1
      BY <1>6, <1>7, <2>7, AppendProperties DEF AssignOne
    <3>5. Len(iList') = seen[p + 1].count
      BY <2>1, <3>3, <3>4
    <3>6. seen[p + 1].open = bIsLast'
      BY <1>11, <2>4, <3>1, <3>3
    <3> QED
      BY <3>1, <3>5, <3>6
  <2> QED
    BY <2>5, <2>6, <2>7
<1>15. Retrace'
  <2>1. CASE Closed
    BY <1>1, <1>14, <2>1 DEF Retrace
  <2>2. CASE ~Closed
    BY <1>1, <2>2 DEF Retrace, Closed
  <2> QED
    BY <2>1, <2>2
<1>16. Ending'
  BY <1>1 DEF Ending, More
<1> QED
  BY <1>12, <1>13, <1>15, <1>16 DEF IInv

\* The loop over a range passes INT_MAX only when the range goes up to it.
LEMMA AssignForeverStep ==
  ASSUME IInv, AssignForever
  PROVE  IInv'
PROOF
<1>1. /\ More /\ pass = 2 /\ Here.sep \in {",", "end"} /\ result' = "runaway"
      /\ Larger(iFirst, Number) >= IntMax
      /\ UNCHANGED <<text, pass, p, iFirst, bIsLast, iCount, iList, seen>>
  BY DEF AssignForever
<1>2. bIsLast
  BY DEF AssignForever
<1>3. text \in Texts /\ p \in 1..(Len(text) + 1) /\ p <= Len(text)
  BY <1>1 DEF IInv, TypeOK, More
<1>4. Len(text) \in Nat /\ p \in 1..Len(text) /\ IntMax \in Nat
  BY <1>3, TextFacts, ValuesAssumption
<1>5. Closed => ~Bounded
  <2> SUFFICES ASSUME Closed PROVE ~Bounded
    OBVIOUS
  <2>1. Len(seen) = Len(text) + 1 /\ \A n \in 1..(Len(seen) - 1) : Verified(n)
    BY <1>1 DEF IInv, Trail
  <2>2. seen[p].open
    BY <1>1, <1>2 DEF IInv, Retrace
  <2>3. ~seen[1].open
    BY DEF IInv, Trail
  <2>4. p # 1
    BY <2>2, <2>3
  <2>5. PICK n \in Int : n = p - 1 /\ n \in 1..Len(text) /\ n + 1 = p
    BY <1>4, <2>4
  <2>a. Verified(n) /\ Verified(p)
    BY <1>4, <2>1, <2>5
  <2>6. text[n].sep = ":" /\ seen[p].first = Cast(text[n].val) /\ text[n].val \in Int
    BY <2>a, <2>2, <2>5 DEF Verified
  <2>7. seen[p].first = iFirst
    BY <1>1, <1>2 DEF IInv, Retrace
  <2>8. text[p].val \in Int /\ Number = Cast(text[p].val)
    BY <2>a DEF Verified, Number, Here
  <2>9. iFirst \in Int /\ Number \in Int
    BY <2>6, <2>7, <2>8, CastFacts
  <2>10. Cast(text[n].val) >= IntMax \/ Cast(text[p].val) >= IntMax
    BY <1>1, <2>6, <2>7, <2>8 DEF Larger
  <2>11. p > 1 /\ text[p - 1].sep = ":"
    BY <1>4, <2>4, <2>5, <2>6
  <2>12. ASSUME Bounded PROVE FALSE
    <3>1. Cast(text[n].val) < IntMax
      BY <2>5, <2>6, <2>12 DEF Bounded
    <3>2. Cast(text[p].val) < IntMax
      BY <1>4, <2>11, <2>12 DEF Bounded
    <3> QED
      BY <1>4, <2>6, <2>7, <2>8, <2>9, <2>10, <3>1, <3>2
  <2> QED
    BY <2>12
<1>6. TypeOK'
  BY <1>1 DEF IInv, TypeOK
<1>7. Trail'
  BY <1>1 DEF IInv, Trail, Verified, Countable
<1>8. Retrace'
  BY <1>1 DEF IInv, Retrace, Closed
<1>9. Ending'
  BY <1>1, <1>5 DEF Ending, Closed, Bounded
<1> QED
  BY <1>6, <1>7, <1>8, <1>9 DEF IInv

LEMMA ReturnStep ==
  ASSUME IInv, Return
  PROVE  IInv'
PROOF
<1>1. /\ pass = 2 /\ p > Len(text) /\ result' = "list"
      /\ UNCHANGED <<text, pass, p, iFirst, bIsLast, iCount, iList, seen>>
  BY DEF Return
<1>2. text \in Texts /\ p \in 1..(Len(text) + 1)
  BY DEF IInv, TypeOK
<1>3. p = Len(text) + 1
  BY <1>1, <1>2, TextFacts
<1>4. TypeOK'
  BY <1>1 DEF IInv, TypeOK
<1>5. Trail'
  BY <1>1 DEF IInv, Trail, Verified, Countable
<1>6. Retrace'
  BY <1>1 DEF IInv, Retrace, Closed
<1>7. Ending'
  BY <1>1, <1>3 DEF Ending, Closed, Bounded
<1> QED
  BY <1>4, <1>5, <1>6, <1>7 DEF IInv

LEMMA StepInvariant == IInv /\ [Next]_vars => IInv'
PROOF
<1> SUFFICES ASSUME IInv, [Next]_vars PROVE IInv'
  OBVIOUS
<1>1. CASE RejectValue \/ RejectDelimiter
  BY <1>1, RejectStep
<1>2. CASE CountFirst \/ CountLast \/ CountOne
  BY <1>2, CountStep
<1>3. CASE Allocate
  BY <1>3, AllocateStep
<1>4. CASE AssignFirst \/ AssignLast \/ AssignOne
  BY <1>4, AssignStep
<1>5. CASE Return
  BY <1>5, ReturnStep
<1>6. CASE AssignForever
  BY <1>6, AssignForeverStep
<1>7. CASE UNCHANGED vars
  <2>1. TypeOK'
    BY <1>7 DEF vars, IInv, TypeOK
  <2>2. Trail'
    BY <1>7 DEF vars, IInv, Trail, Verified, Countable
  <2>3. Retrace'
    BY <1>7 DEF vars, IInv, Retrace, Closed
  <2>4. Ending'
    BY <1>7 DEF vars, IInv, Ending, Closed, Legal, Bounded
  <2> QED
    BY <2>1, <2>2, <2>3, <2>4 DEF IInv
<1> QED
  BY <1>1, <1>2, <1>3, <1>4, <1>5, <1>6, <1>7 DEF Next

-----------------------------------------------------------------------------
\* Reading a text keeps the inductive invariant.
THEOREM Invariant == Spec => []IInv
PROOF
<1> QED
  BY InitInvariant, StepInvariant, PTL DEF Spec

\* Every variable of iGetIntList stays in its range, whatever the text.
THEOREM TypeCorrect == Spec => []TypeOK
PROOF
<1>1. IInv => TypeOK
  BY DEF IInv
<1> QED
  BY <1>1, Invariant, PTL

\* The second pass of iGetIntList stays within the cells the first one counted and
\* fills all of them, for every text whose last range is closed and that stands for no
\* more integers than an int counts; it ends unless a range goes up to INT_MAX.
THEOREM PassesAlwaysAgree == Spec => []PassesAgree
PROOF
<1>1. IInv => PassesAgree
  <2> SUFFICES ASSUME IInv, Closed, Countable
               PROVE  /\ pass = 2 => Len(iList) <= iCount
                      /\ result = "list" => Len(iList) = iCount
    BY DEF PassesAgree, IInv, Ending
  <2>1. text \in Texts /\ p \in 1..(Len(text) + 1) /\ Len(text) \in Nat /\ pass \in {1, 2}
    BY TextFacts DEF IInv, TypeOK
  <2>2. CASE pass = 1
    <3>1. /\ Len(seen) = p /\ iCount = seen[p].count
      BY <2>2 DEF IInv, Trail
    <3>a. seen \in Seq([first : Int, open : BOOLEAN, count : Nat]) /\ p \in 1..Len(seen)
      BY <2>1, <3>1 DEF IInv, TypeOK
    <3>2. seen[p] \in [first : Int, open : BOOLEAN, count : Nat]
      BY <3>a, ElementOfSeq
    <3>3. iList = <<>> /\ (result = "list" => iCount <= 0)
      BY <2>2 DEF IInv, Retrace, Ending
    <3> QED
      BY <2>2, <3>1, <3>2, <3>3
  <2>3. CASE pass = 2
    <3>1. /\ Len(seen) = Len(text) + 1 /\ seen[Len(seen)].count = iCount
          /\ \A n \in 1..Len(seen) : seen[n].count <= seen[Len(seen)].count
      BY <2>3 DEF IInv, Trail
    <3>2. Len(iList) = seen[p].count
      BY <2>3 DEF IInv, Retrace
    <3>3. result = "list" => p = Len(seen)
      BY <3>1 DEF IInv, Ending
    <3> QED
      BY <2>1, <2>3, <3>1, <3>2, <3>3
  <2> QED
    BY <2>1, <2>2, <2>3
<1> QED
  BY <1>1, Invariant, PTL

\* iGetIntList returns a list for legal texts alone and rejects illegal ones alone.
THEOREM OnlyLegalTextsPass == Spec => []OnlyLegalTexts
PROOF
<1>1. IInv => OnlyLegalTexts
  <2> SUFFICES ASSUME IInv, result = "list" PROVE Legal
    BY DEF OnlyLegalTexts, IInv, Ending
  <2>1. text \in Texts /\ Len(text) \in Nat /\ pass \in {1, 2}
    BY TextFacts DEF IInv, TypeOK
  <2>2. Len(seen) = Len(text) + 1
    BY <2>1 DEF IInv, Trail, Ending
  <2>3. \A n \in 1..Len(text) : Verified(n)
    BY <2>1, <2>2 DEF IInv, Trail
  <2> SUFFICES ASSUME NEW n \in 1..Len(text)
               PROVE  /\ text[n].val # NoNumber /\ text[n].sep # "other"
                      /\ text[n].sep = ":" /\ n > 1 => text[n - 1].sep # ":"
    BY DEF Legal
  <2>4. text[n].val # NoNumber /\ text[n].sep # "other"
    BY <2>3, ValuesAssumption DEF Verified
  <2>5. ASSUME text[n].sep = ":", n > 1 PROVE text[n - 1].sep # ":"
    <3>1. PICK a \in Int : a = n - 1 /\ a + 1 = n /\ a \in 1..Len(text)
      BY <2>1, <2>5
    <3>2. ~seen[n].open
      BY <2>3, <2>5 DEF Verified
    <3>3. text[a].sep = ":" => seen[n].open
      BY <2>3, <3>1 DEF Verified
    <3> QED
      BY <3>1, <3>2, <3>3
  <2> QED
    BY <2>4, <2>5
<1> QED
  BY <1>1, Invariant, PTL

-----------------------------------------------------------------------------
(***************************************************************************)
(* The list that is returned is the expansion of the text.  No induction   *)
(* over the text is needed: the second pass is that induction.  Before the *)
(* item p it has unfolded the recursion of Expansion up to the item p - 1, *)
(* and whatever unfolds it over the whole text agrees with iList there.    *)
(***************************************************************************)
Unfolds(f, k) ==
  f = [n \in 0..k |-> IF n = 0 THEN <<>> ELSE f[n - 1] \o Part(text, n)]

\* What the second pass knows at the item p.
Unfolded ==
  pass = 2 /\ Closed /\ AllInts =>
    /\ bIsLast => p > 1 /\ text[p - 1].sep = ":" /\ iFirst = text[p - 1].val
    /\ ~bIsLast => p = 1 \/ text[p - 1].sep # ":"
    /\ \E f : Unfolds(f, p - 1)
    /\ \A f : Unfolds(f, Len(text)) => f[p - 1] = iList

\* The integers between two ints, upwards, are the cells the second pass fills.
LEMMA UpwardsFacts ==
  ASSUME NEW a \in Ints, NEW b \in Ints
  PROVE  Upwards({v \in Ints : (a <= v /\ v <= b) \/ (b <= v /\ v <= a)}) = Interval(a, b)
PROOF
<1> DEFINE S == {v \in Ints : (a <= v /\ v <= b) \/ (b <= v /\ v <= a)}
           lo == Smaller(a, b)
           hi == Larger(a, b)
<1>1. IntMax \in Nat /\ a \in Int /\ b \in Int
  BY ValuesAssumption DEF Ints
<1>2. lo \in Int /\ hi \in Int /\ lo <= hi
  BY <1>1 DEF Smaller, Larger
<1>3. S = lo..hi
  BY <1>1 DEF Ints, Smaller, Larger
<1> HIDE DEF S, lo, hi
<1>4. Cardinality(S) = hi - lo + 1
  BY <1>2, <1>3, FS_Interval
<1>5. ASSUME NEW v \in S PROVE Cardinality({w \in S : w <= v}) = v - lo + 1
  <2>1. v \in Int /\ lo <= v /\ {w \in S : w <= v} = lo..v
    BY <1>2, <1>3
  <2>2. Cardinality(lo..v) = v - lo + 1
    BY <1>2, <2>1, FS_Interval
  <2> QED
    BY <2>1, <2>2
<1>6. ASSUME NEW n \in 1..(hi - lo + 1)
      PROVE  (CHOOSE v \in S : Cardinality({w \in S : w <= v}) = n) = lo + n - 1
  <2>1. lo + n - 1 \in S
    BY <1>2, <1>3
  <2>2. Cardinality({w \in S : w <= lo + n - 1}) = n
    BY <1>2, <1>5, <2>1
  <2>3. \A v \in S : Cardinality({w \in S : w <= v}) = n => v = lo + n - 1
    BY <1>2, <1>3, <1>5
  <2> QED
    BY <2>1, <2>2, <2>3
<1>7. Upwards(S) = [n \in 1..(hi - lo + 1) |-> lo + n - 1]
  BY <1>4, <1>6 DEF Upwards
<1> QED
  BY <1>7 DEF S, lo, hi, Interval

\* One more item unfolds the recursion once more.
LEMMA UnfoldMore ==
  ASSUME NEW k \in Nat, \E f : Unfolds(f, k)
  PROVE  \E f : Unfolds(f, k + 1)
PROOF
<1>1. PICK f : Unfolds(f, k)
  OBVIOUS
<1> DEFINE g == [n \in 0..(k + 1) |-> IF n = k + 1 THEN f[k] \o Part(text, n) ELSE f[n]]
<1>2. ASSUME NEW n \in 0..k PROVE f[n] = IF n = 0 THEN <<>> ELSE f[n - 1] \o Part(text, n)
  BY <1>1 DEF Unfolds
<1>3. ASSUME NEW n \in 0..(k + 1)
      PROVE  g[n] = IF n = 0 THEN <<>> ELSE g[n - 1] \o Part(text, n)
  <2>1. CASE n = k + 1
    <3>1. n # 0 /\ n - 1 = k /\ k \in 0..(k + 1) /\ k # k + 1
      BY <2>1
    <3>2. g[n - 1] = f[k] /\ g[n] = f[k] \o Part(text, n)
      BY <2>1, <3>1
    <3> QED
      BY <3>1, <3>2
  <2>2. CASE n # k + 1
    <3>1. n \in 0..k /\ g[n] = f[n]
      BY <2>2
    <3>2. n # 0 => g[n - 1] = f[n - 1]
      BY <2>2
    <3> QED
      BY <1>2, <3>1, <3>2
  <2> QED
    BY <2>1, <2>2
<1>4. g = [n \in 0..(k + 1) |-> g[n]]
  OBVIOUS
<1> HIDE DEF g
<1>5. g = [n \in 0..(k + 1) |-> IF n = 0 THEN <<>> ELSE g[n - 1] \o Part(text, n)]
  BY <1>3, <1>4
<1> QED
  BY <1>5 DEF Unfolds

\* A recursion that can be unfolded over the text defines its expansion.
LEMMA ExpansionFacts ==
  ASSUME Len(text) \in Nat, \E f : Unfolds(f, Len(text))
  PROVE  \E f : Unfolds(f, Len(text)) /\ Expansion(text) = f[Len(text)]
PROOF
<1> DEFINE E == CHOOSE f : f = [n \in 0..Len(text) |->
                                  IF n = 0 THEN <<>> ELSE f[n - 1] \o Part(text, n)]
<1>1. E = [n \in 0..Len(text) |-> IF n = 0 THEN <<>> ELSE E[n - 1] \o Part(text, n)]
  BY DEF Unfolds
<1>2. Expansion(text) = E[Len(text)]
  BY DEF Expansion
<1> QED
  BY <1>1, <1>2 DEF Unfolds

\* The second pass unfolds the recursion at each of its steps.
LEMMA AssignUnfolds ==
  ASSUME IInv, Unfolded, AssignFirst \/ AssignLast \/ AssignOne
  PROVE  Unfolded'
PROOF
<1>1. More /\ pass = 2 /\ p' = p + 1 /\ UNCHANGED <<text, pass>>
  BY DEF AssignFirst, AssignLast, AssignOne, Move
<1>2. text \in Texts /\ p \in 1..(Len(text) + 1) /\ p <= Len(text)
  BY <1>1 DEF IInv, TypeOK, More
<1>3. Len(text) \in Nat /\ p \in 1..Len(text)
  BY <1>1, <1>2, TextFacts
<1> SUFFICES ASSUME Closed, AllInts
             PROVE  /\ bIsLast' => p' > 1 /\ text[p' - 1].sep = ":" /\ iFirst' = text[p' - 1].val
                    /\ ~bIsLast' => p' = 1 \/ text[p' - 1].sep # ":"
                    /\ \E f : Unfolds(f, p)
                    /\ \A f : Unfolds(f, Len(text)) => f[p] = iList'
  <2>1. Len(text') = Len(text) /\ p' - 1 = p
    BY <1>1, <1>3
  <2> QED
    BY <1>1, <2>1 DEF Unfolded, Closed, AllInts, Unfolds
<1>4. /\ bIsLast => p > 1 /\ text[p - 1].sep = ":" /\ iFirst = text[p - 1].val
      /\ ~bIsLast => p = 1 \/ text[p - 1].sep # ":"
      /\ \E f : Unfolds(f, p - 1)
      /\ \A f : Unfolds(f, Len(text)) => f[p - 1] = iList
  BY <1>1 DEF Unfolded
<1>5. Here = text[p] /\ text[p].val \in Ints /\ Number = text[p].val
  BY <1>3 DEF AllInts, Here, Number, Cast
<1>6. p' > 1 /\ p' - 1 = p
  BY <1>1, <1>3
<1>7. bIsLast \in BOOLEAN /\ iList \in Seq(Int)
  BY DEF IInv, TypeOK
<1>8. /\ bIsLast' => text[p].sep = ":" /\ iFirst' = text[p].val
      /\ ~bIsLast' => text[p].sep # ":"
  <2>1. CASE AssignFirst
    <3>1. text[p].sep = ":" /\ iFirst' = text[p].val /\ bIsLast' = TRUE
      BY <1>5, <2>1 DEF AssignFirst
    <3> QED
      BY <3>1
  <2>2. CASE AssignLast
    <3>1. text[p].sep # ":" /\ bIsLast' = FALSE
      BY <1>5, <2>2 DEF AssignLast
    <3> QED
      BY <3>1
  <2>3. CASE AssignOne
    <3>1. text[p].sep # ":" /\ bIsLast = FALSE /\ bIsLast' = bIsLast
      BY <1>5, <1>7, <2>3 DEF AssignOne
    <3> QED
      BY <3>1
  <2> QED
    BY <2>1, <2>2, <2>3
<1>9. \E f : Unfolds(f, p)
  <2>1. PICK k \in Nat : k = p - 1 /\ k + 1 = p
    BY <1>3
  <2> QED
    BY <1>4, <2>1, UnfoldMore
<1>10. iList' = iList \o Part(text, p)
  <2>1. CASE AssignFirst
    <3>1. text[p].sep = ":" /\ iList' = iList
      BY <1>5, <2>1 DEF AssignFirst
    <3>2. Part(text, p) = <<>>
      BY <3>1 DEF Part
    <3> QED
      BY <1>7, <3>1, <3>2, ConcatEmptySeq
  <2>2. CASE AssignLast
    <3>1. text[p].sep # ":" /\ bIsLast /\ iList' = iList \o Interval(iFirst, Number)
      BY <1>5, <2>2 DEF AssignLast
    <3>2. p > 1 /\ text[p - 1].sep = ":" /\ iFirst = text[p - 1].val
      BY <1>4, <3>1
    <3>3. text[p - 1].val \in Ints
      BY <1>3, <3>2 DEF AllInts
    <3>4. Part(text, p) = Upwards({v \in Ints : (iFirst <= v /\ v <= Number) \/ (Number <= v /\ v <= iFirst)})
      BY <1>5, <3>1, <3>2 DEF Part
    <3>5. Part(text, p) = Interval(iFirst, Number)
      BY <1>5, <3>2, <3>3, <3>4, UpwardsFacts
    <3> QED
      BY <3>1, <3>5
  <2>3. CASE AssignOne
    <3>1. text[p].sep # ":" /\ ~bIsLast /\ iList' = Append(iList, text[p].val)
      BY <1>5, <2>3 DEF AssignOne
    <3>2. ~(p > 1 /\ text[p - 1].sep = ":")
      BY <1>4, <3>1
    <3>3. Part(text, p) = <<text[p].val>>
      BY <3>1, <3>2 DEF Part
    <3>4. text[p].val \in Int
      BY <1>5, ValuesAssumption DEF Ints
    <3> QED
      BY <1>7, <3>1, <3>3, <3>4, AppendIsConcat
  <2> QED
    BY <2>1, <2>2, <2>3
<1>11. ASSUME NEW f, Unfolds(f, Len(text)) PROVE f[p] = iList'
  <2>1. f[p - 1] = iList
    BY <1>4, <1>11
  <2>2. f[p] = f[p - 1] \o Part(text, p)
    <3>1. p \in 0..Len(text) /\ p # 0
      BY <1>3
    <3> QED
      BY <1>11, <3>1 DEF Unfolds
  <2> QED
    BY <1>10, <2>1, <2>2
<1> QED
  BY <1>6, <1>8, <1>9, <1>11

\* The second pass begins with nothing unfolded.
LEMMA AllocateUnfolds ==
  ASSUME IInv, Unfolded, Allocate
  PROVE  Unfolded'
PROOF
<1>1. /\ pass = 1 /\ p > Len(text)
      /\ UNCHANGED <<text, iFirst, bIsLast, iCount, iList, seen>>
  BY DEF Allocate
<1>2. CASE iCount > 0 /\ pass' = 2 /\ p' = 1
  <2>1. Closed => ~bIsLast
    BY <1>1, <1>2, NothingOpen
  <2>2. iList = <<>>
    BY <1>1 DEF IInv, Retrace
  <2>3. Len(text) \in Nat
    BY TextFacts DEF IInv, TypeOK
  <2>4. \E f : Unfolds(f, 0)
    <3>1. Unfolds([n \in 0..0 |-> <<>>], 0)
      BY DEF Unfolds
    <3> QED
      BY <3>1
  <2>5. \A f : Unfolds(f, Len(text)) => f[0] = <<>>
    BY <2>3 DEF Unfolds
  <2>6. p' - 1 = 0 /\ text' = text /\ bIsLast' = bIsLast /\ iList' = <<>>
    BY <1>1, <1>2, <2>2
  <2> QED
    BY <1>2, <2>1, <2>4, <2>5, <2>6 DEF Unfolded, Closed, Unfolds
<1>3. CASE pass' = pass /\ p' = p
  BY <1>1, <1>3 DEF Unfolded
<1> QED
  BY <1>2, <1>3 DEF Allocate

\* A closed text that counts no integer is empty.
LEMMA EmptyIsCounted ==
  ASSUME IInv, Closed, Countable, pass = 1, p = Len(text) + 1, iCount <= 0
  PROVE  Len(text) = 0
PROOF
<1>1. text \in Texts /\ Len(text) \in Nat
  BY TextFacts DEF IInv, TypeOK
<1>2. /\ Len(seen) = Len(text) + 1 /\ seen[Len(seen)].count <= 0
      /\ \A n \in 1..(Len(seen) - 1) : Verified(n)
  BY DEF IInv, Trail
<1> SUFFICES ASSUME Len(text) # 0 PROVE FALSE
  OBVIOUS
<1>3. PICK n \in Nat : n = Len(text) /\ n \in 1..(Len(seen) - 1) /\ n + 1 = Len(seen)
  BY <1>1, <1>2
<1>4. text[n].sep # ":" /\ Verified(n)
  BY <1>2, <1>3 DEF Closed
<1>5. seen \in Seq([first : Int, open : BOOLEAN, count : Nat])
  BY DEF IInv, TypeOK
<1>6. n \in 1..Len(seen) /\ n + 1 \in 1..Len(seen)
  BY <1>3
<1>a. /\ seen[n] \in [first : Int, open : BOOLEAN, count : Nat]
      /\ seen[n + 1] \in [first : Int, open : BOOLEAN, count : Nat]
  BY <1>5, <1>6, ElementOfSeq
<1>7. seen[n].first \in Int /\ seen[n].count \in Nat /\ seen[n + 1].count \in Nat
  BY <1>a
<1>8. RangeLength(seen[n].first, Cast(text[n].val)) >= 1
  BY <1>4, <1>7, CastFacts, IntervalFacts DEF Verified
<1>9. RangeLength(seen[n].first, Cast(text[n].val)) \in Nat
  BY <1>4, <1>7, CastFacts, IntervalFacts DEF Verified
<1>10. seen[n + 1].count >= 1
  <2>1. CASE seen[n].open
    <3>1. seen[n + 1].count = seen[n].count + RangeLength(seen[n].first, Cast(text[n].val))
      BY <1>4, <2>1 DEF Verified
    <3> QED
      BY <1>7, <1>8, <1>9, <3>1
  <2>2. CASE ~seen[n].open
    <3>1. seen[n + 1].count = seen[n].count + 1
      BY <1>4, <2>2 DEF Verified
    <3> QED
      BY <1>7, <3>1
  <2> QED
    BY <2>1, <2>2
<1> QED
  BY <1>2, <1>3, <1>7, <1>10

\* iGetIntList gives the list a closed text of ints stands for, whatever the text, its
\* length and the width of an int: ranges upwards, in the order of the text.
THEOREM ListIsAlwaysTheExpansion == Spec => []ListIsTheExpansion
PROOF
<1>1. Init => Unfolded
  BY DEF Init, Unfolded
<1>2. IInv /\ Unfolded /\ [Next]_vars => Unfolded'
  <2> SUFFICES ASSUME IInv, Unfolded, [Next]_vars PROVE Unfolded'
    OBVIOUS
  <2>1. CASE RejectValue \/ RejectDelimiter \/ AssignForever \/ Return \/ UNCHANGED vars
    <3>1. UNCHANGED <<text, pass, p, iFirst, bIsLast, iList>>
      BY <2>1 DEF RejectValue, RejectDelimiter, Illegal, AssignForever, Return, vars
    <3> QED
      BY <3>1 DEF Unfolded, Closed, AllInts, Unfolds
  <2>2. CASE CountFirst \/ CountLast \/ CountOne
    <3>1. pass' = 1
      BY <2>2 DEF CountFirst, CountLast, CountOne, Advance
    <3> QED
      BY <3>1 DEF Unfolded
  <2>3. CASE Allocate
    BY <2>3, AllocateUnfolds
  <2>4. CASE AssignFirst \/ AssignLast \/ AssignOne
    BY <2>4, AssignUnfolds
  <2> QED
    BY <2>1, <2>2, <2>3, <2>4 DEF Next
<1>3. IInv /\ Unfolded => ListIsTheExpansion
  <2> SUFFICES ASSUME IInv, Unfolded, result = "list", Closed, Countable, AllInts
               PROVE  iList = Expansion(text)
    BY DEF ListIsTheExpansion
  <2>1. /\ text \in Texts /\ Len(text) \in Nat /\ pass \in {1, 2} /\ p = Len(text) + 1
        /\ pass = 1 => iCount <= 0 /\ iList = <<>>
    BY TextFacts DEF IInv, TypeOK, Ending, Retrace
  <2>2. CASE pass = 2
    <3>1. \E f : Unfolds(f, Len(text))
      BY <2>1, <2>2 DEF Unfolded
    <3>2. \A f : Unfolds(f, Len(text)) => f[Len(text)] = iList
      BY <2>1, <2>2 DEF Unfolded
    <3> QED
      BY <2>1, <3>1, <3>2, ExpansionFacts
  <2>3. CASE pass = 1
    <3>1. Len(text) = 0
      BY <2>1, <2>3, EmptyIsCounted
    <3>2. Unfolds([n \in 0..0 |-> <<>>], 0)
      BY DEF Unfolds
    <3>3. \A f : Unfolds(f, 0) => f[0] = <<>>
      BY DEF Unfolds
    <3> QED
      BY <2>1, <2>3, <3>1, <3>2, <3>3, ExpansionFacts
  <2> QED
    BY <2>1, <2>2, <2>3
<1> QED
  BY <1>1, <1>2, <1>3, Invariant, PTL DEF Spec

-----------------------------------------------------------------------------
\* How many steps a call can still take.
StepsLeft ==
  IF result # "running" THEN 0
  ELSE IF pass = 1 THEN 2 * Len(text) + 4 - p ELSE Len(text) + 2 - p

\* The two loops of iGetIntList over a text end: each goes past an item at every
\* iteration, and neither is entered twice.  Only the loop over a range, inside one
\* iteration, can run for ever (utils.c:65-172).
THEOREM PassesRunDown == Spec => [](StepsLeft \in Nat) /\ [][StepsLeft' < StepsLeft]_vars
PROOF
<1>1. IInv => StepsLeft \in Nat /\ (result = "running" => StepsLeft > 0)
  <2> SUFFICES ASSUME IInv PROVE StepsLeft \in Nat /\ (result = "running" => StepsLeft > 0)
    OBVIOUS
  <2>1. Len(text) \in Nat /\ p \in 1..(Len(text) + 1)
    BY TextFacts DEF IInv, TypeOK
  <2> QED
    BY <2>1 DEF StepsLeft
<1>2. IInv /\ [Next]_vars => [StepsLeft' < StepsLeft]_vars
  <2> SUFFICES ASSUME IInv, Next PROVE StepsLeft' < StepsLeft
    BY DEF vars
  <2>1. Len(text) \in Nat /\ p \in 1..(Len(text) + 1) /\ pass \in {1, 2}
    BY TextFacts DEF IInv, TypeOK
  <2>2. result = "running" /\ text' = text
    BY DEF Next, RejectValue, RejectDelimiter, Illegal, CountFirst, CountLast, CountOne, Advance,
           Allocate, AssignFirst, AssignLast, AssignForever, AssignOne, Move, Return, More
  <2>3. CASE RejectValue \/ RejectDelimiter \/ AssignForever \/ Return
    <3>1. result' # "running"
      BY <2>3 DEF RejectValue, RejectDelimiter, Illegal, AssignForever, Return
    <3> QED
      BY <1>1, <2>2, <3>1 DEF StepsLeft
  <2>4. CASE CountFirst \/ CountLast \/ CountOne \/ AssignFirst \/ AssignLast \/ AssignOne
    <3>1. p' = p + 1 /\ pass' = pass /\ result' = result
      BY <2>4 DEF CountFirst, CountLast, CountOne, Advance, AssignFirst, AssignLast, AssignOne, Move
    <3> QED
      BY <2>1, <2>2, <3>1 DEF StepsLeft
  <2>5. CASE Allocate
    <3>1. pass = 1 /\ ((pass' = 2 /\ p' = 1) \/ result' # "running")
      BY <2>5 DEF Allocate
    <3> QED
      BY <1>1, <2>1, <2>2, <3>1 DEF StepsLeft
  <2> QED
    BY <2>3, <2>4, <2>5 DEF Next
<1> QED
  BY <1>1, <1>2, Invariant, PTL DEF Spec
=============================================================================
