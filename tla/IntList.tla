------------------------------ MODULE IntList ------------------------------
(***************************************************************************)
(* iGetIntList (src/utils.c): the value of -a and -r, such as 12,3,5:9,45. *)
(*                                                                         *)
(* The text is read twice: the first pass verifies it and counts the       *)
(* integers it stands for, the second fills a block of that many cells.    *)
(* Nothing checks an index in the second pass: the two passes have to      *)
(* agree.                                                                  *)
(*                                                                         *)
(* What one iteration of a pass reads is an item: the number strtol finds  *)
(* and the character after it.                                             *)
(*                                                                         *)
(* A definition named X_Y is X with the mistake Y in it: no action uses it,*)
(* and a property of a run is shown to fail when it takes X's place.       *)
(*                                                                         *)
(* An int keeps its width: strtol's long is cut to one without a check,    *)
(* the length of a range and the sum of the lengths wrap, and a loop up to *)
(* INT_MAX does not end.                                                   *)
(***************************************************************************)
EXTENDS Integers, Sequences, FiniteSets

CONSTANTS
  IntMax,   \* INT_MAX
  Values,   \* the numbers of a text, which are longs
  Texts,    \* the texts
  NoNumber  \* what strtol finds where there is no number

Separators == {",", ":", "end", "other"}
Item == [val : Values \cup {NoNumber}, sep : Separators]

ASSUME ValuesAssumption == Values \subseteq Int /\ NoNumber \notin Int /\ IntMax \in Nat

\* The end of the text comes last, if it follows a number at all.
ASSUME TextsAssumption ==
  \A t \in Texts :
    t \in Seq(Item) /\ \A n \in 1..Len(t) : t[n].sep = "end" => n = Len(t)

VARIABLES
  text,     \* sList
  pass, p,  \* the pass, and the item it is at
  iFirst, bIsLast,
  iCount,   \* what the first pass counted
  iList,    \* the cells the second pass filled: iIndex is its length
  result,   \* "running", "list", "illegalValue", "illegalDelimiter", "noMemory",
            \* "runaway" when a loop has passed INT_MAX
  seen      \* what the first pass knew before each item and at the end, with the
            \* count no int has cut

vars == <<text, pass, p, iFirst, bIsLast, iCount, iList, result, seen>>

Ints == (-IntMax - 1)..IntMax

\* An int that is assigned a number: the low bits are kept.
Cast(n) == IF n \in Ints THEN n ELSE ((n + IntMax + 1) % (2 * (IntMax + 1))) - IntMax - 1

Smaller(a, b) == IF a <= b THEN a ELSE b
Larger(a, b) == IF a <= b THEN b ELSE a

\* The integers from the first to the last of a range, upwards.
Interval(first, last) ==
  [n \in 1..(Larger(first, last) - Smaller(first, last) + 1) |-> Smaller(first, last) + n - 1]

RangeLength_Short(first, last) == Larger(first, last) - Smaller(first, last)
RangeLength(first, last) == Larger(first, last) - Smaller(first, last) + 1

Here == text[p]
Number == Cast(Here.val)
More == result = "running" /\ p <= Len(text)

Init ==
  /\ text \in Texts
  /\ pass = 1 /\ p = 1
  /\ iFirst = 0 /\ bIsLast = FALSE /\ iCount = 0
  /\ iList = <<>>
  /\ result = "running"
  /\ seen = <<[first |-> 0, open |-> FALSE, count |-> 0]>>

-----------------------------------------------------------------------------
Illegal(why) ==
  /\ result' = why
  /\ UNCHANGED <<text, pass, p, iFirst, bIsLast, iCount, iList, seen>>

\* No number where one is due.
RejectValue ==
  /\ More /\ pass = 1 /\ Here.val = NoNumber
  /\ Illegal("illegalValue")

\* A second ':' in a row, or a character that is no delimiter.
IsIllegal_AnyColon == Here.sep = "other"
IsIllegal == Here.sep = "other" \/ (Here.sep = ":" /\ bIsLast)

RejectDelimiter ==
  /\ More /\ pass = 1 /\ Here.val # NoNumber /\ IsIllegal
  /\ Illegal("illegalDelimiter")

\* How many integers an item adds to the list.
Added == IF Here.sep = ":" THEN 0 ELSE IF bIsLast THEN RangeLength(iFirst, Number) ELSE 1

\* The first pass moves on, knowing this much before the next item.
Known == [first |-> iFirst', open |-> bIsLast', count |-> seen[p].count + Added]

Advance_Twice ==
  /\ p' = p + 2
  /\ seen' = Append(seen, Known)
  /\ UNCHANGED <<text, pass, iList, result>>

Advance ==
  /\ p' = p + 1
  /\ seen' = Append(seen, Known)
  /\ UNCHANGED <<text, pass, iList, result>>

CountFirst ==
  /\ More /\ pass = 1 /\ Here.val # NoNumber
  /\ Here.sep = ":" /\ ~IsIllegal
  /\ iFirst' = Number /\ bIsLast' = TRUE
  /\ UNCHANGED iCount
  /\ Advance

CountLast ==
  /\ More /\ pass = 1 /\ Here.val # NoNumber
  /\ Here.sep \in {",", "end"} /\ bIsLast
  /\ iCount' = Cast(iCount + Cast(RangeLength(iFirst, Number)))
  /\ iFirst' = Smaller(iFirst, Number) /\ bIsLast' = FALSE
  /\ Advance

CountOne ==
  /\ More /\ pass = 1 /\ Here.val # NoNumber
  /\ Here.sep \in {",", "end"} /\ ~bIsLast
  /\ iCount' = Cast(iCount + 1)
  /\ UNCHANGED <<iFirst, bIsLast>>
  /\ Advance

-----------------------------------------------------------------------------
(***************************************************************************)
(* Between the passes: the block is allocated.  iFirst and bIsLast keep    *)
(* what the first pass left in them.  A count of 0, or one that wrapped to *)
(* a negative number, is returned with an empty list.                      *)
(***************************************************************************)
Allocate ==
  /\ result = "running" /\ pass = 1 /\ p > Len(text)
  /\ \/ /\ iCount > 0
        /\ pass' = 2 /\ p' = 1
        /\ UNCHANGED result
     \/ /\ iCount > 0
        /\ result' = "noMemory"
        /\ UNCHANGED <<pass, p>>
     \/ /\ iCount <= 0
        /\ result' = "list"
        /\ UNCHANGED <<pass, p>>
  /\ UNCHANGED <<text, iFirst, bIsLast, iCount, iList, seen>>

-----------------------------------------------------------------------------
\* The second pass, which takes the text for verified.
Move ==
  /\ p' = p + 1
  /\ UNCHANGED <<text, pass, iCount, result, seen>>

AssignFirst ==
  /\ More /\ pass = 2 /\ Here.sep = ":"
  /\ iFirst' = Number /\ bIsLast' = TRUE
  /\ UNCHANGED iList
  /\ Move

AssignLast_Unsorted ==
  /\ More /\ pass = 2 /\ Here.sep \in {",", "end"} /\ bIsLast
  /\ Larger(iFirst, Number) < IntMax
  /\ iList' = iList \o [n \in 1..(Number - iFirst + 1) |-> iFirst + n - 1]
  /\ iFirst' = Smaller(iFirst, Number) /\ bIsLast' = FALSE
  /\ Move

AssignLast ==
  /\ More /\ pass = 2 /\ Here.sep \in {",", "end"} /\ bIsLast
  /\ Larger(iFirst, Number) < IntMax
  /\ iList' = iList \o Interval(iFirst, Number)
  /\ iFirst' = Smaller(iFirst, Number) /\ bIsLast' = FALSE
  /\ Move

\* for (i = iFirst; i <= INT_MAX; i++): what it does then is undefined.
AssignForever ==
  /\ More /\ pass = 2 /\ Here.sep \in {",", "end"} /\ bIsLast
  /\ Larger(iFirst, Number) >= IntMax
  /\ result' = "runaway"
  /\ UNCHANGED <<text, pass, p, iFirst, bIsLast, iCount, iList, seen>>

AssignOne ==
  /\ More /\ pass = 2 /\ Here.sep \in {",", "end"} /\ ~bIsLast
  /\ iList' = Append(iList, Number)
  /\ UNCHANGED <<iFirst, bIsLast>>
  /\ Move

Return ==
  /\ result = "running" /\ pass = 2 /\ p > Len(text)
  /\ result' = "list"
  /\ UNCHANGED <<text, pass, p, iFirst, bIsLast, iCount, iList, seen>>

Next ==
  \/ RejectValue \/ RejectDelimiter \/ CountFirst \/ CountLast \/ CountOne
  \/ Allocate
  \/ AssignFirst \/ AssignLast \/ AssignForever \/ AssignOne \/ Return

Spec == Init /\ [][Next]_vars

-----------------------------------------------------------------------------
\* Every variable stays in its range, and no pass leaves the text.
TypeOK ==
  /\ text \in Texts
  /\ pass \in {1, 2} /\ p \in 1..(Len(text) + 1)
  /\ iFirst \in Int /\ bIsLast \in BOOLEAN /\ iCount \in Int
  /\ iList \in Seq(Int)
  /\ result \in {"running", "list", "illegalValue", "illegalDelimiter", "noMemory", "runaway"}
  /\ seen \in Seq([first : Int, open : BOOLEAN, count : Nat])

\* The last range of the text has its end.
Closed == text = <<>> \/ text[Len(text)].sep # ":"

\* The integers the text stands for can be counted by an int, and no range of it
\* goes up to INT_MAX.
Countable == seen[Len(seen)].count <= IntMax
Bounded ==
  \A n \in 1..Len(text) :
    text[n].sep = ":" \/ (n > 1 /\ text[n - 1].sep = ":") => Cast(text[n].val) < IntMax

\* With every range closed and as many integers as an int can count, the second pass
\* never writes past the cells the first one counted, and returns with all of them
\* filled; and only a range up to INT_MAX makes it run away (utils.c:64-165).
PassesAgree ==
  Closed /\ Countable =>
    /\ pass = 2 => Len(iList) <= iCount
    /\ result = "list" => Len(iList) = iCount
    /\ result = "runaway" => ~Bounded

\* A list comes from a text in which every item is a number followed by a
\* delimiter and no two ':' in a row, and only such a text gives one.
Legal ==
  \A n \in 1..Len(text) :
    /\ text[n].val # NoNumber /\ text[n].sep # "other"
    /\ text[n].sep = ":" /\ n > 1 => text[n - 1].sep # ":"

OnlyLegalTexts ==
  /\ result = "list" => Legal
  /\ result \in {"illegalValue", "illegalDelimiter"} => ~Legal

\* The integers of a set, upwards.
Upwards(S) ==
  [n \in 1..Cardinality(S) |-> CHOOSE v \in S : Cardinality({w \in S : w <= v}) = n]

\* What the item n of a closed, legal text adds to the list: nothing when it
\* opens a range, the range when it closes one, itself otherwise.
Part(t, n) ==
  CASE t[n].sep = ":" -> <<>>
    [] t[n].sep # ":" /\ n > 1 /\ t[n - 1].sep = ":" ->
         Upwards({v \in Ints : \/ t[n - 1].val <= v /\ v <= t[n].val
                               \/ t[n].val <= v /\ v <= t[n - 1].val})
    [] OTHER -> <<t[n].val>>

\* The list a text stands for, item after item.
Expansion(t) ==
  LET E[n \in 0..Len(t)] == IF n = 0 THEN <<>> ELSE E[n - 1] \o Part(t, n)
  IN  E[Len(t)]

\* No number of the text is cut.
AllInts == \A n \in 1..Len(text) : text[n].val \in Ints

\* The list is the one the man page describes: 36:40 stands for 36 to 40, a
\* range given backwards for the same integers upwards, in the order of the text;
\* as long as its numbers are ints, and can be counted by one.
ListIsTheExpansion ==
  result = "list" /\ Closed /\ Countable /\ AllInts => iList = Expansion(text)

\* The comment over the first pass, "Count and verify the integer list": a list
\* that is returned has as many integers as were counted, whatever its text.
CountedIsAssigned == result = "list" => Len(iList) = iCount
=============================================================================
