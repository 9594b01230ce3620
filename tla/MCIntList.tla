----------------------------- MODULE MCIntList -----------------------------
(***************************************************************************)
(* IntList for TLC: every text of up to three items over a few values.     *)
(***************************************************************************)
EXTENDS IntList

\* With ints from -8 to 7, 17 is cut to 1, and -8:3 has more integers than an int counts.
MCValues == {-8, -2, 3, 7, 17}

SomeItems == [val : MCValues, sep : {",", ":"}]
                \cup {[val |-> 3, sep |-> "other"], [val |-> NoNumber, sep |-> ","]}

LastItems == SomeItems \cup [val : MCValues, sep : {"end"}]

MCTexts ==
  {<<>>} \cup { Append(t, last) : t \in UNION {[1..n -> SomeItems] : n \in 0..2}, last \in LastItems }

=============================================================================
