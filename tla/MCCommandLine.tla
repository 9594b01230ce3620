--------------------------- MODULE MCCommandLine ---------------------------
(***************************************************************************)
(* CommandLine for TLC.  A byte has 4 values, a register 16, an int 256:   *)
(* registers are shown as -8..7 or 0..15, ints as -128..127.               *)
(***************************************************************************)
EXTENDS CommandLine

Flag(o) == [opt |-> o, text |-> "plain", list |-> <<>>]
Named(o, name) == [opt |-> o, text |-> name, list |-> <<>>]
Listed(o, l) == [opt |-> o, text |-> "plain", list |-> l]
Type(n, format) == [opt |-> "t", text |-> format, list |-> <<n>>]

MCOptionWords ==
  { Flag(o) : o \in {"u", "1", "0", "B", "W", "Q", "q", "i", "b"} }
  \cup { Named("b", "illegal") }
  \cup { Named("m", mode) : mode \in {"rtu", "tcp", "illegal"} }
  \cup { Listed("a", l) : l \in {<<>>, <<0>>, <<2, 1>>, <<MaxSlave + 1>>} }
  \cup { Listed("r", l) : l \in {<<>>, <<0>>, <<MaxRef>>, <<1, 3>>} }
  \cup { Named("a", "wrapped"), Named("r", "wrapped") }
  \cup { Listed("c", <<n>>) : n \in {0, 2, MaxCount + 1} }
  \cup { Type(n, "plain") : n \in {0, 1, 2, 4} }
  \cup { Type(3, "float"), Type(4, "illegal") }
  \cup { Type(4, format) : format \in {"int16", "hex", "string", "int", "float"} }
  \cup { Listed("l", <<n>>) : n \in {MinPollRate - 1, MinPollRate} }

N(n, more) == [digits |-> TRUE, num |-> n, rest |-> more]
NaN == [digits |-> FALSE, num |-> 0, rest |-> TRUE]

\* A number that every base reads alike, alone or with something after it; one of
\* base 16 and one of base 8; no number.
Decimal(n) == [ten |-> N(n, FALSE), auto |-> N(n, FALSE), real |-> N(n, FALSE)]
MCTexts ==
  { Decimal(n) : n \in {-129, -9, -8, 1, 15, 16, 127} }
  \cup { [ten |-> N(7, TRUE), auto |-> N(7, TRUE), real |-> N(7, TRUE)],
         [ten |-> N(0, TRUE), auto |-> N(12, FALSE), real |-> N(12, FALSE)],
         [ten |-> N(10, FALSE), auto |-> N(8, FALSE), real |-> N(10, FALSE)],
         [ten |-> NaN, auto |-> NaN, real |-> NaN] }
=============================================================================
