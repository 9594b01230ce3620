------------------------------- MODULE Values -------------------------------
(***************************************************************************)
(* How a value gets from the text a user types into the registers of a     *)
(* request, and from the registers of an answer to the text that is shown. *)
(* The command line (src/mbpoll.c) and the library behind the window       *)
(* (src/mbpoll-runtime.c) each read texts in their own way; the order of   *)
(* the two registers of a 32-bit value is that of src/utils.c.             *)
(*                                                                         *)
(* A register has ByteSize * ByteSize values and an int is two registers   *)
(* wide, low register first, as on a little-endian host.  A block is a     *)
(* sequence of cells: registers, or the bytes that hold bits.              *)
(*                                                                         *)
(* A text is what the C library makes of it: in base ten, in base 0 ("auto"*)
(* takes 0x10 and 010 too) and as a real number, each a record             *)
(*   digits  a number was found at its start                               *)
(*   num     that number                                                   *)
(*   rest    something follows it                                          *)
(*                                                                         *)
(* A definition named X_Y is X with the mistake Y in it, as in CommandLine.*)
(***************************************************************************)
EXTENDS MbPollContext

CONSTANT ByteSize   \* values of a byte (256)

ASSUME WidthAssumption ==
  /\ ByteSize \in Nat /\ ByteSize >= 2 /\ ByteSize % 2 = 0
  /\ 2 * (IntMax + 1) = ByteSize * ByteSize * ByteSize * ByteSize

WordSize == ByteSize * ByteSize
Words == 0..(WordSize - 1)
SignedWords == (-(WordSize \div 2))..(WordSize \div 2 - 1)
Ints == (-IntMax - 1)..IntMax

Formats == {"dec", "int16", "hex", "string", "int", "float", "bin"}
Wide(format) == format \in {"int", "float"}

-----------------------------------------------------------------------------
\* (int16_t) of a register.
Signed(w) == IF w >= WordSize \div 2 THEN w - WordSize ELSE w

\* The two registers of a 32-bit value in memory, and the value two registers make.
Pair(n) == <<n % WordSize, (n \div WordSize) % WordSize>>
Number(p) ==
  LET u == p[2] * WordSize + p[1]
  IN IF u > IntMax THEN u - WordSize * WordSize ELSE u

\* lSwapLong and fSwapFloat.
Swap(p, big) == IF big THEN <<p[2], p[1]>> ELSE p

\* The cast of a double to a float keeps the leading bits: here, all but the last.
Single(n) == n - (n % 2)

Cells_NoCast(format, n, big) ==
  CASE format = "int"   -> Swap(Pair(n), big)
    [] format = "float" -> Swap(Pair(Single(n)), big)
    [] OTHER            -> <<n>>

Cells_NoSwap(format, n, big) ==
  CASE format = "int"   -> Pair(n)
    [] format = "float" -> Swap(Pair(Single(n)), big)
    [] OTHER            -> <<n % WordSize>>

\* The cells that hold the number n.
Cells(format, n, big) ==
  CASE format = "int"   -> Swap(Pair(n), big)
    [] format = "float" -> Swap(Pair(Single(n)), big)
    [] OTHER            -> <<n % WordSize>>

\* DUINT8, DUINT16, DINT32 or DFLOAT (pvData, index) = ...
Store(block, index, cells) ==
  [ n \in DOMAIN block |->
      LET at == n - index * Len(cells)
      IN IF at \in 1..Len(cells) THEN cells[at] ELSE block[n] ]

(***************************************************************************)
(* iMbPollFormatBufferValue, and the same cases in vPrintReadValues: the   *)
(* numbers that are shown for the value at an index.  A register above the *)
(* middle is shown in decimal twice; a string is the two bytes.            *)
(***************************************************************************)
Shown(format, block, index, big) ==
  LET w == block[index + 1]
      p == <<block[2 * index + 1], block[2 * index + 2]>>
  IN CASE format = "bin"    -> <<IF w # 0 THEN 1 ELSE 0>>
       [] format = "dec"    -> IF w >= WordSize \div 2 THEN <<w, Signed(w)>> ELSE <<w>>
       [] format = "int16"  -> <<Signed(w)>>
       [] format = "hex"    -> <<w>>
       [] format = "string" -> <<w \div ByteSize, w % ByteSize>>
       [] OTHER             -> <<Number(Swap(p, big))>>

-----------------------------------------------------------------------------
\* iGetInt: whatever follows the number is ignored.
GetsInt(t) == t.digits /\ t.num \in Ints

\* dGetDouble and the range of a float.
GetsDouble(t) == t.digits /\ t.num \in Ints

(***************************************************************************)
(* parse_args: the texts it takes for a value, and the number it takes.    *)
(***************************************************************************)
CliNumber(f, format, text) ==
  CASE f = "coil" \/ format = "int"    -> text.ten
    [] f # "coil" /\ format = "float" -> text.real
    [] OTHER                           -> text.auto

CliAccepts(f, format, text) ==
  LET t == CliNumber(f, format, text)
  IN /\ ~IsReadOnly(f)
     /\ IF f # "coil" /\ format = "float" THEN GetsDouble(t) ELSE GetsInt(t)
     /\ f = "coil" => t.num \in 0..1
     /\ f # "coil" =>
          /\ format # "string"
          /\ format = "int16" => t.num \in SignedWords
          /\ format \in {"dec", "hex", "bin"} => t.num \in Words

(***************************************************************************)
(* iMbPollSetWriteValueString.  iMbPollParseInt and iMbPollParseDouble     *)
(* refuse a text that goes on after the number.                            *)
(***************************************************************************)
Parses(t) == t.digits /\ ~t.rest

LibraryAccepts_AnyBase(f, format, text) ==
  /\ ~IsReadOnly(f)
  /\ f = "coil" => Parses(text.auto) /\ text.auto.num \in 0..1
  /\ f # "coil" =>
       /\ format # "string"
       /\ format = "int"   => Parses(text.auto) /\ text.auto.num \in Ints
       /\ format = "float" => Parses(text.real) /\ text.real.num \in Ints
       /\ format = "int16" => Parses(text.auto) /\ text.auto.num \in SignedWords
       /\ format \in {"dec", "hex", "bin"} => Parses(text.auto) /\ text.auto.num \in Words

LibraryAccepts(f, format, text) ==
  /\ ~IsReadOnly(f)
  /\ f = "coil" => Parses(text.ten) /\ text.ten.num \in 0..1
  /\ f # "coil" =>
       /\ format # "string"
       /\ format = "int"   => Parses(text.ten) /\ text.ten.num \in Ints
       /\ format = "float" => Parses(text.real) /\ text.real.num \in Ints
       /\ format = "int16" => Parses(text.auto) /\ text.auto.num \in SignedWords
       /\ format \in {"dec", "hex", "bin"} => Parses(text.auto) /\ text.auto.num \in Words
=============================================================================
