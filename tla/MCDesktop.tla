----------------------------- MODULE MCDesktop -----------------------------
(***************************************************************************)
(* Desktop for TLC: a frame holds two registers, so that a 32-bit value    *)
(* fills one and a second is over WideLimit.  countSpin goes to 2, and a   *)
(* write may have more values than that.                                   *)
(***************************************************************************)
EXTENDS Desktop

MCCounts == {1, 2, 3}
MCReferences == {1}
MCWritings == {<<>>, <<TRUE>>, <<TRUE, TRUE>>, <<TRUE, FALSE, TRUE>>}
=============================================================================
