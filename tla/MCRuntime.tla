----------------------------- MODULE MCRuntime -----------------------------
(***************************************************************************)
(* MbPollRuntime for TLC: a frame holds four registers, so that two        *)
(* 32-bit values fill one and three are too many.                          *)
(***************************************************************************)
EXTENDS MbPollRuntime

MCCounts == {1, 2, 3}
MCReferences == {1}
=============================================================================
