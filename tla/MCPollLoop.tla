---------------------------- MODULE MCPollLoop ----------------------------
(***************************************************************************)
(* PollLoop for TLC.  One request carries 4 registers or 5 bits, so that   *)
(* a list of one apart and five contiguous references takes two requests   *)
(* for bits and three for registers, and one carries two values of two     *)
(* registers.                                                              *)
(***************************************************************************)
EXTENDS PollLoop

Context(f, wide, slaves, refs, count, pdu, polling) ==
  [ eFunction |-> f, bWide |-> wide, piSlaveAddr |-> slaves, piStartRef |-> refs,
    iCount |-> count, iPduOffset |-> pdu, bIsPolling |-> polling,
    bIsWrite |-> FALSE, bIsReportSlaveID |-> FALSE ]

\* References: one apart from five contiguous, which is more than a request carries;
\* descending and repeated; two registers apart; one; none.
RefLists == { <<8, 1, 2, 3, 4, 5>>, <<2, 1, 1>>, <<1, 3, 5>>, <<8>>, <<>> }

ReadContexts ==
  { c \in { Context(f, wide, slaves, refs, count, 1, polling) :
              f \in {"coil", "holdingReg"}, wide \in BOOLEAN,
              slaves \in {<<>>, <<2, 1>>}, refs \in RefLists,
              count \in 1..3, polling \in BOOLEAN } :
      ValidContext(c) }
  \cup { Context("inputReg", FALSE, <<0>>, <<0, 1, 3>>, 1, 0, TRUE) }

WriteContexts ==
  { [Context(f, FALSE, <<1>>, <<2>>, count, 1, FALSE) EXCEPT !.bIsWrite = TRUE] :
      f \in {"coil", "holdingReg"}, count \in {1, 4} }

ReportContexts ==
  { [Context("holdingReg", FALSE, <<1>>, refs, 1, 1, TRUE) EXCEPT
       !.bIsReportSlaveID = TRUE, !.bIsWrite = write] :
      refs \in {<<1>>, <<>>}, write \in BOOLEAN }

UnpolledContexts == WriteContexts \cup ReportContexts

AllContexts == ReadContexts \cup UnpolledContexts
=============================================================================
