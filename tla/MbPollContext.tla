--------------------------- MODULE MbPollContext ---------------------------
(***************************************************************************)
(* The part of xMbPollContext (src/mbpoll-runtime.h) that decides what the *)
(* program asks of its devices, and what parse_args and the address checks *)
(* at the top of main let through.                                         *)
(*                                                                         *)
(* A context is a record:                                                  *)
(*   eFunction         the Modbus table                                    *)
(*   bWide             eFormat is int or float: a value takes two registers*)
(*   piSlaveAddr       the slaves polled, piStartRef the references read;  *)
(*                     iSlaveCount and iStartCount are their lengths       *)
(*   iCount            how many values are read from a reference           *)
(*   iPduOffset        1, or 0 when references are counted from 0 (-0)     *)
(*   bIsPolling, bIsWrite, bIsReportSlaveID   the three mode flags         *)
(***************************************************************************)
EXTENDS Integers, Sequences

CONSTANTS
  MaxBits,    \* bits a read request may ask for (2000)
  MaxRegs,    \* registers a read request may ask for (125)
  MaxCount,   \* NUMOFVALUES_MAX (125)
  MaxRef,     \* STARTREF_MAX (65536)
  MaxSlave,   \* SLAVEADDR_MAX (255)
  IntMax      \* INT_MAX

\* -c is bounded by the number of registers one request carries, and every
\* reference leaves room for the size of a batch below INT_MAX.
ASSUME LimitsAssumption ==
  /\ MaxBits \in Nat /\ MaxRegs \in Nat /\ MaxCount \in Nat
  /\ MaxRef \in Nat /\ MaxSlave \in Nat /\ IntMax \in Nat
  /\ 1 <= MaxCount /\ 2 <= MaxRegs
  /\ MaxCount <= MaxRegs /\ MaxRegs <= MaxBits
  /\ MaxRef + 2 * MaxCount <= IntMax

Functions == {"coil", "discreteInput", "inputReg", "holdingReg"}

UsesBinary(f) == f \in {"coil", "discreteInput"}

IsReadOnly(f) == f \in {"discreteInput", "inputReg"}

\* Registers (or bits) one value takes.
Width(c) == IF c.bWide THEN 2 ELSE 1

\* iNbReg: registers (or bits) the values at one reference take.
RegisterCount(c) == c.iCount * Width(c)

\* The most units one read request may ask for.
MaxUnits(c) == IF UsesBinary(c.eFunction) THEN MaxBits ELSE MaxRegs

Reads(c) == ~c.bIsWrite /\ ~c.bIsReportSlaveID

ContextType ==
  [ eFunction : Functions, bWide : BOOLEAN,
    piSlaveAddr : Seq(0..MaxSlave), piStartRef : Seq(0..MaxRef),
    iCount : Nat, iPduOffset : {0, 1},
    bIsPolling : BOOLEAN, bIsWrite : BOOLEAN, bIsReportSlaveID : BOOLEAN ]

\* iStartCount > 1 forces iCount to 1; a write takes one slave, one reference
\* and a table that can be written, polls never and counts its own values; coils
\* and discrete inputs are always binary; -u takes one slave.  An empty list
\* (-r "" or -a "") is accepted: only a write or a report would look into it, and
\* the summary that is printed without -q.
ValidContext(c) ==
  /\ c \in ContextType
  /\ \A n \in 1..Len(c.piStartRef) :
       c.piStartRef[n] \in c.iPduOffset .. (MaxRef - 1 + c.iPduOffset)
  /\ UsesBinary(c.eFunction) => ~c.bWide
  /\ 1 <= c.iCount
  /\ Reads(c) => c.iCount <= MaxCount
  /\ Len(c.piStartRef) > 1 => c.iCount = 1 /\ ~c.bIsWrite
  /\ c.bIsWrite /\ ~c.bIsReportSlaveID => ~c.bIsPolling /\ ~IsReadOnly(c.eFunction)
  /\ c.bIsWrite \/ c.bIsReportSlaveID => Len(c.piSlaveAddr) = 1
  /\ c.bIsWrite /\ ~c.bIsReportSlaveID => Len(c.piStartRef) > 0
=============================================================================
