--------------------------- MODULE MbPollRuntime ---------------------------
(***************************************************************************)
(* The calls of src/mbpoll-runtime.c on one xMbPollContext and one         *)
(* xMbPollReadResult, made by any caller in any order: the connection, the *)
(* block of values to write, the rows of a read, the three counters.       *)
(*                                                                         *)
(* libmodbus and the allocator are external: a call of theirs succeeds or  *)
(* fails, and a read of more than a frame holds always fails.  What is     *)
(* allocated and freed within one call (the buffer of a read) is left out. *)
(*                                                                         *)
(* A definition named X_Y is X with the mistake Y in it: no action uses it,*)
(* and a property of a run is shown to fail when it takes X's place.       *)
(*                                                                         *)
(* What a caller owes: the parameters are set before anything is allocated *)
(* or opened, and coils and discrete inputs are binary (applyUiToContext   *)
(* and parse_args both see to it): iMbPollDataSize takes a bit for one     *)
(* byte, whatever the format, and iMbPollRegisterCount doubles it for int. *)
(***************************************************************************)
EXTENDS MbPollContext

CONSTANTS
  Counts,     \* the numbers of values a caller asks for
  References, \* the references it starts from
  Lines,      \* the serial settings; "default" is what the library starts with
  MaxCalls    \* bound: requests a context carries

ASSUME RuntimeAssumption ==
  /\ Counts \subseteq Nat \ {0} /\ References \subseteq 0..MaxRef /\ MaxCalls \in Nat
  /\ "default" \in Lines

VARIABLES
  param,    \* the parameters of the context
  xBus,     \* ctx->xBus: "null" or "open"
  target,   \* the device the open connection leads to
  pvData,   \* bytes of the block ctx->pvData points to, 0 when it is NULL
  filled,   \* the indexes iMbPollSetWriteValueString has filled in it
  rows,     \* xResult: reference of the first row, step between rows, their number
  tx, rx, err, \* ctx->iTxCount, ctx->iRxCount, ctx->iErrorCount
  ret,      \* what the last call returned
  \* What is behind the pointers, and on the wire.
  buses,    \* libmodbus contexts that exist
  blocks,   \* heap blocks that exist
  request,  \* the last request: function, units it moves, bytes of their block
  asked     \* the references the rows should be of

runtimeVars == <<param, xBus, target, pvData, filled, rows, tx, rx, err, ret,
                 buses, blocks, request, asked>>

bus  == <<xBus, target, buses>>
data == <<pvData, filled>>
counts == <<tx, rx, err>>
wire == <<request, asked>>

NoRows == [first |-> 0, step |-> 1, count |-> 0]
NoRequest == [eFunction |-> "coil", units |-> 0, room |-> 0]

Parameters ==
  { q \in [ eFunction : Functions, bWide : BOOLEAN, iCount : Counts,
            sDevice : {"missing", "given", "dangling"}, xRtu : Lines ] :
      UsesBinary(q.eFunction) => ~q.bWide }

\* vMbPollContextInit: one holding register in decimal, and no device.
Defaults ==
  [ eFunction |-> "holdingReg", bWide |-> FALSE, iCount |-> 1, sDevice |-> "missing",
    xRtu |-> "default" ]

RuntimeInit ==
  /\ param = Defaults
  /\ xBus = "null" /\ target = "none"
  /\ pvData = 0 /\ filled = {}
  /\ rows = NoRows
  /\ tx = 0 /\ rx = 0 /\ err = 0 /\ ret = "ok"
  /\ buses = 0 /\ blocks = 0
  /\ request = NoRequest /\ asked = {}

-----------------------------------------------------------------------------
\* iMbPollDataSize, in bytes.
DataSize_Narrow(q) == q.iCount * (IF UsesBinary(q.eFunction) THEN 1 ELSE 2)
DataSize(q) ==
  q.iCount * (IF UsesBinary(q.eFunction) THEN 1 ELSE IF q.bWide THEN 4 ELSE 2)

\* Bytes libmodbus moves for one unit: a byte for a bit, two for a register.
UnitBytes(f) == IF UsesBinary(f) THEN 1 ELSE 2

\* vMbPollContextInit, which forgets the connection and the block, then the
\* parameters the caller fills in.
NewContext(q) ==
  /\ param' = q
  /\ xBus' = "null" /\ target' = "none"
  /\ pvData' = 0 /\ filled' = {}
  /\ tx' = 0 /\ rx' = 0 /\ err' = 0
  /\ ret' = "ok" /\ request' = NoRequest
  /\ UNCHANGED <<rows, buses, blocks, asked>>

\* The caller reuses the memory ctx->sDevice points to.
DeviceTextGone ==
  /\ param.sDevice = "given"
  /\ param' = [param EXCEPT !.sDevice = "dangling"]
  /\ UNCHANGED <<bus, data, rows, counts, ret, blocks, wire>>

-----------------------------------------------------------------------------
\* vMbPollClose, as a step within a call and as a call.
Closed(n) == IF xBus = "open" THEN n - 1 ELSE n

Close ==
  /\ xBus' = "null" /\ target' = "none" /\ buses' = Closed(buses)
  /\ UNCHANGED <<param, data, rows, counts, ret, blocks, wire>>

Open_OverTheOldOne ==
  /\ \/ /\ param.sDevice # "missing"
        /\ xBus' = "open" /\ target' = "shown" /\ buses' = buses + 1
        /\ ret' = "ok"
     \/ /\ ret' = "error"
        /\ UNCHANGED bus
  /\ UNCHANGED <<param, data, rows, counts, blocks, wire>>

(***************************************************************************)
(* iMbPollOpen.  Without a device it gives up before it closes anything.   *)
(* Otherwise the connection there was is closed, and every failure on the  *)
(* way (no context, quirks refused, no connection) leaves none.  A device  *)
(* name whose memory is gone reads as any name.                            *)
(***************************************************************************)
Open ==
  /\ \/ /\ param.sDevice \in {"missing", "dangling"}
        /\ ret' = "error"
        /\ UNCHANGED bus
     \/ /\ param.sDevice # "missing"
        /\ xBus' = "open" /\ buses' = Closed(buses) + 1
        /\ target' \in IF param.sDevice = "given" THEN {"shown"} ELSE {"shown", "other"}
        /\ ret' = "ok"
     \/ /\ param.sDevice # "missing"
        /\ xBus' = "null" /\ target' = "none" /\ buses' = Closed(buses)
        /\ ret' = "error"
  /\ UNCHANGED <<param, data, rows, counts, blocks, wire>>

-----------------------------------------------------------------------------
\* vMbPollFreeData, as a step within a call and as a call.
Freed_Always(n) == n - 1
Freed(n) == IF pvData # 0 THEN n - 1 ELSE n

FreeData ==
  /\ pvData' = 0 /\ filled' = {} /\ blocks' = Freed(blocks)
  /\ UNCHANGED <<param, bus, rows, counts, ret, wire>>

\* iMbPollAllocateData frees the block there was.
AllocateData ==
  /\ filled' = {}
  /\ \/ pvData' = DataSize(param) /\ blocks' = Freed(blocks) + 1 /\ ret' = "ok"
     \/ pvData' = 0 /\ blocks' = Freed(blocks) /\ ret' = "error"
  /\ UNCHANGED <<param, bus, rows, counts, wire>>

SetWriteValueString_AnyIndex(index) ==
  /\ \/ /\ pvData # 0 /\ ~IsReadOnly(param.eFunction)
        /\ filled' = filled \cup {index} /\ ret' = "ok"
     \/ UNCHANGED filled /\ ret' = "error"
  /\ UNCHANGED <<param, bus, pvData, rows, counts, blocks, wire>>

\* iMbPollSetWriteValueString: the text is a number in range, or it is refused.
SetWriteValueString(index) ==
  /\ \/ /\ pvData # 0 /\ index \in 0..(param.iCount - 1) /\ ~IsReadOnly(param.eFunction)
        /\ filled' = filled \cup {index} /\ ret' = "ok"
     \/ UNCHANGED filled /\ ret' = "error"
  /\ UNCHANGED <<param, bus, pvData, rows, counts, blocks, wire>>

-----------------------------------------------------------------------------
\* vMbPollReadResultFree, as a step within a call and as a call.
RowsFreed(n) == IF rows # NoRows THEN n - 1 ELSE n

ReadResultFree ==
  /\ rows' = NoRows /\ blocks' = RowsFreed(blocks) /\ asked' = {}
  /\ UNCHANGED <<param, bus, data, counts, ret, request>>

\* What iMbPollReadOnce asks for, and the block it is put in.
ReadRequest ==
  [eFunction |-> param.eFunction, units |-> RegisterCount(param), room |-> DataSize(param)]

StepOfRows_One == 1
StepOfRows == Width(param)

CountTransmission == tx < MaxCalls /\ tx' = tx + 1

\* What is counted of an answer whose rows cannot be allocated: nothing, so that a
\* request that was transmitted ends as neither received nor failed.
NoMemoryForRows_Received == rx' = rx + 1 /\ UNCHANGED err
NoMemoryForRows == UNCHANGED <<rx, err>>

(***************************************************************************)
(* iMbPollReadOnce.  Without a connection it leaves the rows of an earlier *)
(* read in place; otherwise they are freed first, and new ones only come   *)
(* from a complete answer.                                                 *)
(***************************************************************************)
ReadOnce(ref) ==
  \/ /\ xBus = "null"
     /\ ret' = "error"
     /\ UNCHANGED <<param, bus, data, rows, counts, blocks, wire>>
  \/ \* No memory for the answer, or the slave is refused.
     /\ xBus = "open"
     /\ rows' = NoRows /\ blocks' = RowsFreed(blocks) /\ asked' = {}
     /\ ret' = "error"
     /\ UNCHANGED <<param, bus, data, counts, request>>
  \/ /\ xBus = "open"
     /\ CountTransmission
     /\ request' = ReadRequest
     /\ \/ /\ err' = err + 1
           /\ rows' = NoRows /\ blocks' = RowsFreed(blocks) /\ asked' = {}
           /\ ret' = "error"
           /\ UNCHANGED rx
        \/ \* Answered, but no memory for the rows.
           /\ RegisterCount(param) <= MaxUnits(param)
           /\ NoMemoryForRows
           /\ rows' = NoRows /\ blocks' = RowsFreed(blocks) /\ asked' = {}
           /\ ret' = "error"
        \/ /\ RegisterCount(param) <= MaxUnits(param)
           /\ rows' = [first |-> ref, step |-> StepOfRows, count |-> param.iCount]
           /\ asked' = ref .. (ref + RegisterCount(param) - 1)
           /\ blocks' = RowsFreed(blocks) + 1
           /\ rx' = rx + 1 /\ ret' = "ok"
           /\ UNCHANGED err
     /\ UNCHANGED <<param, bus, data>>

WriteRequest ==
  [eFunction |-> param.eFunction, units |-> RegisterCount(param), room |-> pvData]

\* iMbPollWriteOnce: an answer is the number of units that were sent, or an error.
WriteOnce ==
  \/ \* No connection, no block, a table that is read only, the slave is refused.
     /\ ret' = "error"
     /\ UNCHANGED <<param, bus, data, rows, counts, blocks, wire>>
  \/ /\ xBus = "open" /\ pvData # 0 /\ ~IsReadOnly(param.eFunction)
     /\ CountTransmission
     /\ request' = WriteRequest
     /\ \/ rx' = rx + 1 /\ ret' = "ok" /\ UNCHANGED err
        \/ err' = err + 1 /\ ret' = "error" /\ UNCHANGED rx
     /\ UNCHANGED <<param, bus, data, rows, blocks, asked>>

-----------------------------------------------------------------------------
\* The caller, who may make any call at any time, but begins a new context only
\* when the one before is closed and its block freed.
Call ==
  \/ Open \/ Close \/ AllocateData \/ FreeData \/ ReadResultFree \/ WriteOnce
  \/ DeviceTextGone
  \/ xBus = "null" /\ pvData = 0 /\ \E q \in Parameters : NewContext(q)
  \/ \E index \in {-1, 0} \cup Counts : SetWriteValueString(index)
  \/ \E ref \in References : ReadOnce(ref)

RuntimeSpec == RuntimeInit /\ [][Call]_runtimeVars

-----------------------------------------------------------------------------
ContextOK ==
  /\ param \in Parameters \cup {Defaults}
  /\ xBus \in {"null", "open"} /\ target \in {"none", "shown", "other"}
  /\ pvData \in Nat /\ filled \subseteq {-1, 0} \cup Counts
  /\ ret \in {"ok", "error"}
CountersOK ==
  /\ tx \in 0..MaxCalls /\ rx \in Nat /\ err \in Nat
AnswerOK ==
  /\ rows \in [first : Nat, step : {1, 2}, count : Nat]
  /\ asked \subseteq Nat
  /\ request \in [eFunction : Functions, units : Nat, room : Nat]

\* Every variable stays in its range.
RuntimeTypeOK ==
  ContextOK /\ CountersOK /\ AnswerOK /\ buses \in Nat /\ blocks \in Nat

\* Whatever the order of the calls and whichever of them fail, what exists is what
\* the context and the result point to: opening, allocating and reading again
\* release what was there, and a failed call leaves nothing behind.
NothingLeaks ==
  /\ buses = IF xBus = "open" THEN 1 ELSE 0
  /\ blocks = (IF pvData # 0 THEN 1 ELSE 0) + (IF rows # NoRows THEN 1 ELSE 0)

\* libmodbus never moves more bytes than the block it is given has: what
\* iMbPollRegisterCount says of a context fits what iMbPollDataSize allocates for it.
RequestsFitTheirBlocks ==
  request.units * UnitBytes(request.eFunction) <= request.room

\* A value to write lies within the block, at its index in its format.
ValuesStayInTheirBlock ==
  \A n \in filled :
    0 <= n /\ (n + 1) * Width(param) * UnitBytes(param.eFunction) <= pvData

\* The registers a row stands for.
RegistersOfRow(n) ==
  (rows.first + n * rows.step) .. (rows.first + n * rows.step + rows.step - 1)

\* The rows of a read name the registers of its answer, all of them and no other,
\* whether a value takes one register or two.
RowsCoverTheAnswer == UNION { RegistersOfRow(n) : n \in 0..(rows.count - 1) } = asked
=============================================================================
