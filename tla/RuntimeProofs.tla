--------------------------- MODULE RuntimeProofs ---------------------------
(***************************************************************************)
(* MbPollRuntime, for every set of counts, references and serial settings  *)
(* and every frame size: nothing leaks, no request leaves its block, every *)
(* request is settled and the rows of a read cover its answer, in whatever *)
(* order the calls are made.                                               *)
(***************************************************************************)
EXTENDS MbPollRuntime, TLAPS

\* The block is the one the parameters call for, and what was filled is in it.
Block ==
  /\ pvData # 0 => pvData = DataSize(param)
  /\ pvData = 0 => filled = {}
  /\ filled \subseteq 0..(param.iCount - 1)

IInv ==
  /\ RuntimeTypeOK /\ Block
  /\ NothingLeaks /\ RequestsFitTheirBlocks /\ RowsCoverTheAnswer

-----------------------------------------------------------------------------
\* Sizes: what a request moves is what its block has.
LEMMA SizeFacts ==
  ASSUME NEW q \in Parameters \cup {Defaults}
  PROVE  /\ q.iCount \in Nat /\ q.iCount >= 1
         /\ q.eFunction \in Functions
         /\ Width(q) \in {1, 2} /\ UnitBytes(q.eFunction) \in {1, 2}
         /\ RegisterCount(q) \in Nat /\ RegisterCount(q) = q.iCount * Width(q)
         /\ DataSize(q) \in Nat /\ DataSize(q) >= 1
         /\ DataSize(q) = RegisterCount(q) * UnitBytes(q.eFunction)
PROOF
<1>1. q.iCount \in Nat /\ q.iCount >= 1
  <2>1. CASE q \in Parameters
    <3>1. q.iCount \in Counts
      BY <2>1 DEF Parameters
    <3>2. q.iCount \in Nat \ {0}
      BY <3>1, RuntimeAssumption, Zenon
    <3> QED
      BY <3>2
  <2>2. CASE q = Defaults
    BY <2>2 DEF Defaults
  <2> QED
    BY <2>1, <2>2
<1>2. q.eFunction \in Functions /\ q.bWide \in BOOLEAN
  <2>1. CASE q \in Parameters
    BY <2>1 DEF Parameters
  <2>2. CASE q = Defaults
    BY <2>2 DEF Defaults, Functions
  <2> QED
    BY <2>1, <2>2
<1>3. ~UsesBinary(q.eFunction) \/ q.bWide = FALSE
  <2>1. CASE q \in Parameters
    BY <2>1 DEF Parameters
  <2>2. CASE q = Defaults
    BY <2>2 DEF Defaults, UsesBinary
  <2> QED
    BY <2>1, <2>2
<1>4. CASE UsesBinary(q.eFunction)
  <2>1. Width(q) = 1 /\ UnitBytes(q.eFunction) = 1
    BY <1>3, <1>4 DEF Width, UnitBytes
  <2>2. DataSize(q) = q.iCount * 1
    BY <1>4 DEF DataSize
  <2> QED
    BY <1>1, <1>2, <2>1, <2>2 DEF RegisterCount
<1>5. CASE ~UsesBinary(q.eFunction) /\ q.bWide = TRUE
  <2>1. Width(q) = 2 /\ UnitBytes(q.eFunction) = 2
    BY <1>5 DEF Width, UnitBytes
  <2>2. DataSize(q) = q.iCount * 4
    BY <1>5 DEF DataSize
  <2> QED
    BY <1>1, <1>2, <2>1, <2>2 DEF RegisterCount
<1>6. CASE ~UsesBinary(q.eFunction) /\ q.bWide = FALSE
  <2>1. Width(q) = 1 /\ UnitBytes(q.eFunction) = 2
    BY <1>6 DEF Width, UnitBytes
  <2>2. DataSize(q) = q.iCount * 2
    BY <1>6 DEF DataSize
  <2> QED
    BY <1>1, <1>2, <2>1, <2>2 DEF RegisterCount
<1> QED
  BY <1>2, <1>4, <1>5, <1>6

\* Losing the device name changes no size.
LEMMA DeviceFacts ==
  ASSUME param \in Parameters \cup {Defaults}, DeviceTextGone
  PROVE  /\ param' \in Parameters
         /\ param'.iCount = param.iCount
         /\ DataSize(param') = DataSize(param)
PROOF
<1>1. param # Defaults
  BY DEF DeviceTextGone, Defaults
<1>2. param \in Parameters /\ param' = [param EXCEPT !.sDevice = "dangling"]
  BY <1>1 DEF DeviceTextGone
<1>3. /\ param' \in [ eFunction : Functions, bWide : BOOLEAN, iCount : Counts,
                      sDevice : {"missing", "given", "dangling"}, xRtu : Lines ]
      /\ param'.eFunction = param.eFunction /\ param'.bWide = param.bWide
      /\ param'.iCount = param.iCount
  BY <1>2 DEF Parameters
<1>4. UsesBinary(param'.eFunction) => ~param'.bWide
  BY <1>2, <1>3 DEF Parameters
<1>5. param' \in Parameters
  BY <1>3, <1>4 DEF Parameters
<1>6. DataSize(param') = DataSize(param)
  BY <1>3 DEF DataSize
<1> QED
  BY <1>3, <1>5, <1>6

\* A new read has rows, and they name every register of its answer.
LEMMA NewRowsFacts ==
  ASSUME param \in Parameters \cup {Defaults}, NEW ref \in Nat,
         rows' = [first |-> ref, step |-> StepOfRows, count |-> param.iCount],
         asked' = ref .. (ref + RegisterCount(param) - 1)
  PROVE  rows' # NoRows /\ RowsCoverTheAnswer'
PROOF
<1> DEFINE c == param.iCount
           s == StepOfRows
<1>1. c \in Nat /\ c >= 1 /\ s \in {1, 2} /\ RegisterCount(param) = c * s
  BY SizeFacts DEF StepOfRows
<1>2. rows'.first = ref /\ rows'.step = s /\ rows'.count = c
  OBVIOUS
<1>3. rows' # NoRows
  BY <1>1, <1>2 DEF NoRows
<1>4. asked' = ref .. (ref + c * s - 1)
  BY <1>1
<1> HIDE DEF c, s
<1> DEFINE Row(n) == (ref + n * s) .. (ref + n * s + s - 1)
<1>6. ASSUME NEW x \in asked'
      PROVE  \E n \in 0..(c - 1) : x \in Row(n)
  <2>1. x \in ref .. (ref + c * s - 1)
    BY <1>4, <1>6
  <2>2. CASE s = 1
    <3>1. x - ref \in 0..(c - 1) /\ x \in (ref + (x - ref) * s) .. (ref + (x - ref) * s + s - 1)
      BY <1>1, <2>1, <2>2
    <3> QED
      BY <3>1
  <2>3. CASE s = 2
    <3> DEFINE n == (x - ref) \div 2
    <3>1. n \in 0..(c - 1) /\ x \in (ref + n * s) .. (ref + n * s + s - 1)
      BY <1>1, <2>1, <2>3
    <3> HIDE DEF n
    <3> QED
      BY <3>1
  <2> QED
    BY <1>1, <2>2, <2>3
<1>7. ASSUME NEW n \in 0..(c - 1), NEW x \in Row(n)
      PROVE  x \in asked'
  <2>1. n \in Nat /\ x \in (ref + n * s) .. (ref + n * s + s - 1)
    BY <1>1, <1>7
  <2>2. CASE s = 1
    BY <1>1, <1>4, <1>7, <2>1, <2>2
  <2>3. CASE s = 2
    BY <1>1, <1>4, <1>7, <2>1, <2>3
  <2> QED
    BY <1>1, <2>2, <2>3
<1>8. RowsCoverTheAnswer'
  <2> HIDE DEF Row
  <2>1. asked' = UNION { Row(n) : n \in 0..(c - 1) }
    BY <1>6, <1>7
  <2> QED
    BY <1>2, <2>1 DEF Row, RowsCoverTheAnswer, RegistersOfRow
<1> QED
  BY <1>3, <1>8

\* No rows cover no answer.
LEMMA NoRowsFacts ==
  ASSUME rows' = NoRows, asked' = {}
  PROVE  RowsCoverTheAnswer'
BY DEF RowsCoverTheAnswer, NoRows

\* The calls, one by one.
LEMMA EveryCall ==
  ASSUME [Call]_runtimeVars
  PROVE  \/ Open \/ Close \/ AllocateData \/ FreeData \/ ReadResultFree \/ WriteOnce
         \/ DeviceTextGone
         \/ \E q \in Parameters : xBus = "null" /\ pvData = 0 /\ NewContext(q)
         \/ \E index \in {-1, 0} \cup Counts : SetWriteValueString(index)
         \/ \E ref \in References : ReadOnce(ref)
         \/ UNCHANGED runtimeVars
BY DEF Call

-----------------------------------------------------------------------------
LEMMA InitInvariant == RuntimeInit => IInv
PROOF
<1> SUFFICES ASSUME RuntimeInit PROVE IInv
  OBVIOUS
<1>1. RuntimeTypeOK
  <2>1. ContextOK
    BY DEF RuntimeInit, ContextOK
  <2>2. CountersOK
    BY RuntimeAssumption DEF RuntimeInit, CountersOK
  <2>3. AnswerOK
    BY DEF RuntimeInit, AnswerOK, NoRows, NoRequest, Functions
  <2> QED
    BY <2>1, <2>2, <2>3 DEF RuntimeInit, RuntimeTypeOK
<1>2. Block
  BY DEF RuntimeInit, Block
<1>3. NothingLeaks
  BY DEF RuntimeInit, NothingLeaks
<1>4. RequestsFitTheirBlocks
  BY DEF RuntimeInit, RequestsFitTheirBlocks, NoRequest, UnitBytes
<1>5. RowsCoverTheAnswer
  BY DEF RuntimeInit, RowsCoverTheAnswer, NoRows
<1> QED
  BY <1>1, <1>2, <1>3, <1>4, <1>5 DEF IInv

-----------------------------------------------------------------------------
\* What exists changes with the pointers to it.
LEMMA LeakStep == RuntimeTypeOK /\ NothingLeaks /\ [Call]_runtimeVars => NothingLeaks'
PROOF
<1> SUFFICES ASSUME RuntimeTypeOK, NothingLeaks, [Call]_runtimeVars PROVE NothingLeaks'
  OBVIOUS
<1>1. CASE Open
  BY <1>1 DEF Open, NothingLeaks, runtimeVars, bus, data, counts, wire, Closed, Freed, RowsFreed
<1>2. CASE Close
  BY <1>2 DEF Close, NothingLeaks, runtimeVars, bus, data, counts, wire, Closed, Freed, RowsFreed
<1>3. CASE AllocateData
  <2>1. DataSize(param) # 0
    BY SizeFacts DEF RuntimeTypeOK, ContextOK
  <2> QED
    BY <1>3, <2>1 DEF AllocateData, NothingLeaks, bus, Freed
<1>4. CASE FreeData
  BY <1>4 DEF FreeData, NothingLeaks, runtimeVars, bus, data, counts, wire, Closed, Freed, RowsFreed
<1>5. CASE ReadResultFree
  BY <1>5 DEF ReadResultFree, NothingLeaks, runtimeVars, bus, data, counts, wire, Closed, Freed, RowsFreed
<1>6. CASE WriteOnce
  BY <1>6 DEF WriteOnce, NothingLeaks, runtimeVars, bus, data, counts, wire, Closed, Freed, RowsFreed
<1>7. CASE DeviceTextGone
  BY <1>7 DEF DeviceTextGone, NothingLeaks, runtimeVars, bus, data, counts, wire, Closed, Freed, RowsFreed
<1>8. ASSUME NEW q \in Parameters, xBus = "null" /\ pvData = 0 /\ NewContext(q) PROVE NothingLeaks'
  BY <1>8 DEF NewContext, NothingLeaks, runtimeVars, bus, data, counts, wire, Closed, Freed, RowsFreed
<1>9. ASSUME NEW index \in {-1, 0} \cup Counts, SetWriteValueString(index) PROVE NothingLeaks'
  BY <1>9 DEF SetWriteValueString, NothingLeaks, runtimeVars, bus, data, counts, wire, Closed, Freed, RowsFreed
<1>10. ASSUME NEW ref \in References, ReadOnce(ref) PROVE NothingLeaks'
  <2>1. UNCHANGED <<xBus, buses, pvData>>
    BY <1>10 DEF ReadOnce, bus, data
  <2>2. \/ UNCHANGED <<rows, blocks>>
        \/ rows' = NoRows /\ blocks' = RowsFreed(blocks)
        \/ /\ rows' = [first |-> ref, step |-> StepOfRows, count |-> param.iCount]
           /\ blocks' = RowsFreed(blocks) + 1
    BY <1>10 DEF ReadOnce
  <2>3. [first |-> ref, step |-> StepOfRows, count |-> param.iCount] # NoRows
    BY SizeFacts DEF NoRows, RuntimeTypeOK, ContextOK
  <2> QED
    BY <2>1, <2>2, <2>3 DEF NothingLeaks, RowsFreed
<1>11. CASE UNCHANGED runtimeVars
  BY <1>11 DEF NothingLeaks, runtimeVars, bus, data, counts, wire, Closed, Freed, RowsFreed
<1> QED
  BY EveryCall, <1>1, <1>2, <1>3, <1>4, <1>5, <1>6, <1>7, <1>8, <1>9, <1>10, <1>11

\* The parameters do not change under a block, and an index is checked.
LEMMA BlockStep == RuntimeTypeOK /\ Block /\ [Call]_runtimeVars => Block'
PROOF
<1> SUFFICES ASSUME RuntimeTypeOK, Block, [Call]_runtimeVars PROVE Block'
  OBVIOUS
<1>1. CASE Open
  BY <1>1 DEF Open, Block, runtimeVars, bus, data, counts, wire
<1>2. CASE Close
  BY <1>2 DEF Close, Block, runtimeVars, bus, data, counts, wire
<1>3. CASE AllocateData
  BY <1>3 DEF AllocateData, Block, runtimeVars, bus, data, counts, wire
<1>4. CASE FreeData
  BY <1>4 DEF FreeData, Block, runtimeVars, bus, data, counts, wire
<1>5. CASE ReadResultFree
  BY <1>5 DEF ReadResultFree, Block, runtimeVars, bus, data, counts, wire
<1>6. CASE WriteOnce
  BY <1>6 DEF WriteOnce, Block, runtimeVars, bus, data, counts, wire
<1>7. CASE DeviceTextGone
  <2>1. param'.iCount = param.iCount /\ DataSize(param') = DataSize(param)
    BY <1>7, DeviceFacts DEF RuntimeTypeOK, ContextOK
  <2>2. UNCHANGED <<pvData, filled>>
    BY <1>7 DEF DeviceTextGone, data
  <2> QED
    BY <2>1, <2>2 DEF Block
<1>8. ASSUME NEW q \in Parameters, xBus = "null" /\ pvData = 0 /\ NewContext(q) PROVE Block'
  BY <1>8 DEF NewContext, Block, runtimeVars, bus, data, counts, wire
<1>9. ASSUME NEW index \in {-1, 0} \cup Counts, SetWriteValueString(index) PROVE Block'
  BY <1>9 DEF SetWriteValueString, Block, runtimeVars, bus, data, counts, wire
<1>10. ASSUME NEW ref \in References, ReadOnce(ref) PROVE Block'
  BY <1>10 DEF ReadOnce, Block, runtimeVars, bus, data, counts, wire
<1>11. CASE UNCHANGED runtimeVars
  BY <1>11 DEF Block, runtimeVars, bus, data, counts, wire
<1> QED
  BY EveryCall, <1>1, <1>2, <1>3, <1>4, <1>5, <1>6, <1>7, <1>8, <1>9, <1>10, <1>11

\* A request is as large as the parameters say, and so is its block.
LEMMA FitStep == RuntimeTypeOK /\ Block /\ RequestsFitTheirBlocks /\ [Call]_runtimeVars => RequestsFitTheirBlocks'
PROOF
<1> SUFFICES ASSUME RuntimeTypeOK, Block, RequestsFitTheirBlocks, [Call]_runtimeVars PROVE RequestsFitTheirBlocks'
  OBVIOUS
<1>1. CASE Open
  BY <1>1 DEF Open, RequestsFitTheirBlocks, runtimeVars, bus, data, counts, wire
<1>2. CASE Close
  BY <1>2 DEF Close, RequestsFitTheirBlocks, runtimeVars, bus, data, counts, wire
<1>3. CASE AllocateData
  BY <1>3 DEF AllocateData, RequestsFitTheirBlocks, runtimeVars, bus, data, counts, wire
<1>4. CASE FreeData
  BY <1>4 DEF FreeData, RequestsFitTheirBlocks, runtimeVars, bus, data, counts, wire
<1>5. CASE ReadResultFree
  BY <1>5 DEF ReadResultFree, RequestsFitTheirBlocks, runtimeVars, bus, data, counts, wire
<1>6. CASE WriteOnce
  <2>1. CASE UNCHANGED request
    BY <2>1 DEF RequestsFitTheirBlocks

  <2>2. CASE pvData # 0 /\ request' = WriteRequest
    <3>1. request'.units = RegisterCount(param) /\ request'.room = DataSize(param)
          /\ request'.eFunction = param.eFunction
      BY <2>2 DEF WriteRequest, Block
    <3> QED
      BY <3>1, SizeFacts DEF RequestsFitTheirBlocks, RuntimeTypeOK, ContextOK
  <2> QED
    BY <1>6, <2>1, <2>2 DEF WriteOnce, wire
<1>7. CASE DeviceTextGone
  BY <1>7 DEF DeviceTextGone, RequestsFitTheirBlocks, runtimeVars, bus, data, counts, wire
<1>8. ASSUME NEW q \in Parameters, xBus = "null" /\ pvData = 0 /\ NewContext(q) PROVE RequestsFitTheirBlocks'
  <2>1. request' = NoRequest
    BY <1>8 DEF NewContext
  <2> QED
    BY <2>1 DEF NoRequest, RequestsFitTheirBlocks, UnitBytes
<1>9. ASSUME NEW index \in {-1, 0} \cup Counts, SetWriteValueString(index) PROVE RequestsFitTheirBlocks'
  BY <1>9 DEF SetWriteValueString, RequestsFitTheirBlocks, runtimeVars, bus, data, counts, wire
<1>10. ASSUME NEW ref \in References, ReadOnce(ref) PROVE RequestsFitTheirBlocks'
  <2>1. CASE UNCHANGED request
    BY <2>1 DEF RequestsFitTheirBlocks

  <2>2. CASE request' = ReadRequest
    <3>1. request'.units = RegisterCount(param) /\ request'.room = DataSize(param)
          /\ request'.eFunction = param.eFunction
      BY <2>2 DEF ReadRequest
    <3> QED
      BY <3>1, SizeFacts DEF RequestsFitTheirBlocks, RuntimeTypeOK, ContextOK
  <2> QED
    BY <1>10, <2>1, <2>2 DEF ReadOnce, wire
<1>11. CASE UNCHANGED runtimeVars
  BY <1>11 DEF RequestsFitTheirBlocks, runtimeVars, bus, data, counts, wire
<1> QED
  BY EveryCall, <1>1, <1>2, <1>3, <1>4, <1>5, <1>6, <1>7, <1>8, <1>9, <1>10, <1>11

\* Rows and answer change together.
LEMMA RowsStep == RuntimeTypeOK /\ RowsCoverTheAnswer /\ [Call]_runtimeVars => RowsCoverTheAnswer'
PROOF
<1> SUFFICES ASSUME RuntimeTypeOK, RowsCoverTheAnswer, [Call]_runtimeVars PROVE RowsCoverTheAnswer'
  OBVIOUS
<1>1. CASE Open
  BY <1>1 DEF Open, RowsCoverTheAnswer, RegistersOfRow, runtimeVars, bus, data, counts, wire
<1>2. CASE Close
  BY <1>2 DEF Close, RowsCoverTheAnswer, RegistersOfRow, runtimeVars, bus, data, counts, wire
<1>3. CASE AllocateData
  BY <1>3 DEF AllocateData, RowsCoverTheAnswer, RegistersOfRow, runtimeVars, bus, data, counts, wire
<1>4. CASE FreeData
  BY <1>4 DEF FreeData, RowsCoverTheAnswer, RegistersOfRow, runtimeVars, bus, data, counts, wire
<1>5. CASE ReadResultFree
  BY <1>5, NoRowsFacts DEF ReadResultFree
<1>6. CASE WriteOnce
  BY <1>6 DEF WriteOnce, RowsCoverTheAnswer, RegistersOfRow, runtimeVars, bus, data, counts, wire
<1>7. CASE DeviceTextGone
  BY <1>7 DEF DeviceTextGone, RowsCoverTheAnswer, RegistersOfRow, runtimeVars, bus, data, counts, wire
<1>8. ASSUME NEW q \in Parameters, xBus = "null" /\ pvData = 0 /\ NewContext(q) PROVE RowsCoverTheAnswer'
  BY <1>8 DEF NewContext, RowsCoverTheAnswer, RegistersOfRow, runtimeVars, bus, data, counts, wire
<1>9. ASSUME NEW index \in {-1, 0} \cup Counts, SetWriteValueString(index) PROVE RowsCoverTheAnswer'
  BY <1>9 DEF SetWriteValueString, RowsCoverTheAnswer, RegistersOfRow, runtimeVars, bus, data, counts, wire
<1>10. ASSUME NEW ref \in References, ReadOnce(ref) PROVE RowsCoverTheAnswer'
  <2>1. CASE UNCHANGED <<rows, asked>>
    BY <2>1 DEF RowsCoverTheAnswer, RegistersOfRow
  <2>2. CASE rows' = NoRows /\ asked' = {}
    BY <2>2, NoRowsFacts

  <2>3. CASE /\ rows' = [first |-> ref, step |-> StepOfRows, count |-> param.iCount]
             /\ asked' = ref .. (ref + RegisterCount(param) - 1)
    BY <2>3, NewRowsFacts, RuntimeAssumption DEF RuntimeTypeOK, ContextOK
  <2> QED
    BY <1>10, <2>1, <2>2, <2>3 DEF ReadOnce, wire
<1>11. CASE UNCHANGED runtimeVars
  BY <1>11 DEF RowsCoverTheAnswer, RegistersOfRow, runtimeVars, bus, data, counts, wire
<1> QED
  BY EveryCall, <1>1, <1>2, <1>3, <1>4, <1>5, <1>6, <1>7, <1>8, <1>9, <1>10, <1>11

\* The context.
LEMMA ContextStep == RuntimeTypeOK /\ [Call]_runtimeVars => ContextOK'
PROOF
<1> SUFFICES ASSUME RuntimeTypeOK, [Call]_runtimeVars PROVE ContextOK'
  OBVIOUS
<1>1. CASE Open
  BY <1>1 DEF Open, RuntimeTypeOK, ContextOK, runtimeVars, bus, data, counts, wire
<1>2. CASE Close
  BY <1>2 DEF Close, RuntimeTypeOK, ContextOK, runtimeVars, bus, data, counts, wire
<1>3. CASE AllocateData
  <2>1. DataSize(param) \in Nat
    BY SizeFacts DEF RuntimeTypeOK, ContextOK
  <2> QED
    BY <1>3, <2>1 DEF AllocateData, RuntimeTypeOK, ContextOK, bus
<1>4. CASE FreeData
  BY <1>4 DEF FreeData, RuntimeTypeOK, ContextOK, runtimeVars, bus, data, counts, wire
<1>5. CASE ReadResultFree
  BY <1>5 DEF ReadResultFree, RuntimeTypeOK, ContextOK, runtimeVars, bus, data, counts, wire
<1>6. CASE WriteOnce
  BY <1>6 DEF WriteOnce, RuntimeTypeOK, ContextOK, runtimeVars, bus, data, counts, wire
<1>7. CASE DeviceTextGone
  <2>1. param' \in Parameters
    BY <1>7, DeviceFacts DEF RuntimeTypeOK, ContextOK
  <2> QED
    BY <1>7, <2>1 DEF DeviceTextGone, RuntimeTypeOK, ContextOK, bus, data
<1>8. ASSUME NEW q \in Parameters, xBus = "null" /\ pvData = 0 /\ NewContext(q) PROVE ContextOK'
  BY <1>8 DEF NewContext, RuntimeTypeOK, ContextOK, runtimeVars, bus, data, counts, wire
<1>9. ASSUME NEW index \in {-1, 0} \cup Counts, SetWriteValueString(index) PROVE ContextOK'
  BY <1>9 DEF SetWriteValueString, RuntimeTypeOK, ContextOK, runtimeVars, bus, data, counts, wire
<1>10. ASSUME NEW ref \in References, ReadOnce(ref) PROVE ContextOK'
  BY <1>10 DEF ReadOnce, RuntimeTypeOK, ContextOK, runtimeVars, bus, data, counts, wire
<1>11. CASE UNCHANGED runtimeVars
  BY <1>11 DEF RuntimeTypeOK, ContextOK, runtimeVars, bus, data, counts, wire
<1> QED
  BY EveryCall, <1>1, <1>2, <1>3, <1>4, <1>5, <1>6, <1>7, <1>8, <1>9, <1>10, <1>11

\* The counters.
LEMMA CountersStep == RuntimeTypeOK /\ [Call]_runtimeVars => CountersOK'
PROOF
<1> SUFFICES ASSUME RuntimeTypeOK, [Call]_runtimeVars PROVE CountersOK'
  OBVIOUS
<1>1. CASE Open
  BY <1>1 DEF Open, RuntimeTypeOK, CountersOK, CountTransmission, runtimeVars, bus, data, counts, wire
<1>2. CASE Close
  BY <1>2 DEF Close, RuntimeTypeOK, CountersOK, CountTransmission, runtimeVars, bus, data, counts, wire
<1>3. CASE AllocateData
  BY <1>3 DEF AllocateData, RuntimeTypeOK, CountersOK, CountTransmission, runtimeVars, bus, data, counts, wire
<1>4. CASE FreeData
  BY <1>4 DEF FreeData, RuntimeTypeOK, CountersOK, CountTransmission, runtimeVars, bus, data, counts, wire
<1>5. CASE ReadResultFree
  BY <1>5 DEF ReadResultFree, RuntimeTypeOK, CountersOK, CountTransmission, runtimeVars, bus, data, counts, wire
<1>6. CASE WriteOnce
  BY <1>6, RuntimeAssumption DEF WriteOnce, RuntimeTypeOK, CountersOK, CountTransmission, runtimeVars, bus, data, counts, wire
<1>7. CASE DeviceTextGone
  BY <1>7 DEF DeviceTextGone, RuntimeTypeOK, CountersOK, CountTransmission, runtimeVars, bus, data, counts, wire
<1>8. ASSUME NEW q \in Parameters, xBus = "null" /\ pvData = 0 /\ NewContext(q) PROVE CountersOK'
  BY <1>8, RuntimeAssumption DEF NewContext, RuntimeTypeOK, CountersOK, CountTransmission, runtimeVars, bus, data, counts, wire
<1>9. ASSUME NEW index \in {-1, 0} \cup Counts, SetWriteValueString(index) PROVE CountersOK'
  BY <1>9 DEF SetWriteValueString, RuntimeTypeOK, CountersOK, CountTransmission, runtimeVars, bus, data, counts, wire
<1>10. ASSUME NEW ref \in References, ReadOnce(ref) PROVE CountersOK'
  BY <1>10, RuntimeAssumption DEF ReadOnce, NoMemoryForRows, RuntimeTypeOK, CountersOK, CountTransmission, runtimeVars, bus, data, counts, wire
<1>11. CASE UNCHANGED runtimeVars
  BY <1>11 DEF RuntimeTypeOK, CountersOK, CountTransmission, runtimeVars, bus, data, counts, wire
<1> QED
  BY EveryCall, <1>1, <1>2, <1>3, <1>4, <1>5, <1>6, <1>7, <1>8, <1>9, <1>10, <1>11

\* The answer.
LEMMA AnswerStep == RuntimeTypeOK /\ [Call]_runtimeVars => AnswerOK'
PROOF
<1> SUFFICES ASSUME RuntimeTypeOK, [Call]_runtimeVars PROVE AnswerOK'
  OBVIOUS
<1>1. CASE Open
  BY <1>1 DEF Open, RuntimeTypeOK, AnswerOK, NoRows, NoRequest, Functions, runtimeVars, bus, data, counts, wire
<1>2. CASE Close
  BY <1>2 DEF Close, RuntimeTypeOK, AnswerOK, NoRows, NoRequest, Functions, runtimeVars, bus, data, counts, wire
<1>3. CASE AllocateData
  BY <1>3 DEF AllocateData, RuntimeTypeOK, AnswerOK, NoRows, NoRequest, Functions, runtimeVars, bus, data, counts, wire
<1>4. CASE FreeData
  BY <1>4 DEF FreeData, RuntimeTypeOK, AnswerOK, NoRows, NoRequest, Functions, runtimeVars, bus, data, counts, wire
<1>5. CASE ReadResultFree
  BY <1>5 DEF ReadResultFree, RuntimeTypeOK, AnswerOK, NoRows, NoRequest, Functions, runtimeVars, bus, data, counts, wire
<1>6. CASE WriteOnce
  <2>1. UNCHANGED <<rows, asked>>
    BY <1>6 DEF WriteOnce, wire
  <2>2. WriteRequest \in [eFunction : Functions, units : Nat, room : Nat]
    BY SizeFacts DEF WriteRequest, RuntimeTypeOK, ContextOK
  <2>3. request' = request \/ request' = WriteRequest
    BY <1>6 DEF WriteOnce, wire
  <2> QED
    BY <2>1, <2>2, <2>3 DEF RuntimeTypeOK, AnswerOK
<1>7. CASE DeviceTextGone
  BY <1>7 DEF DeviceTextGone, RuntimeTypeOK, AnswerOK, NoRows, NoRequest, Functions, runtimeVars, bus, data, counts, wire
<1>8. ASSUME NEW q \in Parameters, xBus = "null" /\ pvData = 0 /\ NewContext(q) PROVE AnswerOK'
  BY <1>8 DEF NewContext, RuntimeTypeOK, AnswerOK, NoRows, NoRequest, Functions, runtimeVars, bus, data, counts, wire
<1>9. ASSUME NEW index \in {-1, 0} \cup Counts, SetWriteValueString(index) PROVE AnswerOK'
  BY <1>9 DEF SetWriteValueString, RuntimeTypeOK, AnswerOK, NoRows, NoRequest, Functions, runtimeVars, bus, data, counts, wire
<1>10. ASSUME NEW ref \in References, ReadOnce(ref) PROVE AnswerOK'
  <2>1. ref \in Nat
    BY RuntimeAssumption, LimitsAssumption
  <2>2. ReadRequest \in [eFunction : Functions, units : Nat, room : Nat]
    BY SizeFacts DEF ReadRequest, RuntimeTypeOK, ContextOK
  <2>3. [first |-> ref, step |-> StepOfRows, count |-> param.iCount]
          \in [first : Nat, step : {1, 2}, count : Nat]
    BY <2>1, SizeFacts DEF StepOfRows, RuntimeTypeOK, ContextOK
  <2>4. ref .. (ref + RegisterCount(param) - 1) \subseteq Nat
    BY <2>1, SizeFacts DEF RuntimeTypeOK, ContextOK
  <2>5. request' = request \/ request' = ReadRequest
    BY <1>10 DEF ReadOnce, wire
  <2>6. \/ UNCHANGED <<rows, asked>>
        \/ rows' = NoRows /\ asked' = {}
        \/ /\ rows' = [first |-> ref, step |-> StepOfRows, count |-> param.iCount]
           /\ asked' = ref .. (ref + RegisterCount(param) - 1)
    BY <1>10 DEF ReadOnce, wire
  <2>7. NoRows \in [first : Nat, step : {1, 2}, count : Nat]
    BY DEF NoRows
  <2>8. request' \in [eFunction : Functions, units : Nat, room : Nat]
    BY <2>2, <2>5 DEF RuntimeTypeOK, AnswerOK
  <2>9. rows' \in [first : Nat, step : {1, 2}, count : Nat] /\ asked' \subseteq Nat
    BY <2>3, <2>4, <2>6, <2>7, Zenon DEF RuntimeTypeOK, AnswerOK
  <2> QED
    BY <2>8, <2>9 DEF AnswerOK
<1>11. CASE UNCHANGED runtimeVars
  BY <1>11 DEF RuntimeTypeOK, AnswerOK, NoRows, NoRequest, Functions, runtimeVars, bus, data, counts, wire
<1> QED
  BY EveryCall, <1>1, <1>2, <1>3, <1>4, <1>5, <1>6, <1>7, <1>8, <1>9, <1>10, <1>11

-----------------------------------------------------------------------------
LEMMA StepInvariant == IInv /\ [Call]_runtimeVars => IInv'
PROOF
<1> SUFFICES ASSUME IInv, [Call]_runtimeVars PROVE IInv'
  OBVIOUS
<1> USE DEF IInv
<1>1. NothingLeaks'
  BY LeakStep
<1>2. RuntimeTypeOK'
  <2>1. ContextOK' /\ CountersOK' /\ AnswerOK'
    BY ContextStep, CountersStep, AnswerStep
  <2>2. buses' \in Nat /\ blocks' \in Nat
    BY <1>1 DEF NothingLeaks
  <2> QED
    BY <2>1, <2>2 DEF RuntimeTypeOK
<1> QED
  BY <1>1, <1>2, BlockStep, FitStep, RowsStep

\* What holds of the runtime whatever its caller does, for every context, frame size
\* and order of calls (mbpoll-runtime.c:95-636).
THEOREM Invariant == RuntimeSpec => []IInv
PROOF
<1>1. RuntimeInit => IInv
  BY InitInvariant
<1>2. IInv /\ [Call]_runtimeVars => IInv'
  BY StepInvariant
<1> QED
  BY <1>1, <1>2, PTL DEF RuntimeSpec

\* Every variable stays in its range (xMbPollContext, xMbPollReadResult).
THEOREM TypeCorrect == RuntimeSpec => []RuntimeTypeOK
PROOF
<1>1. IInv => RuntimeTypeOK
  BY DEF IInv
<1> QED
  BY <1>1, Invariant, PTL

\* The calls of the runtime never leak a connection, a block or rows: opening,
\* allocating and reading again release the old ones (mbpoll-runtime.c:143-165,
\* 262-372, 468-567).
THEOREM NeverLeaks == RuntimeSpec => []NothingLeaks
PROOF
<1>1. IInv => NothingLeaks
  BY DEF IInv
<1> QED
  BY <1>1, Invariant, PTL

\* For every count, function and format, iMbPollRegisterCount never asks for more
\* than iMbPollDataSize allocated (mbpoll-runtime.c:134-141, 679-720).
THEOREM RequestsFit == RuntimeSpec => []RequestsFitTheirBlocks
PROOF
<1>1. IInv => RequestsFitTheirBlocks
  BY DEF IInv
<1> QED
  BY <1>1, Invariant, PTL

\* A value to write lies within the block, for every index that is accepted
\* (mbpoll-runtime.c:167-260).
THEOREM ValuesFit == RuntimeSpec => []ValuesStayInTheirBlock
PROOF
<1>1. IInv => ValuesStayInTheirBlock
  <2> SUFFICES ASSUME IInv, NEW n \in filled
               PROVE  0 <= n /\ (n + 1) * Width(param) * UnitBytes(param.eFunction) <= pvData
    BY DEF ValuesStayInTheirBlock
  <2>1. param \in Parameters \cup {Defaults} /\ pvData \in Nat
    BY DEF IInv, RuntimeTypeOK, ContextOK
  <2>2. n \in 0..(param.iCount - 1) /\ pvData = DataSize(param)
    BY DEF IInv, Block
  <2>3. /\ param.iCount \in Nat
        /\ Width(param) \in {1, 2} /\ UnitBytes(param.eFunction) \in {1, 2}
        /\ DataSize(param) = (param.iCount * Width(param)) * UnitBytes(param.eFunction)
    BY <2>1, SizeFacts
  <2> QED
    BY <2>2, <2>3
<1> QED
  BY <1>1, Invariant, PTL

\* The rows of a read name the registers of its answer, all of them and no other
\* (mbpoll-runtime.c:548-565).
THEOREM RowsCover == RuntimeSpec => []RowsCoverTheAnswer
PROOF
<1>1. IInv => RowsCoverTheAnswer
  BY DEF IInv
<1> QED
  BY <1>1, Invariant, PTL
=============================================================================
