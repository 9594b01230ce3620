--------------------------- MODULE DesktopProofs ---------------------------
(***************************************************************************)
(* Desktop, for every set of counts, texts, references and settings: each  *)
(* step of the window is a call that the caller of MbPollRuntime may make, *)
(* so that the theorems of RuntimeProofs hold of the window; and what the  *)
(* chain of steps of a handler takes, it hands back.                       *)
(***************************************************************************)
EXTENDS Desktop, RuntimeProofs, FiniteSetTheorems

\* What the context of a handler holds at each of its steps.
Held ==
  /\ stage \notin {"request", "release", "close"} => xBus = "null"
  /\ stage \in {"idle", "allocate", "return"} => pvData = 0
  /\ operation # "write" => pvData = 0
  /\ stage # "release" => rows = NoRows
  /\ stage = "idle" <=> operation = "none"
  /\ stage = "release" => operation # "write"
  /\ stage \in {"allocate", "fill", "unfill", "free"} => operation = "write"

\* The values of a write are put in one after another, and all of them before the
\* connection is opened.
FilledUpTo(k) == filled = 0..(k - 1) /\ \A n \in 1..k : values[n]

Filling ==
  /\ operation = "write" => param.iCount = Len(values)
  /\ stage = "fill" => \E k \in 0..Len(values) : FilledUpTo(k)
  /\ stage \in {"open", "request"} /\ operation = "write" => FilledUpTo(Len(values))

\* The device name of a read is intact until the connection is open.
Aimed ==
  operation # "write" =>
    /\ stage = "open" => param.sDevice = "given"
    /\ stage = "request" => target = "shown"

Slaves ==
  /\ slaveMin = (IF mode = "rtu" THEN 1 ELSE 0)
  /\ slaveMin <= slave

\* Every index of a value is one a caller may use.
Indexed == 1..Len(values) \subseteq Counts

DInv ==
  /\ DesktopTypeOK /\ Indexed
  /\ Held /\ Filling /\ Aimed /\ Slaves
  /\ ButtonsTellPolling /\ ClicksStopPolling

-----------------------------------------------------------------------------
\* A context the window makes is one the runtime knows.
LEMMA AppliedFacts ==
  ASSUME DInv
  PROVE  /\ Applied \in Parameters
         /\ Applied.sDevice = IF device[mode] THEN "given" ELSE "missing"
         /\ values # <<>> => [Applied EXCEPT !.iCount = Len(values)] \in Parameters
         /\ Defaults \in Parameters
PROOF
<1>1. /\ function \in Functions /\ count \in 1..MaxCount /\ count \in Counts
      /\ 1 \in Counts /\ "default" \in Lines
  BY LimitsAssumption, RuntimeAssumption, DesktopAssumption DEF DInv, DesktopTypeOK
<1>2. values # <<>> => Len(values) \in Counts
  <2>1. values \in Seq(BOOLEAN) /\ 1..Len(values) \subseteq Counts
    BY DEF DInv, DesktopTypeOK, Indexed
  <2> QED
    BY <2>1
<1>3. Applied \in Parameters
  BY <1>1 DEF Applied, Parameters
<1>4. values # <<>> => [Applied EXCEPT !.iCount = Len(values)] \in Parameters
  BY <1>1, <1>2 DEF Applied, Parameters
<1>5. Defaults \in Parameters
  BY <1>1 DEF Defaults, Parameters, Functions, UsesBinary
<1>6. Applied.sDevice = IF device[mode] THEN "given" ELSE "missing"
  BY DEF Applied
<1> QED
  BY <1>3, <1>4, <1>5, <1>6

\* How a handler begins: with nothing, as a read, or as a write.
Begins ==
  \/ UNCHANGED <<runtimeVars, handler>>
  \/ \E q \in Parameters :
       /\ NewContext(q) /\ q.sDevice = "given"
       /\ stage' = "open" /\ operation' \in {"read", "tick"} /\ wired' = wired
  \/ \E q \in Parameters :
       /\ NewContext(q) /\ q.iCount = Len(values)
       /\ stage' = "allocate" /\ operation' = "write" /\ wired' = wired

\* A timeout only waits while the timer is active.
TimerOK == polling \in BOOLEAN /\ due \in BOOLEAN /\ (due => polling)

\* A begin that is no tick has stopped the timer.
Stops == operation' \in {"read", "write"} => ~polling'

\* A read begins a context, or does nothing.
LEMMA BeginReadFacts ==
  ASSUME DInv, NEW op \in {"read", "tick"}, IF CanBePrepared THEN BeginRead(op) ELSE Nothing
  PROVE  Begins /\ UNCHANGED widgets /\ operation' \in {op, operation}
PROOF
<1>1. CASE CanBePrepared
  <2>1. Applied \in Parameters /\ Applied.sDevice = "given"
    BY <1>1, AppliedFacts DEF CanBePrepared
  <2>2. NewContext(Applied) /\ stage' = "open" /\ operation' = op /\ UNCHANGED <<wired, widgets>>
    BY <1>1 DEF BeginRead
  <2> QED
    BY <2>1, <2>2, Zenon DEF Begins
<1>2. CASE ~CanBePrepared
  <2>1. UNCHANGED <<runtimeVars, handler>> /\ UNCHANGED widgets
    BY <1>2 DEF Nothing
  <2> QED
    BY <2>1 DEF Begins, handler
<1> QED
  BY <1>1, <1>2

LEMMA BeginFacts ==
  ASSUME DInv, Click \/ Tick
  PROVE  /\ stage = "idle" /\ Begins /\ Stops
         /\ UNCHANGED widgets
         /\ canWrite' \in BOOLEAN /\ ButtonsTellPolling' /\ TimerOK'
PROOF
<1>0. /\ canWrite \in BOOLEAN /\ TimerOK /\ ButtonsTellPolling
      /\ stage = "idle" => operation = "none"
  BY DEF DInv, DesktopTypeOK, Held, TimerOK
<1>1. StopIfPolling => ~polling' /\ canWrite' = canWrite /\ ButtonsTellPolling' /\ TimerOK'
  BY <1>0 DEF StopIfPolling, StopPolling, ButtonsTellPolling, TimerOK, buttons, timer
<1>2. StopPolling => ~polling' /\ canWrite' = canWrite /\ ButtonsTellPolling' /\ TimerOK'
  BY DEF StopPolling, ButtonsTellPolling, TimerOK
<1>3. Nothing => Begins /\ UNCHANGED widgets /\ operation' = operation
  BY DEF Nothing, Begins, handler
<1>4. CASE ReadClicked
  BY <1>0, <1>1, <1>4, BeginReadFacts DEF ReadClicked, Idle, Stops
<1>5. CASE WriteClicked
  <2>1. stage = "idle" /\ StopIfPolling
    BY <1>5 DEF WriteClicked, Idle
  <2>2. Begins /\ UNCHANGED widgets
    <3>1. CASE Writable(function) /\ CanBePrepared /\ values # <<>>
      <4> DEFINE q == [Applied EXCEPT !.iCount = Len(values)]
      <4>1. q \in Parameters /\ q.iCount = Len(values)
        BY <3>1, AppliedFacts DEF Applied
      <4>2. /\ NewContext(q) /\ stage' = "allocate" /\ operation' = "write"
            /\ UNCHANGED <<wired, widgets>>
        BY <1>5, <3>1 DEF WriteClicked
      <4> QED
        BY <4>1, <4>2, Zenon DEF Begins
    <3>2. CASE ~(Writable(function) /\ CanBePrepared /\ values # <<>>)
      BY <1>3, <1>5, <3>2 DEF WriteClicked
    <3> QED
      BY <3>1, <3>2
  <2> QED
    BY <1>0, <1>1, <2>1, <2>2 DEF Stops
<1>6. CASE StartClicked
  <2>1. stage = "idle" /\ operation = "none"
    BY <1>0, <1>6 DEF StartClicked, Idle
  <2>2. CASE CanBePrepared
    <3>1. /\ BeginRead("tick") /\ polling' = TRUE /\ canStart' = FALSE /\ canStop' = TRUE
          /\ canWrite' = canWrite /\ due' = FALSE
      BY <1>6, <2>2 DEF StartClicked, StartTimer
    <3>2. Begins /\ UNCHANGED widgets /\ operation' \in {"tick", operation}
      BY <2>2, <3>1, BeginReadFacts
    <3> QED
      BY <1>0, <2>1, <3>1, <3>2 DEF Stops, ButtonsTellPolling, TimerOK
  <2>3. CASE ~CanBePrepared
    <3>1. StopPolling /\ Nothing
      BY <1>6, <2>3 DEF StartClicked
    <3> QED
      BY <1>0, <1>2, <1>3, <2>1, <3>1 DEF Stops
  <2> QED
    BY <2>2, <2>3
<1>7. CASE StopClicked
  BY <1>0, <1>2, <1>3, <1>7 DEF StopClicked, Idle, Stops
<1>8. CASE Tick
  <2>1. stage = "idle" /\ operation = "none"
    BY <1>0, <1>8 DEF Tick, Idle
  <2>2. CASE CanBePrepared
    <3>1. /\ BeginRead("tick") /\ due' = FALSE
          /\ UNCHANGED <<canWrite, canStart, canStop, polling>>
      BY <1>8, <2>2 DEF Tick
    <3>2. Begins /\ UNCHANGED widgets /\ operation' \in {"tick", operation}
      BY <2>2, <3>1, BeginReadFacts
    <3> QED
      BY <1>0, <2>1, <3>1, <3>2 DEF Stops, ButtonsTellPolling, TimerOK
  <2>3. CASE ~CanBePrepared
    <3>1. StopPolling /\ Nothing
      BY <1>8, <2>3 DEF Tick
    <3> QED
      BY <1>0, <1>2, <1>3, <2>1, <3>1 DEF Stops
  <2> QED
    BY <2>2, <2>3
<1> QED
  BY <1>4, <1>5, <1>6, <1>7, <1>8 DEF Click

-----------------------------------------------------------------------------
\* An edit changes the widgets, within their ranges, and nothing a handler uses.
LEMMA EditFacts ==
  ASSUME DInv, Edit
  PROVE  /\ stage = "idle" /\ UNCHANGED <<runtimeVars, handler>>
         /\ UNCHANGED <<canStart, canStop, polling>>
         /\ DesktopTypeOK' /\ Indexed' /\ Slaves'
PROOF
<1> DEFINE Kept == UNCHANGED <<canStart, canStop, polling, due, rate>>
           Rest == /\ UNCHANGED <<runtimeVars, handler>> /\ stage = "idle"
<1>0. /\ DesktopTypeOK /\ Indexed /\ Slaves
      /\ MaxSlave \in Nat /\ MaxSlave >= 1 /\ MaxCount \in Nat /\ MaxCount >= 1
  BY LimitsAssumption, DesktopAssumption DEF DInv
<1>1. CASE \E m \in {"tcp", "rtu"} : ChooseMode(m)
  <2> PICK m \in {"tcp", "rtu"} : ChooseMode(m)
    BY <1>1
  <2>1. /\ Rest /\ Kept /\ mode' = m /\ slaveMin' = (IF m = "rtu" THEN 1 ELSE 0)
        /\ slave' = Clamped(slave, slaveMin', MaxSlave)
        /\ UNCHANGED <<device, line, function, format, count, values, canWrite>>
    BY DEF ChooseMode, Idle, Untouched, buttons, timer
  <2>2. slave \in Nat /\ slave <= MaxSlave /\ slaveMin' \in {0, 1}
    BY <1>0, <2>1 DEF DesktopTypeOK
  <2>3. slave' \in 0..MaxSlave /\ slaveMin' <= slave'
    BY <1>0, <2>1, <2>2 DEF Clamped
  <2> QED
    BY <1>0, <2>1, <2>2, <2>3 DEF DesktopTypeOK, Indexed, Slaves, handler
<1>2. CASE \E f \in Functions : ChooseFunction(f)
  <2> PICK f \in Functions : ChooseFunction(f)
    BY <1>2
  <2>1. /\ Rest /\ Kept /\ function' = f /\ canWrite' = Writable(f)
        /\ format' = IF \E n \in 1..Len(Offered(f)) : Offered(f)[n] = format
                     THEN format ELSE Offered(f)[1]
        /\ UNCHANGED <<mode, device, line, slave, slaveMin, count, values>>
    BY DEF ChooseFunction, Idle, Untouched, timer
  <2>2. 1 \in 1..Len(Offered(f))
    BY DEF Offered
  <2>3. \E n \in 1..Len(Offered(function')) : Offered(function')[n] = format'
    <3>1. CASE \E n \in 1..Len(Offered(f)) : Offered(f)[n] = format
      BY <2>1, <3>1, Zenon
    <3>2. CASE ~\E n \in 1..Len(Offered(f)) : Offered(f)[n] = format
      BY <2>1, <2>2, <3>2, Zenon
    <3> QED
      BY <3>1, <3>2
  <2>4. canWrite' \in BOOLEAN
    BY <2>1 DEF Writable
  <2> QED
    BY <1>0, <2>1, <2>3, <2>4 DEF DesktopTypeOK, Indexed, Slaves, handler
<1>3. CASE \E x \in Formats : ChooseFormat(x)
  <2> PICK x \in Formats : ChooseFormat(x)
    BY <1>3
  <2>1. /\ Rest /\ Kept /\ format' = x
        /\ \E n \in 1..Len(Offered(function)) : Offered(function)[n] = x
        /\ UNCHANGED <<mode, device, line, slave, slaveMin, function, count, values, canWrite>>
    BY DEF ChooseFormat, Idle, Untouched, buttons, timer
  <2> QED
    BY <1>0, <2>1 DEF DesktopTypeOK, Indexed, Slaves, handler
<1>4. CASE \E named \in BOOLEAN : EditDevice(named)
  <2> PICK named \in BOOLEAN : EditDevice(named)
    BY <1>4
  <2>1. /\ Rest /\ Kept /\ device' = [device EXCEPT ![mode] = named]
        /\ UNCHANGED <<mode, line, slave, slaveMin, function, format, count, values, canWrite>>
    BY DEF EditDevice, Idle, Untouched, buttons, timer
  <2>2. device' \in [{"tcp", "rtu"} -> BOOLEAN]
    BY <1>0, <2>1 DEF DesktopTypeOK
  <2> QED
    BY <1>0, <2>1, <2>2 DEF DesktopTypeOK, Indexed, Slaves, handler
<1>5. CASE \E x \in Lines : EditLine(x)
  <2>1. /\ Rest /\ Kept /\ line' \in Lines
        /\ UNCHANGED <<mode, device, slave, slaveMin, function, format, count, values, canWrite>>
    BY <1>5 DEF EditLine, Idle, Untouched, buttons, timer
  <2> QED
    BY <1>0, <2>1 DEF DesktopTypeOK, Indexed, Slaves, handler
<1>6. CASE \E n \in {0, 1} : EditSlave(n)
  <2> PICK n \in {0, 1} : EditSlave(n)
    BY <1>6
  <2>1. /\ Rest /\ Kept /\ slave' = Clamped(n, slaveMin, MaxSlave)
        /\ UNCHANGED <<mode, device, line, slaveMin, function, format, count, values, canWrite>>
    BY DEF EditSlave, Idle, Untouched, buttons, timer
  <2>2. slave' \in 0..MaxSlave /\ slaveMin <= slave'
    BY <1>0, <2>1 DEF Clamped, DesktopTypeOK
  <2> QED
    BY <1>0, <2>1, <2>2 DEF DesktopTypeOK, Indexed, Slaves, handler
<1>7. CASE \E n \in Counts : EditCount(n)
  <2> PICK n \in Counts : EditCount(n)
    BY <1>7
  <2>1. /\ Rest /\ Kept /\ count' = Clamped(n, 1, MaxCount) /\ n \in Nat
        /\ UNCHANGED <<mode, device, line, slave, slaveMin, function, format, values, canWrite>>
    BY RuntimeAssumption DEF EditCount, Idle, Untouched, buttons, timer
  <2>2. count' \in 1..MaxCount
    BY <1>0, <2>1 DEF Clamped
  <2> QED
    BY <1>0, <2>1, <2>2 DEF DesktopTypeOK, Indexed, Slaves, handler
<1>8. CASE \E v \in Writings : EditValues(v)
  <2>1. /\ Rest /\ Kept /\ values' \in Writings
        /\ UNCHANGED <<mode, device, line, slave, slaveMin, function, format, count, canWrite>>
    BY <1>8 DEF EditValues, Idle, Untouched, buttons, timer
  <2>2. values' \in Seq(BOOLEAN) /\ 1..Len(values') \subseteq Counts
    BY <2>1, DesktopAssumption
  <2> QED
    BY <1>0, <2>1, <2>2 DEF DesktopTypeOK, Indexed, Slaves, handler
<1>9. CASE EditRate
  <2> PICK x \in Rates : EditPollRate(x)
    BY <1>9 DEF EditRate
  <2>1. /\ Rest /\ rate' = x /\ (IF polling THEN StartTimer ELSE UNCHANGED timer)
        /\ UNCHANGED <<mode, device, line, slave, slaveMin, function, format, count, values>>
        /\ UNCHANGED <<canWrite, canStart, canStop>>
    BY DEF EditPollRate, Idle, Untouched
  <2>2. polling \in BOOLEAN /\ due \in BOOLEAN /\ (due => polling)
    BY <1>0 DEF DesktopTypeOK
  <2>3. polling' = polling /\ due' \in BOOLEAN /\ (due' => polling')
    BY <2>1, <2>2, Zenon DEF StartTimer, timer
  <2> QED
    BY <1>0, <2>1, <2>3 DEF DesktopTypeOK, Indexed, Slaves, handler
<1> QED
  BY <1>1, <1>2, <1>3, <1>4, <1>5, <1>6, <1>7, <1>8, <1>9 DEF Edit

\* The interval runs out, or nothing happens.
Waits ==
  /\ UNCHANGED <<runtimeVars, widgets, handler, canWrite, canStart, canStop, polling>>
  /\ due' = due \/ (due' = TRUE /\ polling)

\* What a step can be.
LEMMA EveryStep ==
  ASSUME [Next]_desktopVars
  PROVE  \/ Edit \/ (Click \/ Tick)
         \/ Allocate \/ FillOne \/ ShowCount \/ OpenBus \/ ReadTheValues \/ WriteTheValues
         \/ Release \/ CloseBus \/ FreeBlock \/ Return
         \/ Waits
PROOF
<1>1. Elapse => Waits
  BY DEF Elapse, Waits
<1>2. UNCHANGED desktopVars => Waits
  BY DEF desktopVars, Waits, buttons, timer
<1> QED
  BY <1>1, <1>2 DEF Next, HandlerStep

\* The next index to fill, when the ones below it are filled.
LEMMA NextIndexFacts ==
  ASSUME DInv, stage = "fill"
  PROVE  /\ NextIndex \in 0..Len(values) /\ FilledUpTo(NextIndex)
         /\ Len(values) \in Nat
PROOF
<1>1. Len(values) \in Nat
  BY DEF DInv, DesktopTypeOK
<1>2. PICK k \in 0..Len(values) : FilledUpTo(k)
  BY DEF DInv, Filling
<1> DEFINE Least(n) == n \notin filled /\ \A a \in 0..(n - 1) : a \in filled
<1>3. \E n \in 0..Len(values) : Least(n)
  BY <1>1, <1>2 DEF FilledUpTo
<1>4. ASSUME NEW n \in 0..Len(values), Least(n) PROVE n = k
  BY <1>1, <1>2, <1>4 DEF FilledUpTo
<1>5. NextIndex = CHOOSE n \in 0..Len(values) : Least(n)
  BY Zenon DEF NextIndex
<1> HIDE DEF Least
<1>6. NextIndex \in 0..Len(values) /\ Least(NextIndex)
  BY <1>3, <1>5, Zenon
<1>7. NextIndex = k
  BY <1>4, <1>6
<1> QED
  BY <1>1, <1>2, <1>7

(***************************************************************************)
(* Every step of the window is a call, made when the caller may make it.   *)
(***************************************************************************)
LEMMA CallStep == DInv /\ [Next]_desktopVars => [Call]_runtimeVars
PROOF
<1> SUFFICES ASSUME DInv, [Next]_desktopVars PROVE [Call]_runtimeVars
  OBVIOUS
<1>0. /\ stage = "idle" => xBus = "null" /\ pvData = 0
      /\ stage = "return" => xBus = "null" /\ pvData = 0
  BY DEF DInv, Held
<1>1. CASE Edit
  BY <1>1, EditFacts
<1>2. CASE Click \/ Tick
  <2>1. stage = "idle" /\ Begins
    BY <1>2, BeginFacts
  <2>2. \/ UNCHANGED runtimeVars
        \/ \E q \in Parameters : NewContext(q)
    BY <2>1, Zenon DEF Begins
  <2> QED
    BY <1>0, <2>1, <2>2, Zenon DEF Call
<1>3. CASE Allocate
  BY <1>3, Zenon DEF Allocate, Call
<1>4. CASE FillOne
  <2>1. NextIndex \in 0..Len(values) /\ NextIndex < Len(values) /\ SetWriteValueString(NextIndex)
    BY <1>4, NextIndexFacts DEF FillOne, At
  <2>2. 1..Len(values) \subseteq Counts /\ Len(values) \in Nat
    BY DEF DInv, DesktopTypeOK, Indexed
  <2>3. NextIndex \in {-1, 0} \cup Counts
    BY <2>1, <2>2
  <2> QED
    BY <2>1, <2>3, Zenon DEF Call
<1>5. CASE ShowCount
  BY <1>5, Zenon DEF ShowCount, Call
<1>6. CASE OpenBus
  BY <1>6, Zenon DEF OpenBus, Call
<1>7. CASE ReadTheValues
  BY <1>7, Zenon DEF ReadTheValues, Call
<1>8. CASE WriteTheValues
  BY <1>8, Zenon DEF WriteTheValues, Call
<1>9. CASE Release
  BY <1>9, Zenon DEF Release, Call
<1>10. CASE CloseBus
  BY <1>10, Zenon DEF CloseBus, Call
<1>11. CASE FreeBlock
  BY <1>11, Zenon DEF FreeBlock, Call
<1>12. CASE Return
  <2>1. Defaults \in Parameters
    BY AppliedFacts
  <2> QED
    BY <1>0, <1>12, <2>1, Zenon DEF Return, Call
<1>13. CASE Waits
  BY <1>13 DEF Waits
<1> QED
  BY <1>1, <1>2, <1>3, <1>4, <1>5, <1>6, <1>7, <1>8, <1>9, <1>10, <1>11, <1>12, <1>13,
     EveryStep, Zenon

-----------------------------------------------------------------------------
\* No step of a handler changes a widget, but ShowCount the count, nor a button.
LEMMA HandlerFacts ==
  ASSUME DInv, RuntimeTypeOK,
         \/ Allocate \/ FillOne \/ ShowCount \/ OpenBus \/ ReadTheValues \/ WriteTheValues
         \/ Release \/ CloseBus \/ FreeBlock \/ Return
  PROVE  /\ UNCHANGED <<mode, device, line, slave, slaveMin, function, format, values, rate>>
         /\ UNCHANGED buttons
         /\ count' \in 1..MaxCount /\ stage' \in Stages /\ wired' \in Lines \cup {"none"}
         /\ operation' \in {operation, "none"}
         /\ stage # "idle"
PROOF
<1>0. /\ count \in 1..MaxCount /\ wired \in Lines \cup {"none"} /\ stage \in Stages
      /\ MaxCount \in Nat /\ MaxCount >= 1 /\ Len(values) \in Nat
  BY LimitsAssumption DEF DInv, DesktopTypeOK
<1>1. CASE Allocate
  BY <1>0, <1>1 DEF Allocate, At, Then, widgets, Stages
<1>2. CASE FillOne
  BY <1>0, <1>2 DEF FillOne, At, Then, widgets, Stages
<1>3. CASE ShowCount
  <2>1. /\ count' = Clamped(Len(values), 1, MaxCount) /\ stage = "fill" /\ stage' = "open"
        /\ operation' = operation
        /\ UNCHANGED <<mode, device, line, slave, slaveMin, function, format, values, rate,
                       wired, buttons>>
    BY <1>3, Zenon DEF ShowCount, At
  <2>2. count' \in 1..MaxCount
    BY <1>0, <2>1 DEF Clamped
  <2> QED
    BY <1>0, <2>1, <2>2 DEF Stages
<1>4. CASE OpenBus
  <2>1. param.xRtu \in Lines
    BY RuntimeAssumption DEF RuntimeTypeOK, ContextOK, Parameters, Defaults
  <2>2. /\ stage = "open" /\ operation' = operation /\ wired' = param.xRtu
        /\ stage' \in {"request", "free", "return"}
        /\ UNCHANGED <<widgets, buttons>>
    BY <1>4 DEF OpenBus, At, Then
  <2> QED
    BY <1>0, <2>1, <2>2 DEF Stages, widgets
<1>5. CASE ReadTheValues
  BY <1>0, <1>5 DEF ReadTheValues, At, widgets, Stages
<1>6. CASE WriteTheValues
  BY <1>0, <1>6 DEF WriteTheValues, At, widgets, Stages
<1>7. CASE Release
  BY <1>0, <1>7 DEF Release, At, widgets, Stages
<1>8. CASE CloseBus
  BY <1>0, <1>8 DEF CloseBus, At, widgets, Stages
<1>9. CASE FreeBlock
  BY <1>0, <1>9 DEF FreeBlock, widgets, Stages
<1>10. CASE Return
  BY <1>0, <1>10 DEF Return, widgets, Stages
<1> QED
  BY <1>1, <1>2, <1>3, <1>4, <1>5, <1>6, <1>7, <1>8, <1>9, <1>10

\* The widgets and the buttons.
LEMMA WindowStep ==
  ASSUME DInv, RuntimeTypeOK, [Next]_desktopVars
  PROVE  /\ DesktopTypeOK' /\ Indexed' /\ Slaves'
         /\ ButtonsTellPolling' /\ ClicksStopPolling'
PROOF
<1>0. /\ DesktopTypeOK /\ Indexed /\ Slaves
      /\ ButtonsTellPolling /\ ClicksStopPolling
      /\ stage = "idle" <=> operation = "none"
  BY DEF DInv, Held
<1>1. CASE Edit
  <2>1. /\ DesktopTypeOK' /\ Indexed' /\ Slaves'
        /\ UNCHANGED <<canStart, canStop, polling>> /\ stage' = stage /\ operation' = operation
        /\ stage = "idle"
    BY <1>1, EditFacts DEF handler
  <2> QED
    BY <1>0, <2>1 DEF ButtonsTellPolling, ClicksStopPolling
<1>2. CASE Click \/ Tick
  <2>1. /\ stage = "idle" /\ Begins /\ Stops /\ UNCHANGED widgets
        /\ canWrite' \in BOOLEAN /\ ButtonsTellPolling'
        /\ polling' \in BOOLEAN /\ due' \in BOOLEAN /\ (due' => polling')
    BY <1>2, BeginFacts DEF TimerOK
  <2>2. /\ stage' \in Stages /\ operation' \in {"none", "read", "write", "tick"} /\ wired' = wired
    <3>1. CASE UNCHANGED <<runtimeVars, handler>>
      BY <1>0, <3>1 DEF handler, DesktopTypeOK
    <3>2. CASE ~UNCHANGED <<runtimeVars, handler>>
      <4>1. /\ stage' \in {"open", "allocate"} /\ operation' \in {"read", "tick", "write"}
            /\ wired' = wired
        BY <2>1, <3>2, Zenon DEF Begins
      <4> QED
        BY <4>1 DEF Stages
    <3> QED
      BY <3>1, <3>2
  <2>3. canStart' \in BOOLEAN /\ canStop' \in BOOLEAN
    BY <2>1, Zenon DEF ButtonsTellPolling
  <2>4. DesktopTypeOK' /\ Indexed' /\ Slaves'
    BY <1>0, <2>1, <2>2, <2>3 DEF DesktopTypeOK, Indexed, Slaves, widgets
  <2> QED
    BY <2>1, <2>4 DEF Stops, ClicksStopPolling
<1>3. CASE Waits
  <2>1. /\ UNCHANGED widgets /\ UNCHANGED handler
        /\ UNCHANGED <<canWrite, canStart, canStop, polling>>
        /\ due' = due \/ (due' = TRUE /\ polling)
    BY <1>3 DEF Waits
  <2>2. due' \in BOOLEAN /\ (due' => polling')
    <3>1. polling' = polling /\ due \in BOOLEAN /\ (due => polling)
      BY <1>0, <2>1 DEF DesktopTypeOK
    <3>2. CASE due' = due
      BY <3>1, <3>2
    <3>3. CASE due' = TRUE /\ polling
      BY <3>1, <3>3
    <3> QED
      BY <2>1, <3>2, <3>3
  <2>3. DesktopTypeOK' /\ Indexed' /\ Slaves'
    BY <1>0, <2>1, <2>2 DEF DesktopTypeOK, Indexed, Slaves, widgets, handler
  <2> QED
    BY <1>0, <2>1, <2>3 DEF ButtonsTellPolling, ClicksStopPolling, handler
<1>4. CASE ~(Edit \/ (Click \/ Tick) \/ Waits)
  <2>1. /\ UNCHANGED <<mode, device, line, slave, slaveMin, function, format, values, rate>>
        /\ UNCHANGED buttons
        /\ count' \in 1..MaxCount /\ stage' \in Stages /\ wired' \in Lines \cup {"none"}
        /\ operation' \in {operation, "none"} /\ stage # "idle"
    BY <1>4, EveryStep, HandlerFacts
  <2>2. /\ DesktopTypeOK' /\ Indexed' /\ Slaves'
    BY <1>0, <2>1 DEF DesktopTypeOK, Indexed, Slaves, buttons, timer
  <2> QED
    BY <1>0, <2>1, <2>2 DEF ButtonsTellPolling, ClicksStopPolling, buttons, timer
<1> QED
  BY <1>1, <1>2, <1>3, <1>4

\* A begun context holds nothing, and no rows are left from before.
LEMMA BegunFacts ==
  ASSUME Held, stage = "idle", NEW q \in Parameters, NewContext(q)
  PROVE  /\ xBus' = "null" /\ pvData' = 0 /\ rows' = NoRows /\ param' = q
         /\ filled' = {}
BY DEF Held, NewContext

\* What is taken at each step of a handler.
LEMMA HeldStep ==
  ASSUME DInv, [Next]_desktopVars
  PROVE  Held'
PROOF
<1>0. Held
  BY DEF DInv
<1>1. CASE Edit
  <2>1. UNCHANGED <<runtimeVars, handler>>
    BY <1>1, EditFacts
  <2> QED
    BY <1>0, <2>1 DEF Held, runtimeVars, handler
<1>2. CASE Click \/ Tick
  <2>1. stage = "idle" /\ Begins
    BY <1>2, BeginFacts
  <2>2. CASE UNCHANGED <<runtimeVars, handler>>
    BY <1>0, <2>2 DEF Held, runtimeVars, handler
  <2>3. CASE ~UNCHANGED <<runtimeVars, handler>>
    <3>1. /\ \E q \in Parameters : NewContext(q)
          /\ \/ stage' = "open" /\ operation' \in {"read", "tick"}
             \/ stage' = "allocate" /\ operation' = "write"
      BY <2>1, <2>3, Zenon DEF Begins
    <3>2. xBus' = "null" /\ pvData' = 0 /\ rows' = NoRows
      BY <1>0, <2>1, <3>1, BegunFacts, Zenon
    <3> QED
      BY <3>1, <3>2 DEF Held
  <2> QED
    BY <2>2, <2>3
<1>3. CASE Allocate
  BY <1>0, <1>3 DEF Held, Allocate, At, Then, AllocateData, bus
<1>4. CASE FillOne
  BY <1>0, <1>4 DEF Held, FillOne, At, Then, SetWriteValueString, bus
<1>5. CASE ShowCount
  <2>1. UNCHANGED <<xBus, pvData, rows>> /\ stage = "fill" /\ stage' = "open" /\ operation' = operation
    BY <1>5 DEF ShowCount, At, runtimeVars, DeviceTextGone, bus, data
  <2> QED
    BY <1>0, <2>1 DEF Held
<1>6. CASE OpenBus
  <2>1. /\ stage = "open" /\ operation' = operation /\ UNCHANGED <<pvData, rows>>
        /\ stage' = IF ret' = "ok" THEN "request" ELSE IF operation = "write" THEN "free" ELSE "return"
    BY <1>6 DEF OpenBus, At, Then, Open, data
  <2>2. ret' # "ok" => xBus' = "null"
    BY <1>0, <1>6, <2>1 DEF OpenBus, Open, bus, Held
  <2> QED
    BY <1>0, <2>1, <2>2 DEF Held
<1>7. CASE ReadTheValues
  <2>1. /\ stage = "request" /\ operation # "write" /\ operation' = operation /\ stage' = "release"
        /\ UNCHANGED pvData
    BY <1>7 DEF ReadTheValues, At, ReadOnce, data
  <2> QED
    BY <1>0, <2>1 DEF Held
<1>8. CASE WriteTheValues
  BY <1>0, <1>8 DEF Held, WriteTheValues, At, WriteOnce, data
<1>9. CASE Release
  BY <1>0, <1>9 DEF Held, Release, At, ReadResultFree, data
<1>10. CASE CloseBus
  BY <1>0, <1>10 DEF Held, CloseBus, At, Close, data
<1>11. CASE FreeBlock
  BY <1>0, <1>11 DEF Held, FreeBlock, FreeData, bus
<1>12. CASE Return
  BY <1>0, <1>12 DEF Held, Return, NewContext
<1>13. CASE Waits
  BY <1>0, <1>13 DEF Held, Waits, runtimeVars, handler
<1> QED
  BY <1>1, <1>2, <1>3, <1>4, <1>5, <1>6, <1>7, <1>8, <1>9, <1>10, <1>11, <1>12, <1>13,
     EveryStep, Zenon

\* Losing the device name changes nothing else of a context.
LEMMA ShowCountFacts ==
  ASSUME RuntimeTypeOK, ShowCount
  PROVE  param'.iCount = param.iCount /\ filled' = filled
PROOF
<1>1. param \in Parameters \cup {Defaults}
  BY DEF RuntimeTypeOK, ContextOK
<1>2. UNCHANGED runtimeVars \/ DeviceTextGone
  BY Zenon DEF ShowCount
<1>3. CASE UNCHANGED runtimeVars
  BY <1>3 DEF runtimeVars
<1>4. CASE DeviceTextGone
  <2>1. param'.iCount = param.iCount
    BY <1>1, <1>4, DeviceFacts
  <2> QED
    BY <1>4, <2>1 DEF DeviceTextGone, data
<1> QED
  BY <1>2, <1>3, <1>4

\* One more value is put in, or the first that is no number ends the handler.
LEMMA FillOneFacts ==
  ASSUME DInv, FillOne
  PROVE  /\ param' = param /\ operation' = operation /\ values' = values
         /\ \/ stage' = "unfill"
            \/ stage' = "fill" /\ \E k \in 0..Len(values) : FilledUpTo(k)'
PROOF
<1>1. /\ stage = "fill" /\ operation' = operation /\ values' = values /\ param' = param
      /\ NextIndex < Len(values) /\ SetWriteValueString(NextIndex)
      /\ ret' = (IF values[NextIndex + 1] THEN "ok" ELSE "error")
      /\ stage' = (IF ret' = "ok" THEN "fill" ELSE "unfill")
  BY Zenon DEF FillOne, At, Then, SetWriteValueString, widgets
<1>2. PICK k \in 0..Len(values) : k = NextIndex /\ FilledUpTo(k) /\ Len(values) \in Nat
  BY <1>1, NextIndexFacts
<1>3. CASE ~values[k + 1]
  <2>1. ret' = "error"
    BY <1>1, <1>2, <1>3, Zenon
  <2> QED
    BY <1>1, <2>1
<1>4. CASE values[k + 1]
  <2>1. ret' = "ok"
    BY <1>1, <1>2, <1>4, Zenon
  <2>2. stage' = "fill" /\ filled' = filled \cup {k}
    BY <1>1, <1>2, <2>1 DEF SetWriteValueString
  <2>3. k + 1 \in 0..Len(values)
    BY <1>1, <1>2
  <2>4. filled' = 0..((k + 1) - 1)
    BY <1>2, <2>2 DEF FilledUpTo
  <2>5. ASSUME NEW n \in 1..(k + 1) PROVE values'[n]
    <3>1. CASE n = k + 1
      BY <1>1, <1>4, <3>1, Zenon
    <3>2. CASE n # k + 1
      <4>1. n \in 1..k
        BY <1>2, <3>2
      <4> QED
        BY <1>1, <1>2, <4>1, Zenon DEF FilledUpTo
    <3> QED
      BY <3>1, <3>2
  <2>6. FilledUpTo(k + 1)'
    BY <2>4, <2>5 DEF FilledUpTo
  <2> QED
    BY <1>1, <2>2, <2>3, <2>6
<1> QED
  BY <1>3, <1>4

\* The values of a write.
LEMMA FillingStep ==
  ASSUME DInv, RuntimeTypeOK, [Next]_desktopVars
  PROVE  Filling'
PROOF
<1>0. Filling /\ Held /\ Len(values) \in Nat
  BY DEF DInv, DesktopTypeOK
<1> DEFINE Same == /\ operation' = operation /\ param' = param /\ values' = values
<1>1. CASE Edit
  <2>1. stage' = "idle" /\ operation' = "none"
    BY <1>0, <1>1, EditFacts DEF handler, Held
  <2> QED
    BY <2>1 DEF Filling
<1>2. CASE Click \/ Tick
  <2>1. stage = "idle" /\ Begins /\ values' = values
    BY <1>2, BeginFacts DEF widgets
  <2>2. CASE UNCHANGED <<runtimeVars, handler>>
    <3>1. stage' = "idle" /\ operation' = "none"
      BY <1>0, <2>1, <2>2 DEF handler, Held
    <3> QED
      BY <3>1 DEF Filling
  <2>3. CASE \E q \in Parameters : /\ NewContext(q) /\ q.sDevice = "given"
                                   /\ stage' = "open" /\ operation' \in {"read", "tick"} /\ wired' = wired
    BY <2>3 DEF Filling
  <2>4. CASE \E q \in Parameters : /\ NewContext(q) /\ q.iCount = Len(values)
                                   /\ stage' = "allocate" /\ operation' = "write" /\ wired' = wired
    <3>1. param'.iCount = Len(values) /\ stage' = "allocate"
      BY <2>4, Zenon DEF NewContext
    <3> QED
      BY <2>1, <3>1 DEF Filling
  <2> QED
    BY <2>1, <2>2, <2>3, <2>4, Zenon DEF Begins
<1>3. CASE Allocate
  <2>1. Same /\ filled' = {} /\ stage' \in {"fill", "return"}
    BY <1>3 DEF Allocate, At, Then, AllocateData, widgets
  <2>2. FilledUpTo(0)' /\ 0 \in 0..Len(values')
    BY <1>0, <2>1 DEF FilledUpTo
  <2> QED
    BY <1>0, <2>1, <2>2 DEF Filling
<1>4. CASE FillOne
  BY <1>0, <1>4, FillOneFacts DEF Filling
<1>5. CASE ShowCount
  <2>1. /\ stage = "fill" /\ operation' = operation /\ values' = values
        /\ stage' = "open" /\ NextIndex = Len(values)
    BY <1>5, Zenon DEF ShowCount, At
  <2>2. param'.iCount = param.iCount /\ filled' = filled
    BY <1>5, ShowCountFacts
  <2>3. FilledUpTo(Len(values))
    BY <2>1, NextIndexFacts
  <2>4. FilledUpTo(Len(values))'
    BY <2>1, <2>2, <2>3 DEF FilledUpTo
  <2> QED
    BY <1>0, <2>1, <2>2, <2>4 DEF Filling
<1>6. CASE OpenBus
  <2>1. Same /\ filled' = filled /\ stage = "open" /\ stage' \in {"request", "free", "return"}
    BY <1>6 DEF OpenBus, At, Then, Open, data, widgets
  <2>2. FilledUpTo(Len(values)) => FilledUpTo(Len(values))'
    BY <2>1 DEF FilledUpTo
  <2> QED
    BY <1>0, <2>1, <2>2 DEF Filling
<1>7. CASE ReadTheValues
  <2>1. operation' # "write" /\ stage' = "release"
    BY <1>7 DEF ReadTheValues, At
  <2> QED
    BY <2>1 DEF Filling
<1>8. CASE WriteTheValues
  <2>1. Same /\ stage' = "close"
    BY <1>8 DEF WriteTheValues, At, WriteOnce, widgets
  <2> QED
    BY <1>0, <2>1 DEF Filling
<1>9. CASE Release
  <2>1. Same /\ stage' = "close"
    BY <1>9 DEF Release, At, ReadResultFree, widgets
  <2> QED
    BY <1>0, <2>1 DEF Filling
<1>10. CASE CloseBus
  <2>1. Same /\ stage' \in {"free", "return"}
    BY <1>10 DEF CloseBus, At, Close, widgets
  <2> QED
    BY <1>0, <2>1 DEF Filling
<1>11. CASE FreeBlock
  <2>1. Same /\ stage' = "return"
    BY <1>11 DEF FreeBlock, FreeData, widgets
  <2> QED
    BY <1>0, <2>1 DEF Filling
<1>12. CASE Return
  BY <1>12 DEF Return, Filling
<1>13. CASE Waits
  BY <1>0, <1>13 DEF Filling, FilledUpTo, Waits, runtimeVars, widgets, handler
<1> QED
  BY <1>1, <1>2, <1>3, <1>4, <1>5, <1>6, <1>7, <1>8, <1>9, <1>10, <1>11, <1>12, <1>13,
     EveryStep, Zenon

\* Where a read goes.
LEMMA AimedStep ==
  ASSUME DInv, [Next]_desktopVars
  PROVE  Aimed'
PROOF
<1>0. Aimed /\ Held
  BY DEF DInv
<1>1. CASE Edit
  <2>1. stage' = "idle"
    BY <1>1, EditFacts DEF handler
  <2> QED
    BY <2>1 DEF Aimed
<1>2. CASE Click \/ Tick
  <2>1. stage = "idle" /\ Begins
    BY <1>2, BeginFacts
  <2>2. \/ stage' = "idle" \/ stage' = "allocate"
        \/ stage' = "open" /\ param'.sDevice = "given"
    BY <2>1, Zenon DEF Begins, NewContext, handler
  <2> QED
    BY <2>2 DEF Aimed
<1>3. CASE OpenBus
  <2>1. /\ stage = "open" /\ operation' = operation /\ Open
        /\ stage' \in {"request", "free", "return"}
        /\ stage' = "request" => ret' = "ok"
    BY <1>3 DEF OpenBus, At, Then
  <2>2. param.sDevice = "given" /\ ret' = "ok" => target' = "shown"
    BY <2>1 DEF Open
  <2> QED
    BY <1>0, <2>1, <2>2 DEF Aimed
<1>4. CASE ShowCount
  <2>1. operation' = operation /\ stage = "fill"
    BY <1>4 DEF ShowCount, At
  <2> QED
    BY <1>0, <2>1 DEF Aimed, Held
<1>5. CASE \/ Allocate \/ FillOne \/ ReadTheValues \/ WriteTheValues
           \/ Release \/ CloseBus \/ FreeBlock \/ Return
  <2>1. stage' \notin {"open", "request"}
    BY <1>5 DEF Allocate, FillOne, ReadTheValues, WriteTheValues, Release, CloseBus, FreeBlock,
                Return, Then
  <2> QED
    BY <2>1 DEF Aimed
<1>6. CASE Waits
  BY <1>0, <1>6 DEF Aimed, Waits, runtimeVars, handler
<1> QED
  BY <1>1, <1>2, <1>3, <1>4, <1>5, <1>6, EveryStep, Zenon

-----------------------------------------------------------------------------
LEMMA InitDInv == Init => DInv /\ IInv
PROOF
<1> SUFFICES ASSUME Init PROVE DInv /\ IInv
  OBVIOUS
<1>1. IInv
  BY InitInvariant DEF Init
<1>2. /\ mode = "tcp" /\ device = NoDevice /\ line = "default" /\ slave = 1 /\ slaveMin = 0
      /\ function = "holdingReg" /\ format = "dec" /\ count = 1 /\ values = <<>>
      /\ canWrite = TRUE /\ canStart = TRUE /\ canStop = FALSE
      /\ polling = FALSE /\ due = FALSE /\ rate = "default"
      /\ stage = "idle" /\ operation = "none" /\ wired = "none"
      /\ xBus = "null" /\ pvData = 0 /\ rows = NoRows
  BY DEF Init, RuntimeInit
<1>3. Offered(function) = <<"dec", "int">>
  BY <1>2 DEF Offered, UsesBinary, Writable
<1>4. \E n \in 1..Len(Offered(function)) : Offered(function)[n] = format
  <2>1. 1 \in 1..Len(Offered(function)) /\ Offered(function)[1] = format
    BY <1>2, <1>3
  <2> QED
    BY <2>1, Zenon
<1>5. device \in [{"tcp", "rtu"} -> BOOLEAN]
  BY <1>2 DEF NoDevice
<1>6. DesktopTypeOK
  <2>1. MaxCount \in Nat /\ MaxCount >= 1 /\ MaxSlave \in Nat /\ MaxSlave >= 1
        /\ "default" \in Lines /\ "default" \in Rates
    BY LimitsAssumption, RuntimeAssumption, DesktopAssumption
  <2>2. values \in Seq(BOOLEAN)
    BY <1>2
  <2>3. /\ canWrite \in BOOLEAN /\ canStart \in BOOLEAN /\ canStop \in BOOLEAN
        /\ polling \in BOOLEAN /\ due \in BOOLEAN /\ (due => polling)
    BY <1>2, Zenon
  <2>4. function \in Functions /\ stage \in Stages /\ count \in 1..MaxCount /\ slave \in 0..MaxSlave
    BY <1>2, <2>1 DEF Functions, Stages
  <2>5. /\ mode \in {"tcp", "rtu"} /\ line \in Lines /\ slaveMin \in {0, 1}
        /\ operation \in {"none", "read", "write", "tick"} /\ wired \in Lines \cup {"none"}
        /\ rate \in Rates
    BY <1>2, <2>1
  <2> QED
    BY <1>4, <1>5, <2>2, <2>3, <2>4, <2>5, Zenon DEF DesktopTypeOK
<1>7. Held /\ Filling /\ Aimed /\ Slaves /\ Indexed /\ ClicksStopPolling
  BY <1>2 DEF Held, Filling, Aimed, Slaves, Indexed, ClicksStopPolling
<1>8. ButtonsTellPolling
  BY <1>2, Zenon DEF ButtonsTellPolling
<1> QED
  BY <1>1, <1>6, <1>7, <1>8 DEF DInv

LEMMA StepDInv == DInv /\ IInv /\ [Next]_desktopVars => (DInv /\ IInv)'
PROOF
<1> SUFFICES ASSUME DInv, IInv, [Next]_desktopVars PROVE DInv' /\ IInv'
  OBVIOUS
<1>1. IInv'
  BY CallStep, StepInvariant
<1>2. RuntimeTypeOK
  BY DEF IInv
<1>3. DInv'
  BY <1>2, WindowStep, HeldStep, FillingStep, AimedStep DEF DInv
<1> QED
  BY <1>1, <1>3

\* The inductive invariant of the window, with that of the runtime beneath it, for all
\* texts, counts and settings (mainwindow.cpp:390-507).
THEOREM WindowInvariant == Spec => [](DInv /\ IInv)
PROOF
<1> QED
  BY InitDInv, StepDInv, PTL DEF Spec

\* Every behaviour of the window is one of the library under a caller that keeps its
\* rules (mainwindow.cpp:390-507, 548-661 over mbpoll-runtime.c).
THEOREM WindowKeepsTheRules == Spec => KeepsTheRules
PROOF
<1>1. Init => RuntimeInit
  BY DEF Init
<1>2. DInv /\ [Next]_desktopVars => [Call]_runtimeVars
  BY CallStep
<1> QED
  BY <1>1, <1>2, WindowInvariant, PTL DEF Spec, KeepsTheRules, RuntimeSpec

\* Every variable of the window stays in its range, and the format is one that is
\* offered (mainwindow.cpp:290-368).
THEOREM WindowTypeCorrect == Spec => []DesktopTypeOK
PROOF
<1>1. DInv => DesktopTypeOK
  BY DEF DInv
<1> QED
  BY <1>1, WindowInvariant, PTL

\* Whichever calls of a handler fail, it returns without a connection, a block or rows:
\* the pointers are clear, and the runtime has nothing behind clear pointers
\* (mainwindow.cpp:390-467, 495-546).
THEOREM NothingIsHeld == Spec => []NothingHeldBetweenHandlers
PROOF
<1>1. DInv /\ IInv => NothingHeldBetweenHandlers
  BY DEF DInv, IInv, Held, NothingLeaks, NothingHeldBetweenHandlers
<1> QED
  BY <1>1, WindowInvariant, PTL

\* A read or a poll never uses the name of a device that is gone
\* (mainwindow.cpp:390-428, 509-546, 565-572).
THEOREM ReadsReachTheShownDevice == Spec => []ReadsAreOfTheShownDevice
PROOF
<1>1. DInv => ReadsAreOfTheShownDevice
  BY DEF DInv, Aimed, ReadsAreOfTheShownDevice
<1> QED
  BY <1>1, WindowInvariant, PTL

\* A write carries all the values of the text, for texts of any length
\* (mainwindow.cpp:605-661).
THEOREM WritesAreComplete == Spec => []WritesCarryAllValues
PROOF
<1>1. DInv => WritesCarryAllValues
  BY DEF DInv, Filling, FilledUpTo, WritesCarryAllValues
<1> QED
  BY <1>1, WindowInvariant, PTL

\* No request over RTU is a broadcast (mainwindow.cpp:304-320).
THEOREM NoBroadcast == Spec => []RtuNeverBroadcasts
PROOF
<1>1. DInv => RtuNeverBroadcasts
  BY DEF DInv, DesktopTypeOK, Slaves, RtuNeverBroadcasts
<1> QED
  BY <1>1, WindowInvariant, PTL

\* The buttons tell whether the timer runs, through failed first ticks and through
\* reads and writes that stop it (mainwindow.cpp:469-507).
THEOREM ButtonsAreTrue == Spec => []ButtonsTellPolling
PROOF
<1>1. DInv => ButtonsTellPolling
  BY DEF DInv
<1> QED
  BY <1>1, WindowInvariant, PTL

\* No poll runs into a read or a write that was clicked (mainwindow.cpp:397-399,
\* 434-436).
THEOREM ClicksAreAlone == Spec => []ClicksStopPolling
PROOF
<1>1. DInv => ClicksStopPolling
  BY DEF DInv
<1> QED
  BY <1>1, WindowInvariant, PTL

\* No step of a running handler ends the polling, whatever failed
\* (mainwindow.cpp:495-546).
THEOREM PollingSurvivesErrors == Spec => PollingOutlivesErrors
PROOF
<1>1. DInv /\ IInv /\ [Next]_desktopVars => [polling /\ ~polling' => stage = "idle"]_desktopVars
  <2> SUFFICES ASSUME DInv, IInv, [Next]_desktopVars, polling, ~polling'
               PROVE  stage = "idle"
    OBVIOUS
  <2>1. RuntimeTypeOK
    BY DEF IInv
  <2>2. CASE Edit \/ (Click \/ Tick)
    BY <2>2, EditFacts, BeginFacts
  <2>3. CASE Waits
    BY <2>3 DEF Waits
  <2>4. CASE ~(Edit \/ (Click \/ Tick) \/ Waits)
    <3>1. UNCHANGED buttons
      BY <2>1, <2>4, EveryStep, HandlerFacts
    <3> QED
      BY <3>1 DEF buttons, timer
  <2> QED
    BY <2>2, <2>3, <2>4
<1> QED
  BY <1>1, WindowInvariant, PTL DEF Spec, PollingOutlivesErrors

\* What RuntimeProofs shows of the library under any caller holds of it under the
\* window: no leak, no request or value outside its block, no row that names another
\* register (mainwindow.cpp:390-661 over mbpoll-runtime.c).
THEOREM WindowUsesTheLibraryWell ==
  Spec => []( /\ NothingLeaks /\ RequestsFitTheirBlocks /\ ValuesStayInTheirBlock
              /\ RowsCoverTheAnswer )
PROOF
<1>1. RuntimeSpec => []( /\ NothingLeaks /\ RequestsFitTheirBlocks /\ ValuesStayInTheirBlock
                         /\ RowsCoverTheAnswer )
  BY NeverLeaks, RequestsFit, ValuesFit, RowsCover, PTL
<1> QED
  BY <1>1, WindowKeepsTheRules, PTL DEF KeepsTheRules

-----------------------------------------------------------------------------
\* The calls a handler can still make before it returns.
CallsLeft ==
  CASE stage = "idle" -> 0
    [] stage = "return" -> 1
    [] stage \in {"unfill", "free"} -> 2
    [] stage = "close" -> 3
    [] stage = "release" -> 4
    [] stage = "request" -> 5
    [] stage = "open" -> 6
    [] stage = "fill" -> 7 + Len(values) - Cardinality(filled)
    [] stage = "allocate" -> 8 + Len(values)

\* While values are put in there are no more of them in the block than in the text.
LEMMA FilledFacts ==
  ASSUME DInv, stage = "fill"
  PROVE  /\ Len(values) \in Nat /\ NextIndex \in 0..Len(values)
         /\ filled = 0..(NextIndex - 1) /\ Cardinality(filled) = NextIndex
PROOF
<1>1. NextIndex \in 0..Len(values) /\ filled = 0..(NextIndex - 1) /\ Len(values) \in Nat
  BY NextIndexFacts DEF FilledUpTo
<1>2. Cardinality(0..(NextIndex - 1)) = NextIndex
  BY <1>1, FS_Interval
<1> QED
  BY <1>1, <1>2

LEMMA CallsLeftFacts ==
  ASSUME DInv
  PROVE  CallsLeft \in Nat /\ (stage = "fill" => CallsLeft >= 7) /\ Len(values) \in Nat
PROOF
<1>1. stage \in Stages /\ Len(values) \in Nat
  BY DEF DInv, DesktopTypeOK
<1>2. CASE stage = "fill"
  <2>1. CallsLeft = 7 + Len(values) - Cardinality(filled)
    BY <1>2 DEF CallsLeft
  <2> QED
    BY <1>2, <2>1, FilledFacts
<1>3. CASE stage # "fill"
  BY <1>1, <1>3 DEF CallsLeft, Stages
<1> QED
  BY <1>1, <1>2, <1>3

LEMMA FillOneRunsDown ==
  ASSUME DInv, FillOne
  PROVE  CallsLeft' < CallsLeft
PROOF
<1>1. /\ stage = "fill" /\ values' = values
      /\ SetWriteValueString(NextIndex)
      /\ NextIndex < Len(values)
      /\ stage' = (IF ret' = "ok" THEN "fill" ELSE "unfill")
  BY Zenon DEF FillOne, At, Then, widgets
<1>2. /\ Len(values) \in Nat /\ NextIndex \in 0..Len(values)
      /\ filled = 0..(NextIndex - 1) /\ Cardinality(filled) = NextIndex
  BY <1>1, FilledFacts
<1>3. PICK k \in Nat : k = NextIndex
  BY <1>2
<1>4. CallsLeft = 7 + Len(values) - k
  BY <1>1, <1>2, <1>3 DEF CallsLeft
<1>5. CASE stage' = "unfill"
  <2>1. CallsLeft' = 2
    BY <1>5 DEF CallsLeft
  <2> QED
    BY <1>1, <1>2, <1>3, <1>4, <2>1
<1>6. CASE stage' = "fill"
  <2>1. ret' = "ok"
    BY <1>1, <1>6
  <2>2. filled' = filled \cup {k}
    BY <1>1, <1>3, <2>1 DEF SetWriteValueString
  <2>3. filled' = 0..k
    BY <1>2, <1>3, <2>2
  <2>4. Cardinality(0..k) = k + 1
    BY <1>3, FS_Interval
  <2>5. CallsLeft' = 7 + Len(values) - (k + 1)
    BY <1>1, <1>6, <2>3, <2>4 DEF CallsLeft
  <2> QED
    BY <1>2, <1>3, <1>4, <2>5
<1> QED
  BY <1>1, <1>5, <1>6

\* The interval of the timer runs out, and nothing else happens.
RunsOut == ~due /\ due' /\ CallsLeft' = CallsLeft /\ UNCHANGED <<runtimeVars, widgets, handler>>

\* A handler ends, whichever of its calls fail: each of its steps leaves fewer calls to
\* make, and until it has returned nothing else happens in the window, except that the
\* interval of the timer may run out, once (mainwindow.cpp:390-467, 495-546, 605-661).
THEOREM HandlersEnd ==
  Spec => /\ [](CallsLeft \in Nat)
          /\ [][stage # "idle" => CallsLeft' < CallsLeft \/ RunsOut]_desktopVars
PROOF
<1>1. DInv => CallsLeft \in Nat
  BY CallsLeftFacts
<1>2. DInv /\ [Next]_desktopVars => [stage # "idle" => CallsLeft' < CallsLeft \/ RunsOut]_desktopVars
  <2> SUFFICES ASSUME DInv, Next, stage # "idle" PROVE CallsLeft' < CallsLeft \/ RunsOut
    OBVIOUS
  <2>1. Len(values) \in Nat
    BY CallsLeftFacts
  <2>2. ~(Edit \/ Click \/ Tick)
    <3>1. Edit => stage = "idle"
      BY DEF Edit, Idle, ChooseMode, ChooseFunction, ChooseFormat, EditDevice, EditLine, EditSlave,
             EditCount, EditValues, EditRate, EditPollRate
    <3>2. Click \/ Tick => stage = "idle"
      BY DEF Click, Tick, Idle, ReadClicked, WriteClicked, StartClicked, StopClicked
    <3> QED
      BY <3>1, <3>2
  <2>3. CASE Allocate
    <3>1. /\ stage = "allocate" /\ stage' \in {"fill", "return"} /\ values' = values
          /\ filled' = {}
      BY <2>3 DEF Allocate, At, Then, AllocateData, widgets
    <3>2. Cardinality({}) = 0
      BY FS_EmptySet
    <3> QED
      BY <2>1, <3>1, <3>2 DEF CallsLeft
  <2>4. CASE FillOne
    BY <2>4, FillOneRunsDown
  <2>5. CASE ShowCount
    <3>1. stage = "fill" /\ stage' = "open"
      BY <2>5, Zenon DEF ShowCount, At
    <3>2. CallsLeft >= 7 /\ CallsLeft \in Nat
      BY <3>1, CallsLeftFacts
    <3>3. CallsLeft' = 6
      BY <3>1 DEF CallsLeft
    <3> QED
      BY <3>2, <3>3
  <2>6. CASE OpenBus \/ ReadTheValues \/ WriteTheValues
    <3>1. \/ stage = "open" /\ stage' \in {"request", "free", "return"}
          \/ stage = "request" /\ stage' \in {"release", "close"}
      BY <2>6 DEF OpenBus, ReadTheValues, WriteTheValues, At, Then
    <3> QED
      BY <3>1 DEF CallsLeft
  <2>7. CASE Release \/ CloseBus \/ FreeBlock \/ Return
    <3>1. \/ stage = "release" /\ stage' = "close"
          \/ stage = "close" /\ stage' \in {"free", "return"}
          \/ stage \in {"unfill", "free"} /\ stage' = "return"
          \/ stage = "return" /\ stage' = "idle"
      BY <2>7 DEF Release, CloseBus, FreeBlock, Return, At
    <3> QED
      BY <3>1 DEF CallsLeft
  <2>8. CASE Elapse
    <3>1. ~due /\ due' /\ UNCHANGED <<runtimeVars, widgets, handler>>
      BY <2>8 DEF Elapse
    <3>2. UNCHANGED <<stage, values, filled>>
      BY <3>1 DEF runtimeVars, data, widgets, handler
    <3>3. CallsLeft' = CallsLeft
      BY <3>2, Zenon DEF CallsLeft
    <3> QED
      BY <3>1, <3>3 DEF RunsOut
  <2> QED
    BY <2>2, <2>3, <2>4, <2>5, <2>6, <2>7, <2>8 DEF Next, HandlerStep
<1> QED
  BY <1>1, <1>2, WindowInvariant, PTL DEF Spec

-----------------------------------------------------------------------------
\* How every handler takes its connection: with the settings of a new context, and to
\* the device shown unless the name of that device was lost before.
Taken ==
  /\ param.xRtu = "default" /\ wired \in {"none", "default"}
  /\ stage = "request" =>
       /\ wired = "default"
       /\ target = "shown" \/ (operation = "write" /\ param.sDevice = "dangling")

\* What a step does to the name of the device.
NameIsLostWithTheCount ==
  param.sDevice # "dangling" /\ param'.sDevice = "dangling" => stage = "fill" /\ count' # count

LEMMA TakenStep ==
  ASSUME DInv, DInv', RuntimeTypeOK, Taken, [Next]_desktopVars
  PROVE  Taken' /\ NameIsLostWithTheCount
PROOF
<1>a. /\ Applied.xRtu = "default" /\ Applied.sDevice \in {"given", "missing"}
      /\ Defaults.xRtu = "default" /\ Defaults.sDevice = "missing"
  BY DEF Applied, Defaults
<1>b. [Applied EXCEPT !.iCount = Len(values)].xRtu = "default"
      /\ [Applied EXCEPT !.iCount = Len(values)].sDevice \in {"given", "missing"}
  BY DEF Applied
<1>c. param \in Parameters \cup {Defaults}
  BY DEF RuntimeTypeOK, ContextOK
<1>1. CASE Edit \/ Waits
  <2>1. UNCHANGED <<param, wired, stage, target, operation>>
    BY <1>1, EditFacts DEF Waits, runtimeVars, bus, handler
  <2> QED
    BY <2>1 DEF Taken, NameIsLostWithTheCount
<1>2. CASE Click \/ Tick
  <2>1. \/ UNCHANGED <<runtimeVars, handler>>
        \/ /\ stage' # "request" /\ wired' = wired
           /\ \E q : NewContext(q) /\ q.xRtu = "default" /\ q.sDevice \in {"given", "missing"}
    BY <1>2, <1>a, <1>b
    DEF Click, Tick, ReadClicked, WriteClicked, StartClicked, StopClicked, Nothing, BeginRead, handler
  <2>2. CASE UNCHANGED <<runtimeVars, handler>>
    BY <2>2 DEF Taken, NameIsLostWithTheCount, runtimeVars, bus, handler
  <2>3. CASE ~UNCHANGED <<runtimeVars, handler>>
    <3>1. /\ stage' # "request" /\ wired' = wired
          /\ param'.xRtu = "default" /\ param'.sDevice # "dangling"
      BY <2>1, <2>3 DEF NewContext
    <3> QED
      BY <3>1 DEF Taken, NameIsLostWithTheCount
  <2> QED
    BY <2>2, <2>3
<1>3. CASE ShowCount
  <2>1. /\ stage = "fill" /\ stage' = "open" /\ wired' = wired
        /\ IF count' = count THEN UNCHANGED runtimeVars ELSE DeviceTextGone
    BY <1>3, Zenon DEF ShowCount, At
  <2>2. param' = param \/ (count' # count /\ param' = [param EXCEPT !.sDevice = "dangling"])
    BY <2>1 DEF runtimeVars, DeviceTextGone
  <2>3. param'.xRtu = "default"
    BY <1>c, <2>2 DEF Taken, Parameters, Defaults
  <2> QED
    BY <2>1, <2>2, <2>3 DEF Taken, NameIsLostWithTheCount
<1>4. CASE OpenBus
  <2>1. /\ stage = "open" /\ Open /\ param' = param /\ wired' = "default" /\ operation' = operation
        /\ stage' = "request" => ret' = "ok"
    BY <1>4 DEF OpenBus, At, Then, Open, Taken
  <2>2. stage' = "request" => target' = "shown" \/ param.sDevice = "dangling"
    BY <1>c, <2>1 DEF Open, Parameters, Defaults
  <2>3. stage' = "request" /\ operation # "write" => target' = "shown"
    BY <2>1 DEF DInv, Aimed, Held, Stages, DesktopTypeOK, ReadsAreOfTheShownDevice
  <2> QED
    BY <2>1, <2>2, <2>3 DEF Taken, NameIsLostWithTheCount
<1>5. CASE Return
  BY <1>5, <1>a DEF Return, NewContext, Taken, NameIsLostWithTheCount
<1>6. CASE Allocate \/ FillOne \/ FreeBlock
  <2>1. param' = param /\ stage' # "request" /\ wired' = wired
    BY <1>6 DEF Allocate, FillOne, FreeBlock, AllocateData, SetWriteValueString, FreeData, At, Then
  <2> QED
    BY <2>1 DEF Taken, NameIsLostWithTheCount
<1>7. CASE ReadTheValues \/ WriteTheValues \/ Release \/ CloseBus
  <2>1. param' = param /\ stage' # "request" /\ wired' = wired
    BY <1>7 DEF ReadTheValues, WriteTheValues, Release, CloseBus, ReadOnce, WriteOnce,
                ReadResultFree, Close, At
  <2> QED
    BY <2>1 DEF Taken, NameIsLostWithTheCount
<1> QED
  BY <1>1, <1>2, <1>3, <1>4, <1>5, <1>6, <1>7, EveryStep

LEMMA TakenAlways == Spec => []Taken /\ [][NameIsLostWithTheCount]_desktopVars
PROOF
<1>1. Init => Taken
  BY DEF Init, RuntimeInit, Defaults, Taken
<1>2. DInv /\ IInv /\ DInv' /\ Taken /\ [Next]_desktopVars
        => Taken' /\ [NameIsLostWithTheCount]_desktopVars
  BY TakenStep DEF IInv
<1> QED
  BY <1>1, <1>2, WindowInvariant, PTL DEF Spec

\* The serial settings of the window never matter: every connection is made with those
\* of a new context, so that it uses what is shown only where that is the default
\* (mainwindow.cpp:549-574, 582-583).
THEOREM SettingsNeverMatter ==
  Spec => [](/\ stage = "request" => wired = "default"
             /\ line = "default" => ConnectionsUseTheirSettings)
PROOF
<1>1. Taken => /\ stage = "request" => wired = "default"
               /\ line = "default" => ConnectionsUseTheirSettings
  BY DEF Taken, ConnectionsUseTheirSettings
<1> QED
  BY <1>1, TakenAlways, PTL

\* Only a write can miss the device shown, and only one whose number of values changed
\* the count in the window (mainwindow.cpp:552, 565-570, 652).
THEOREM OnlyANewCountLeadsAstray ==
  Spec => /\ [](WritesReachTheShownDevice \/ (operation = "write" /\ param.sDevice = "dangling"))
          /\ [][NameIsLostWithTheCount]_desktopVars
PROOF
<1>1. Taken => WritesReachTheShownDevice \/ (operation = "write" /\ param.sDevice = "dangling")
  BY DEF Taken, WritesReachTheShownDevice
<1> QED
  BY <1>1, TakenAlways, PTL

-----------------------------------------------------------------------------
\* A read sends its one request from a new context, with the count that is shown.
Counting ==
  /\ operation # "write" /\ stage \in {"open", "request"} =>
       tx = 0 /\ rx = 0 /\ err = 0 /\ param.iCount = count
  /\ ReadsShowWhatWasReceived

\* Whatever becomes of the request of a read, rows, counters and outcome agree.
LEMMA ReadFacts ==
  ASSUME DInv, RuntimeTypeOK, Counting, ReadTheValues
  PROVE  ReadsShowWhatWasReceived'
PROOF
<1>1. /\ stage = "request" /\ operation # "write" /\ count' = count
      /\ \E ref \in References : ReadOnce(ref)
  BY DEF ReadTheValues, At, widgets
<1> PICK ref \in References : ReadOnce(ref)
  BY <1>1
<1>2. tx = 0 /\ rx = 0 /\ err = 0 /\ param.iCount = count /\ rows = NoRows
  BY <1>1 DEF Counting, DInv, Held
<1> DEFINE Shown == [first |-> ref, step |-> StepOfRows, count |-> param.iCount]
<1>3. Shown # NoRows /\ Shown.count = param.iCount
  BY SizeFacts DEF NoRows, RuntimeTypeOK, ContextOK
<1>4. \/ rows' = NoRows /\ ret' = "error" /\ UNCHANGED <<tx, rx, err>>
      \/ rows' = NoRows /\ ret' = "error" /\ tx' = 1 /\ err' = 1 /\ rx' = 0
      \/ rows' = NoRows /\ ret' = "error" /\ tx' = 1 /\ err' = 0 /\ rx' = 0
      \/ rows' = Shown /\ ret' = "ok" /\ tx' = 1 /\ err' = 0 /\ rx' = 1
  BY <1>2 DEF ReadOnce, CountTransmission, NoMemoryForRows, counts
<1> QED
  BY <1>1, <1>2, <1>3, <1>4 DEF ReadsShowWhatWasReceived

LEMMA CountingStep ==
  ASSUME DInv, RuntimeTypeOK, Counting, [Next]_desktopVars
  PROVE  Counting'
PROOF
<1>0. Held
  BY DEF DInv
<1>1. CASE Edit
  <2>1. stage' = "idle"
    BY <1>1, EditFacts DEF handler
  <2> QED
    BY <2>1 DEF Counting, ReadsShowWhatWasReceived
<1>2. CASE Click \/ Tick
  <2>1. stage = "idle" /\ Applied.iCount = count
    BY <1>2, BeginFacts DEF Applied
  <2>2. \/ UNCHANGED <<stage, runtimeVars, count>> \/ stage' = "allocate"
        \/ NewContext(Applied) /\ stage' = "open" /\ count' = count
    BY <1>2
    DEF Click, Tick, ReadClicked, WriteClicked, StartClicked, StopClicked, Nothing, BeginRead,
        handler, widgets
  <2> QED
    BY <2>1, <2>2 DEF Counting, ReadsShowWhatWasReceived, NewContext
<1>3. CASE OpenBus
  <2>1. /\ stage = "open" /\ operation' = operation /\ UNCHANGED <<tx, rx, err, param, count>>
        /\ stage' \in {"request", "free", "return"}
    BY <1>3 DEF OpenBus, At, Then, Open, counts, widgets
  <2> QED
    BY <2>1 DEF Counting, ReadsShowWhatWasReceived
<1>4. CASE ReadTheValues
  <2>1. stage' = "release"
    BY <1>4 DEF ReadTheValues
  <2> QED
    BY <1>4, <2>1, ReadFacts DEF Counting
<1>5. CASE ShowCount
  <2>1. operation' = operation /\ stage = "fill" /\ stage' = "open"
    BY <1>5 DEF ShowCount, At
  <2> QED
    BY <1>0, <2>1 DEF Counting, ReadsShowWhatWasReceived, Held
<1>6. CASE \/ Allocate \/ FillOne \/ WriteTheValues
           \/ Release \/ CloseBus \/ FreeBlock \/ Return
  <2>1. stage' \notin {"open", "request", "release"}
    BY <1>6 DEF Allocate, FillOne, WriteTheValues, Release, CloseBus, FreeBlock, Return, Then
  <2> QED
    BY <2>1 DEF Counting, ReadsShowWhatWasReceived
<1>7. CASE Waits
  BY <1>7 DEF Counting, ReadsShowWhatWasReceived, Waits, runtimeVars, counts, widgets, handler
<1> QED
  BY <1>1, <1>2, <1>3, <1>4, <1>5, <1>6, <1>7, EveryStep, Zenon

\* A read that succeeds shows as many rows as the count in the window, of an answer that
\* was counted as received, and any other shows none, also when there was no memory for
\* the rows of an answer (mainwindow.cpp:413-424, 523-542, mbpoll-runtime.c:507-566).
THEOREM ReadsAreShownAsReceived == Spec => []ReadsShowWhatWasReceived
PROOF
<1>1. Init => Counting
  BY DEF Init, Counting, ReadsShowWhatWasReceived
<1>2. DInv /\ IInv /\ Counting /\ [Next]_desktopVars => Counting'
  BY CountingStep DEF IInv
<1>3. Counting => ReadsShowWhatWasReceived
  BY DEF Counting
<1> QED
  BY <1>1, <1>2, <1>3, WindowInvariant, PTL DEF Spec
=============================================================================
