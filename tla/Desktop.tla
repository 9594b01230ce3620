------------------------------ MODULE Desktop ------------------------------
(***************************************************************************)
(* The main window of mbpoll-desktop (src/desktop/mainwindow.cpp) over the *)
(* calls of MbPollRuntime: what the user may change and click, the poll    *)
(* timer, and the handlers, which run to their end one after another in    *)
(* the thread of the event loop.                                           *)
(*                                                                         *)
(* A handler starts with a click or a tick and then makes one call of the  *)
(* runtime in each step; stage names the next one.  The context it works   *)
(* on is a local variable, gone when it returns, but the device name in it *)
(* points into deviceBuffer, which is static: every signal that ends in    *)
(* updateSummary reassigns it.                                             *)
(*                                                                         *)
(* A definition named X_Y is X with the mistake Y in it: no action uses it,*)
(* and a property of a run is shown to fail when it takes X's place.       *)
(*                                                                         *)
(* Formats: "bin", "string", "dec" for every other 16-bit format and "int" *)
(* for both 32-bit ones.  The interval of the timer runs out by a step of  *)
(* its own (Elapse), at any moment; how long it is, the wording of         *)
(* messages and the log are left out.                                      *)
(***************************************************************************)
EXTENDS MbPollRuntime

CONSTANTS
  WideLimit,  \* 32-bit values one read may ask for (62)
  Rates,      \* the intervals of pollRateSpin; "default" is the first
  Writings    \* the texts of writeValuesEdit: which of their values are numbers

ASSUME DesktopAssumption ==
  /\ WideLimit \in Nat /\ 1 <= MaxSlave
  /\ 1..MaxCount \subseteq Counts /\ "default" \in Rates
  /\ \A v \in Writings : v \in Seq(BOOLEAN) /\ 1..Len(v) \subseteq Counts

VARIABLES
  \* The widgets.
  mode, device,    \* modeCombo, and whether its page names a host or device
  line,            \* baud rate, parity, data and stop bits, as one setting
  slave, slaveMin, \* slaveSpin and its minimum
  function, format, \* functionCombo, formatCombo
  count,           \* countSpin
  values,          \* writeValuesEdit: the number of values, and which are numbers
  rate,            \* pollRateSpin
  canWrite, canStart, canStop, \* writeButton, startPollButton, stopPollButton
  polling,         \* pollTimer is active
  due,             \* its interval has run out, and its timeout waits to be delivered
  \* The handler that runs.
  stage, operation,
  wired            \* the serial settings of the last connection

widgets == <<mode, device, line, slave, slaveMin, function, format, count, values, rate>>
timer == <<polling, due>>
buttons == <<canWrite, canStart, canStop, timer>>
handler == <<stage, operation, wired>>

desktopVars == <<runtimeVars, widgets, buttons, handler>>

Formats == {"bin", "dec", "string", "int"}
Stages == {"idle", "allocate", "fill", "unfill", "open", "request", "release", "close", "free",
           "return"}
NoDevice == [m \in {"tcp", "rtu"} |-> FALSE]

Writable(f) == f \in {"coil", "holdingReg"}

\* The formats updateFormatUi offers for a function; the first is the one it falls
\* back to.
Offered(f) ==
  IF UsesBinary(f) THEN <<"bin">>
  ELSE IF Writable(f) THEN <<"dec", "int">> ELSE <<"dec", "string", "int">>

\* A spin box keeps its value within its range.
Clamped(n, low, high) == IF n < low THEN low ELSE IF n > high THEN high ELSE n

Init ==
  /\ RuntimeInit
  /\ mode = "tcp" /\ device = NoDevice /\ line = "default"
  /\ slave = 1 /\ slaveMin = 0
  /\ function = "holdingReg" /\ format = "dec"
  /\ count = 1 /\ values = <<>> /\ rate = "default"
  /\ canWrite = TRUE /\ canStart = TRUE /\ canStop = FALSE
  /\ polling = FALSE /\ due = FALSE
  /\ stage = "idle" /\ operation = "none" /\ wired = "none"

-----------------------------------------------------------------------------
(***************************************************************************)
(* The user changes a widget, between two handlers.                        *)
(***************************************************************************)
Idle == stage = "idle"
Untouched == UNCHANGED <<runtimeVars, handler>>

ChooseMode_KeepsSlave(m) ==
  /\ Idle /\ Untouched
  /\ mode' = m
  /\ slaveMin' = IF m = "rtu" THEN 1 ELSE 0
  /\ UNCHANGED <<device, line, slave, function, format, count, values, rate, buttons>>

\* updateTransportUi: RTU has no slave 0.
ChooseMode(m) ==
  /\ Idle /\ Untouched
  /\ mode' = m
  /\ slaveMin' = IF m = "rtu" THEN 1 ELSE 0
  /\ slave' = Clamped(slave, slaveMin', MaxSlave)
  /\ UNCHANGED <<device, line, function, format, count, values, rate, buttons>>

ChooseFunction_KeepsFormat(f) ==
  /\ Idle /\ Untouched
  /\ function' = f
  /\ canWrite' = Writable(f)
  /\ UNCHANGED <<mode, device, line, slave, slaveMin, format, count, values, rate,
                 canStart, canStop, timer>>

\* updateFormatUi: the format stays if the function still offers it.
ChooseFunction(f) ==
  /\ Idle /\ Untouched
  /\ function' = f
  /\ format' = IF \E n \in 1..Len(Offered(f)) : Offered(f)[n] = format
               THEN format ELSE Offered(f)[1]
  /\ canWrite' = Writable(f)
  /\ UNCHANGED <<mode, device, line, slave, slaveMin, count, values, rate,
                 canStart, canStop, timer>>

ChooseFormat(x) ==
  /\ Idle /\ Untouched
  /\ \E n \in 1..Len(Offered(function)) : Offered(function)[n] = x
  /\ format' = x
  /\ UNCHANGED <<mode, device, line, slave, slaveMin, function, count, values, rate, buttons>>

EditDevice(named) ==
  /\ Idle /\ Untouched
  /\ device' = [device EXCEPT ![mode] = named]
  /\ UNCHANGED <<mode, line, slave, slaveMin, function, format, count, values, rate, buttons>>

EditLine(x) ==
  /\ Idle /\ Untouched
  /\ mode = "rtu" /\ line' = x
  /\ UNCHANGED <<mode, device, slave, slaveMin, function, format, count, values, rate, buttons>>

EditSlave(n) ==
  /\ Idle /\ Untouched
  /\ slave' = Clamped(n, slaveMin, MaxSlave)
  /\ UNCHANGED <<mode, device, line, slaveMin, function, format, count, values, rate, buttons>>

EditCount(n) ==
  /\ Idle /\ Untouched
  /\ count' = Clamped(n, 1, MaxCount)
  /\ UNCHANGED <<mode, device, line, slave, slaveMin, function, format, values, rate, buttons>>

EditValues(v) ==
  /\ Idle /\ Untouched
  /\ values' = v
  /\ UNCHANGED <<mode, device, line, slave, slaveMin, function, format, count, rate, buttons>>

\* pollTimer->start, which starts an active timer over.
StartTimer == polling' = TRUE /\ due' = FALSE

\* The interval is edited: an active timer is started over, and a timeout that was
\* waiting is gone with the old one.
EditPollRate(x) ==
  /\ Idle /\ Untouched
  /\ x # rate /\ rate' = x
  /\ IF polling THEN StartTimer ELSE UNCHANGED timer
  /\ UNCHANGED <<mode, device, line, slave, slaveMin, function, format, count, values,
                 canWrite, canStart, canStop>>

-----------------------------------------------------------------------------
(***************************************************************************)
(* applyUiToContext on a new context: the serial settings are not copied,  *)
(* and coils and discrete inputs are binary whatever the format.           *)
(***************************************************************************)
Applied ==
  [ eFunction |-> function, bWide |-> format = "int" /\ ~UsesBinary(function),
    iCount |-> count,
    sDevice |-> IF device[mode] THEN "given" ELSE "missing", xRtu |-> "default" ]

\* prepareReadContext: a device is named, and a read of 32-bit values fits a frame.
CanBePrepared ==
  /\ device[mode]
  /\ ~UsesBinary(function) /\ format = "int" => count <= WideLimit

\* stopPolling.
StopPolling ==
  polling' = FALSE /\ due' = FALSE /\ canStart' = TRUE /\ canStop' = FALSE /\ UNCHANGED canWrite

StopIfPolling ==
  IF polling THEN StopPolling ELSE UNCHANGED buttons

BeginRead_Summarised(op) ==
  /\ NewContext([Applied EXCEPT !.sDevice = IF @ = "given" THEN "dangling" ELSE @])
  /\ stage' = "open" /\ operation' = op
  /\ UNCHANGED <<wired, widgets>>

\* What readOnce and pollTick begin with.
BeginRead(op) ==
  /\ NewContext(Applied)
  /\ stage' = "open" /\ operation' = op
  /\ UNCHANGED <<wired, widgets>>

Nothing == UNCHANGED <<runtimeVars, widgets, handler>>

ReadClicked_Polling ==
  /\ Idle
  /\ UNCHANGED buttons
  /\ IF CanBePrepared THEN BeginRead("read") ELSE Nothing

ReadClicked ==
  /\ Idle
  /\ StopIfPolling
  /\ IF CanBePrepared THEN BeginRead("read") ELSE Nothing

\* writeOnce: the context is prepared as for a read, with the count of the spin box,
\* and then counts the values of the text.
WriteClicked ==
  /\ Idle /\ canWrite
  /\ StopIfPolling
  /\ IF Writable(function) /\ CanBePrepared /\ values # <<>>
     THEN /\ NewContext([Applied EXCEPT !.iCount = Len(values)])
          /\ stage' = "allocate" /\ operation' = "write"
          /\ UNCHANGED <<wired, widgets>>
     ELSE Nothing

StartClicked_KeepsButtons ==
  /\ Idle /\ canStart
  /\ IF CanBePrepared
     THEN /\ StartTimer /\ canStart' = FALSE /\ canStop' = TRUE /\ UNCHANGED canWrite
          /\ BeginRead("tick")
     ELSE /\ polling' = FALSE /\ due' = FALSE
          /\ canStart' = FALSE /\ canStop' = TRUE /\ UNCHANGED canWrite
          /\ Nothing

\* startPolling, whose first tick is part of it; parameters that do not do stop the
\* polling again.
StartClicked ==
  /\ Idle /\ canStart
  /\ IF CanBePrepared
     THEN /\ StartTimer /\ canStart' = FALSE /\ canStop' = TRUE /\ UNCHANGED canWrite
          /\ BeginRead("tick")
     ELSE StopPolling /\ Nothing

StopClicked ==
  /\ Idle /\ canStop
  /\ StopPolling /\ Nothing

\* The interval of an active timer runs out, also while a handler runs: its timeout
\* waits until the event loop is back.
Elapse ==
  /\ polling /\ ~due /\ due' = TRUE
  /\ UNCHANGED <<runtimeVars, widgets, handler, canWrite, canStart, canStop, polling>>

\* pollTick, when the timeout is delivered; the interval runs again from there.
Tick ==
  /\ Idle /\ due
  /\ IF CanBePrepared
     THEN BeginRead("tick") /\ due' = FALSE /\ UNCHANGED <<canWrite, canStart, canStop, polling>>
     ELSE StopPolling /\ Nothing

-----------------------------------------------------------------------------
(***************************************************************************)
(* The steps of a handler.  Each makes one call and looks at its result.   *)
(***************************************************************************)
At(s) == stage = s /\ UNCHANGED operation
Then(next, otherwise) == stage' = IF ret' = "ok" THEN next ELSE otherwise

Allocate_BeforeTheCount ==
  /\ At("allocate")
  /\ pvData' = DataSize([param EXCEPT !.iCount = count]) /\ blocks' = blocks + 1
  /\ filled' = {} /\ ret' = "ok" /\ stage' = "fill"
  /\ UNCHANGED <<param, bus, rows, counts, wire, wired, widgets, buttons>>

Allocate ==
  /\ At("allocate") /\ AllocateData
  /\ Then("fill", "return")
  /\ UNCHANGED <<wired, widgets, buttons>>

\* The first index parseWriteValues has not filled.
NextIndex == CHOOSE n \in 0..Len(values) : n \notin filled /\ \A a \in 0..(n - 1) : a \in filled

\* One value of the text: a number goes into the block, anything else ends it.
FillOne ==
  /\ At("fill") /\ NextIndex < Len(values)
  /\ SetWriteValueString(NextIndex)
  /\ ret' = IF values[NextIndex + 1] THEN "ok" ELSE "error"
  /\ Then("fill", "unfill")
  /\ UNCHANGED <<wired, widgets, buttons>>

ShowCount_TooSoon ==
  /\ At("fill") /\ NextIndex >= Len(values) - 1
  /\ count' = Clamped(Len(values), 1, MaxCount)
  /\ IF count' = count THEN UNCHANGED runtimeVars ELSE DeviceTextGone
  /\ stage' = "open"
  /\ UNCHANGED <<mode, device, line, slave, slaveMin, function, format, values, rate,
                 wired, buttons>>

\* countSpin->setValue: a new count makes the window apply itself to another
\* context, and the device name of this one is gone.
ShowCount ==
  /\ At("fill") /\ NextIndex = Len(values)
  /\ count' = Clamped(Len(values), 1, MaxCount)
  /\ IF count' = count THEN UNCHANGED runtimeVars ELSE DeviceTextGone
  /\ stage' = "open"
  /\ UNCHANGED <<mode, device, line, slave, slaveMin, function, format, values, rate,
                 wired, buttons>>

OpenBus_StopsPolling ==
  /\ At("open") /\ Open
  /\ Then("request", IF operation = "write" THEN "free" ELSE "return")
  /\ IF ret' = "ok" THEN UNCHANGED buttons ELSE StopIfPolling
  /\ wired' = param.xRtu
  /\ UNCHANGED widgets

OpenBus_KeepsBlock ==
  /\ At("open") /\ Open
  /\ Then("request", "return")
  /\ wired' = param.xRtu
  /\ UNCHANGED <<widgets, buttons>>

\* iMbPollOpen: a write frees its block before it gives up.
OpenBus ==
  /\ At("open") /\ Open
  /\ Then("request", IF operation = "write" THEN "free" ELSE "return")
  /\ wired' = param.xRtu
  /\ UNCHANGED <<widgets, buttons>>

ReadTheValues ==
  /\ At("request") /\ operation # "write"
  /\ \E ref \in References : ReadOnce(ref)
  /\ stage' = "release"
  /\ UNCHANGED <<wired, widgets, buttons>>

WriteTheValues ==
  /\ At("request") /\ operation = "write"
  /\ WriteOnce
  /\ stage' = "close"
  /\ UNCHANGED <<wired, widgets, buttons>>

Release ==
  /\ At("release") /\ ReadResultFree
  /\ stage' = "close"
  /\ UNCHANGED <<wired, widgets, buttons>>

CloseBus_Retries ==
  /\ At("close") /\ Close
  /\ stage' = IF operation = "write" THEN "free" ELSE IF ret = "error" THEN "open" ELSE "return"
  /\ UNCHANGED <<wired, widgets, buttons>>

CloseBus ==
  /\ At("close") /\ Close
  /\ stage' = IF operation = "write" THEN "free" ELSE "return"
  /\ UNCHANGED <<wired, widgets, buttons>>

FreeBlock ==
  /\ stage \in {"unfill", "free"} /\ UNCHANGED operation
  /\ FreeData
  /\ stage' = "return"
  /\ UNCHANGED <<wired, widgets, buttons>>

\* The local context goes out of scope, with whatever it still points to.
Return ==
  /\ stage = "return"
  /\ NewContext(Defaults)
  /\ stage' = "idle" /\ operation' = "none" /\ wired' = "none"
  /\ UNCHANGED <<widgets, buttons>>

-----------------------------------------------------------------------------
EditRate == \E x \in Rates : EditPollRate(x)

Edit ==
  \/ \E m \in {"tcp", "rtu"} : ChooseMode(m)
  \/ \E f \in Functions : ChooseFunction(f)
  \/ \E x \in Formats : ChooseFormat(x)
  \/ \E named \in BOOLEAN : EditDevice(named)
  \/ \E x \in Lines : EditLine(x)
  \/ \E n \in {0, 1} : EditSlave(n)
  \/ \E n \in Counts : EditCount(n)
  \/ \E v \in Writings : EditValues(v)
  \/ EditRate

Click == ReadClicked \/ WriteClicked \/ StartClicked \/ StopClicked

HandlerStep ==
  \/ Allocate \/ FillOne \/ ShowCount \/ OpenBus
  \/ ReadTheValues \/ WriteTheValues \/ Release \/ CloseBus \/ FreeBlock \/ Return

Next == Edit \/ Click \/ Elapse \/ Tick \/ HandlerStep

Spec == Init /\ [][Next]_desktopVars

\* The event loop runs a handler to its end and delivers a timeout that waits.  The
\* interval runs out, unless edits of the poll rate start it over again and again.
Fairness ==
  /\ WF_desktopVars(HandlerStep) /\ WF_desktopVars(Tick)
  /\ WF_desktopVars(Elapse) \/ []<><<EditRate>>_desktopVars

FairSpec == Spec /\ Fairness
-----------------------------------------------------------------------------
(***************************************************************************)
(* What holds.                                                             *)
(***************************************************************************)
\* Every variable stays in its range, and the format is one the function offers.
DesktopTypeOK ==
  /\ mode \in {"tcp", "rtu"} /\ device \in [{"tcp", "rtu"} -> BOOLEAN]
  /\ line \in Lines /\ slave \in 0..MaxSlave /\ slaveMin \in {0, 1}
  /\ function \in Functions
  /\ \E n \in 1..Len(Offered(function)) : Offered(function)[n] = format
  /\ count \in 1..MaxCount /\ values \in Seq(BOOLEAN) /\ rate \in Rates
  /\ canWrite \in BOOLEAN /\ canStart \in BOOLEAN /\ canStop \in BOOLEAN
  /\ polling \in BOOLEAN /\ due \in BOOLEAN /\ (due => polling)
  /\ stage \in Stages /\ operation \in {"none", "read", "write", "tick"}
  /\ wired \in Lines \cup {"none"}

\* A handler hands back what it took: whichever of its calls failed, no connection,
\* no block of values and no rows outlive it.
NothingHeldBetweenHandlers ==
  stage = "idle" => buses = 0 /\ blocks = 0 /\ rows = NoRows

\* The window keeps the rules of the runtime's caller, so that what is shown of the
\* runtime for any caller holds of the window.
KeepsTheRules == RuntimeSpec

\* A read, asked for or polled, goes to the device the window shows, though the
\* name is in memory every change of a widget replaces.
ReadsAreOfTheShownDevice ==
  stage = "request" /\ operation # "write" => target = "shown"

\* What a read or a poll shows is what was received: it succeeds exactly when it has
\* rows, has them exactly when an answer was counted, and then as many as the count
\* shown.  An answer there was no memory for is transmitted, shown as nothing, and
\* counted neither as received nor as an error.
ReadsShowWhatWasReceived ==
  stage = "release" =>
    /\ ret = "ok" <=> rows # NoRows
    /\ rows # NoRows <=> rx = 1
    /\ rows # NoRows => rows.count = count
    /\ rx + err <= tx

\* A write carries every value of the text: none is left out, and none is sent when
\* one of them is no number.
WritesCarryAllValues ==
  stage = "request" /\ operation = "write" =>
    /\ filled = 0..(Len(values) - 1) /\ param.iCount = Len(values)
    /\ \A n \in 1..Len(values) : values[n]

\* No request over RTU is a broadcast, whatever the slave was before RTU was chosen.
RtuNeverBroadcasts == stage # "idle" /\ mode = "rtu" => slave > 0

\* The two poll buttons tell whether the timer runs, also when the first tick or a
\* later one ended the polling.
ButtonsTellPolling == canStop = polling /\ canStart = ~polling

\* A read or a write that was clicked never runs into a poll.
ClicksStopPolling == stage # "idle" /\ operation \in {"read", "write"} => ~polling

\* A device that cannot be reached or does not answer never ends the polling: only
\* a click does, or parameters that are no longer good when a tick begins.
PollingOutlivesErrors == [][polling /\ ~polling' => stage = "idle"]_desktopVars

\* While the timer runs one poll follows another, and none waits for a device, unless
\* the poll rate is edited again and again: each edit starts the interval over.
PollingGoesOn ==
  \/ polling ~> (stage = "return" /\ operation = "tick") \/ ~polling
  \/ []<><<EditRate>>_desktopVars

-----------------------------------------------------------------------------
(***************************************************************************)
(* What the documentation says and the code does not do.                   *)
(***************************************************************************)
\* README.md, GUI scope: single or multiple writes, to the host or device shown.
WritesReachTheShownDevice == stage = "request" => target = "shown"

\* README.md, GUI scope: "host/device, port/baudrate".
ConnectionsUseTheirSettings == stage = "request" /\ mode = "rtu" => wired = line
=============================================================================
