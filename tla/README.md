# mbpoll in TLA+

mbpoll is a Modbus master: a command line program (`src/mbpoll.c`) that polls
slaves over TCP or a serial line, a library with the same operations
(`src/mbpoll-runtime.c`) and a Qt window over that library
(`desktop/mainwindow.cpp`). libmodbus does the protocol.

This directory holds TLA+ modules translated from that code, configurations
that check them with TLC, and proofs checked by TLAPS. `PROJECT.json` ties every
definition to the lines it models, and lists the runs, the hazards, the findings
and the theorems.

    tlc -config PollLoop.cfg MCPollLoop.tla
    tlapm PollLoopProofs.tla

## 1. Inventory

| Component | Source | State it keeps | Operations | Status |
|---|---|---|---|---|
| poll loop and main | `src/mbpoll.c:425-640,713-776,887-922` | the context: bus, `pvData`, counters, `g_bExitSignal`; loop indexes, `batch_buffer` | open, poll rounds, single write, report of a slave id, SIGINT, cleanup, failure exit | modelled |
| argument parser | `src/mbpoll.c:206-248,399-423,1119-1615` | the context, the block of the values to write | `parse_args`, the address checks of `main` | modelled |
| integer lists | `src/utils.c:52-176` | none | `iGetIntList` | modelled |
| runtime library | `src/mbpoll-runtime.c` | `xMbPollContext`, `xMbPollReadResult` | init, allocate, set values, open, close, read, write, free | modelled |
| value codec | `iMbPollSetWriteValueString`, `iMbPollFormatBufferValue`, the conversions of `parse_args`, `lSwapLong`, `fSwapFloat` | none | text to registers, registers to text | modelled |
| desktop window | `desktop/mainwindow.cpp` | widgets, poll timer, static `deviceBuffer` | edits, clicks, ticks | modelled, but for its labels, its log and two check boxes |
| failure exit | `src/utils.c:28-54` | the current context | `vFailureExit`, `vSyntaxErrorExit` | in `PollLoop` |
| serial attributes | `src/serial.c` | none | names of attributes, `sSerialAttrStr` | not modelled: text |
| ChipIo bridge | `src/mbpoll.c:1474-1508`, `src/chipio.c` (`USE_CHIPIO`) | I2C link, serial handle | set-up, close | set-up modelled |
| GPIO RTS | `src/custom-rts.c` | GPIO file | init, set | not modelled |
| getopt | `3rdparty/getopt` | | | third party |
| tests | `tests/` | | | read as a reference |

How they interact. `main` calls `parse_args`, then `iMbPollOpen` of the runtime,
then runs the loop itself with direct calls of libmodbus; only the single write
goes through `iMbPollWriteOnce`. The signal handler shares one flag with the
loop. The failure exit reaches the context through a pointer kept in `utils.c`
and cleans it up. The window builds a context on its stack for each operation,
calls the runtime, and releases everything before it returns to the event loop;
its handlers share the widgets, the timer and a static buffer for the device
name.

What is hard in it:

- *Memory behind one pointer.* `ctx.pvData` is a heap block, and during the
  printing of a batch the address of a stack buffer; two ways out free it.
- *Batches.* Contiguous references share a request. Where a batch ends, what its
  request asks for and where each value is found in the answer are computed in
  three places.
- *SIGINT* at any moment: while a request is on the bus, between the look at the
  flag and the request, before the handler is installed.
- *Two passes over one text* in `iGetIntList`: the second trusts the first, and
  what it trusts is an int that may have wrapped.
- *Options in any order* that overrule each other, a device name that chooses the
  mode after the addresses were read, checks spread from the option to `main`.
- *Two readers of values*, `parse_args` and the library, and a path from a text to a
  register with a base, a range, a cast, a word order and an index in it.
- *Every call may fail* after earlier ones took a connection, a block or rows.
- *Signals inside handlers*: a widget changed by the program runs the slots of
  the window in the middle of a handler.

What makes each component correct:

- poll loop: no wild free; a value printed is the value of the register it is
  labelled with; requests go to the slave whose turn it is; SIGINT stops the
  program soon; success means that all was shown; every slave keeps its turn.
- argument parser: what is accepted is what the loop can do, and means what the
  options say; no request goes to slave 0 of a bus unasked, and no write to more than
  one slave.
- value codec: a value that is written and read back is the one that was typed; the
  two readers accept the same texts.
- integer lists: the cells written are the cells allocated; only legal texts are
  accepted; the list is the one described.
- runtime: nothing leaks for any order of calls; no request reads or writes
  beyond its block; an answer without memory for its rows is no success.
- window: nothing is held between handlers; operations use what the window shows;
  what is shown was received; the buttons tell the truth; polling goes on through
  errors and stops on a click.

## 2. Modules

    MbPollContext          the context, and what parse_args lets through
      |-- Values           texts to registers and back
      |     |-- ValuesProofs
      |     `-- CommandLine    parse_args, and a write up to its frame
      |           |-- CommandProofs -- WriteProofs
      |           `-- MCCommandLine
      |-- PollPromise      what the loop promises (abstract)
      |-- PollLoop         main                       -- implements PollPromise
      |     |-- PollLoopProofs -- PromiseProofs
      |     `-- MCPollLoop
      `-- MbPollRuntime    the library, any caller (abstract caller)
            |-- RuntimeProofs
            |-- MCRuntime
            `-- Desktop    the window over the library -- implements RuntimeSpec
                  |-- DesktopProofs (also over RuntimeProofs)
                  `-- MCDesktop
    IntList                iGetIntList
      |-- IntListProofs
      `-- MCIntList

A definition named `X_Y` is `X` with a plausible mistake `Y` in it. No action uses
it; each property of a run is shown to fail when one of them takes the place of
`X` (`PROJECT.json`, "mutants"). It is there so that a property that nothing
could break is noticed.

### CommandLine

One behaviour is one command line, from the first option to the call of the loop,
and, when it is a write, to the frame `iMbPollWriteOnce` sends.

| Actions | Code |
|---|---|
| `Option`, `Information` | the getopt loop 1254-1424, one option a step |
| `EndOfOptions` | default reference, range of the references, what overrules what 1426-1457 |
| `TakeDevice`, `DeviceMissing` | the device and the mode it chooses 1459-1476 |
| `SetUpBridge` | the ChipIo bridge, one call a step 1478-1508 |
| `CountValues`, `ConvertValue` | the values to write 1513-1595 |
| `CheckLists` | 1598-1614 |
| `CheckAddresses` | the top of `main` 399-423 |
| `WriteOnce` | the frame, `mbpoll-runtime.c:589-625` |

Every way out of `parse_args` is in it: an argument that is no number or out of
range, no memory (for a list, a default, the block), a device or a bridge that is
not there. A refusal frees the block and the lists, and nothing else (`Refuse`).
What an option's argument is made of is abstracted to what decides: a list of
numbers, a name, or `"illegal"`; `IntList` is how a list is read. The library call
`getopt` sorts options before arguments, so a negative value has to follow `--`,
as doc/mbpoll.1 says.

`ValidContext`, the assumption under which the loop is checked and proved, is a
result here: `AcceptedIsValid`. It sets one case aside, an empty list that is looked
into, where the program reads through a null pointer (`LooksIntoEmptyList`): it does not
speak of that hazard, and `PROJECT.json` lists it without a property.

The count `iGetIntList` returns is an int that may have wrapped (`ListCount`). A count
of -1, as of `-r 0:2147483647,0:2147483646`, comes with no list and is the mark of an
option that was not given, so the default takes its place: the text `"wrapped"`. Every other
count below 1 is an empty list, which no comparison of the program tells from a count
of 0. A count that wrapped to 1 or more comes with a block too small, which is the
matter of `IntList`.

### Values

Operators: how each of the two readers takes a text (`CliAccepts`,
`LibraryAccepts`), the cells a number takes (`Cells`, `Store`), and what is shown for
them (`Shown`). A byte has `ByteSize` values, a register two bytes, an int two
registers. A text is what `strtol` in base 10 and 0 and `strtod` make of it. A float is
a number that loses its last digit when it is stored, so that a conversion left
out shows.

### PollLoop

One behaviour is one run of the program after `parse_args`. The process is
sequential, so `pc` names the point it has reached and each action is the code up
to the next point at which something else can happen (a SIGINT, an answer) or a
loop goes round:

| Actions | Code |
|---|---|
| `Open`, `InstallHandler` | 425-440 |
| `Round`, `Until` | the `do ... while` 452-634 |
| `BeginTurn`, `EndRound`, `EndTurn`, `Delay` | the loop over slaves 474-631 |
| `BeginBatch`, `ExtendBatch`, `CloseBatch` | finding a batch and checking it 505-561 |
| `SendRequest`, `Answered`, `NotAnswered` | the request 562-622 |
| `PrintReference`, `EndBatch` | the values 594-609 |
| `WriteOnce` | `iMbPollWriteOnce` 452-469 and `mbpoll-runtime.c:569-636` |
| `SetReportedSlave`, `ReportSlaveID` | `vReportSlaveID` 713-776 |
| `Cleanup`, `Fail` | `vCleanup`, `vFailureExit` |
| `SigInt`, `KilledBySigInt` | `vSigIntHandler`; the default action before it is installed |

The answer of a device is a choice: what was asked, or anything else. `sent`,
`late`, `failed`, `outcome` and `lines` are what an observer sees; no guard
reads them. A register is identified by its slave and its address, so
`buffer` says whose registers `batch_buffer` holds, and `lines` which registers
each printed value was built from.

### PollPromise

The abstract specification: slaves in turn; in a turn, blocks, each the longest
run of references one request carries, answered or failed as a whole; each
reference of an answered block shown, in order. It knows neither batch indexes
nor buffers nor counters. `PollLoop!KeepsPromise` is the refinement: `next` is
the slave index (already advanced while the loop delays), `phase` a function of
`pc`, `outcome` the observed one.

### IntList

A text is a sequence of items: the number `strtol` finds (or that it finds none)
and the character after it. The first pass counts, the second writes. An int keeps
its width: `Cast` is the assignment of strtol's long, and of a sum that wraps;
`AssignForever` is the loop that cannot end, over a range up to `INT_MAX`. `iList` is
what the second pass wrote: its length past `iCount` is an overrun of the block.
`seen` is a history variable, what the first pass knew before each item; the proof
needs it and no guard reads it. `Expansion` is the reference: what a text says by
itself, item by item, as a recursive function of its length.

### MbPollRuntime

The calls on one context and one read result, each one action with all its
failures. `buses` and `blocks` count what exists behind the pointers, so a
pointer overwritten without a free shows as a difference. `Call` is a caller
that makes any call at any time, under the rules stated at the head of the
module.

### Desktop

The window is an event loop: an edit, a click or a tick happens when no handler
runs (`stage = "idle"`); a handler is then a chain of steps, one runtime call
each, with the code's early returns. `DeviceTextGone` is what `updateSummary` does
to a context in use, when it reassigns the static buffer its device name points
into; `ShowCount` is the one place where that happens inside a handler.

The poll timer is `polling`, that it is active, and `due`, that its interval has run
out and the timeout waits for the event loop. `Elapse` is the end of the interval, at
any moment, also while a handler runs; `Tick` is the delivery. `EditPollRate` is the slot
of `pollRateSpin` (250-255): it starts an active timer over, and with that drops a
timeout that was due.

`KeepsTheRules` is the refinement: every behaviour of the window is one of
`RuntimeSpec`, so what the run `runtime` shows for any caller holds of the window.

## 3. Runs

Passing runs.

| Run | What it checks | Distinct states |
|---|---|---|
| `poll` | safety and liveness of `PollLoop`, its refinement of `PollPromise` | 119 000 |
| `int_list` | `IntList`: the passes agree, legality, the list against a reference definition | 14 000 |
| `command_line` | `CommandLine`: every line of three options and two values | 3 956 000 |
| `runtime` | `MbPollRuntime` under any caller | 24 000 |
| `desktop` | safety and liveness of `Desktop`, its refinement of `RuntimeSpec` | 61 000 |

Properties of `poll`: `OnlyTheBlockIsFreed` (both ways out),
`ValuesAreTheirRegisters`, `RequestsGoToTheSlave`, `AtMostOneLateRequest` (after
SIGINT), `StatisticsMissAtMostOne`, `SuccessMeansAllShown`,
`ChecksOnlyStopWideReads` (the internal checks of the loop never fire but for a
known case), `NothingIsRedone` (no retry, no second turn in a round);
`SigIntEnds`, `OneShotEnds`, `EverySlaveIsPolled`, `KeepsPromise`.

Properties of `int_list`: `PassesAgree`, `OnlyLegalTexts`, `ListIsTheExpansion`.
The first and the last speak of texts that are closed and whose integers an int can
count (`Countable`), the last also of numbers that fit an int; what lies beyond is a text of more than 2 147 483 647 integers, for
which the second pass writes past its block.

Properties of `command_line`: `AcceptedIsValid`, `MeansWhatItSays` (each parameter is
what its option says, whatever the order, unless overruled; a write exactly when
there are values), `WrittenIsWhatWasTyped` (the frame, read back with the same
options), `LibraryAgrees`, `NoHalfSetUpBridge`, `BroadcastsAreAskedFor` (slave 0 on a
serial bus only with `-Q`). `LibraryAgrees` states the one difference there is:
`parse_args` ignores what follows a number (`12abc` is 12), the library refuses it.

Properties of `runtime`: `NothingLeaks`, `RequestsFitTheirBlocks`,
`ValuesStayInTheirBlock`, `RowsCoverTheAnswer`.

Properties of `desktop`: `NothingHeldBetweenHandlers`,
`ReadsAreOfTheShownDevice` (the device alone; slave, function and reference are read
from the widgets within the handler), `ReadsShowWhatWasReceived` (a read succeeds exactly
when an answer was counted and its rows are there), `WritesCarryAllValues`,
`RtuNeverBroadcasts`, `ButtonsTellPolling`, `ClicksStopPolling`, `KeepsTheRules` (each
step is a call the rules of the library allow: a block of the wrong count breaks it, and
leaks nothing), `PollingOutlivesErrors`, `PollingGoesOn` (unless the poll rate is
edited for ever).

`iTxCount` is not the sum of `iRxCount` and `iErrorCount` in the library. When the rows
of an answer cannot be allocated (`NoMemoryForRows`, `mbpoll-runtime.c:546-550`), the
request was counted as transmitted and is counted as neither of the others. That is the
`rx + err <= tx` of `ReadsShowWhatWasReceived`; no document says that the counters of the
library add up, and the window shows none of them.

Runs that end in a violation: the property is a sentence of the repository's
documentation or comments, and the trace is what the code does instead.

| Run | Statement | What the code does |
|---|---|---|
| `poll_statistics` | README.md:209, "4 frames transmitted, 4 received ... 0.0% frame loss" | transmissions are counted per turn, receptions per request: a list that takes two requests per turn yields more received than transmitted and a negative loss |
| `exit_status` | doc/mbpoll.1:294, "All frames were received without errors" | a failed report of a slave id is not counted, and the status is 0 |
| `wide_counts` | doc/mbpoll.1:111, "Number of values to read (1-125)" | 63 or more 32-bit values pass the parser and end in "Internal error" |
| `int_list_count` | utils.c:64, "Count and verify the integer list" | a text that ends in `:` is accepted, and the second pass starts with `bIsLast` set: more cells are written than counted |
| `desktop_writes` | README.md:156-157, writes among the operations of the window | when a write changes the count shown, the device name of its context is reassigned before the connection is opened |
| `tcp_hosts` | doc/mbpoll.1:72, "Host name or dotted IP address when using ModBus/TCP protocol"; README.md:236, "TCP is default" | a host whose name contains `com`, `tty` or `ser` is taken for a serial port |
| `desktop_lines` | README.md:153-154, "host/device, port/baudrate" | the baud rate and the other serial settings of the window are never copied into the context |

### Bounds

- A request carries 4 registers or 5 bits (125 and 2000 in the code). The lists of
  `MCPollLoop` (contiguous beyond one request, with a gap, descending,
  repeated, two apart, single, empty) then meet every way a batch begins and
  ends, batches of several two-register values included; with two slaves a turn follows a failed turn, and rounds repeat while
  polling. The arithmetic depends on the limits only through comparisons, and
  the theorems of section 5 hold for all limits.
- `CountCap` stops the counters. At 3 it lets the error counter differ from
  "some error" and the statistics be compared.
- `IntList`: up to three items, values -8, -2, 3, 7 and 17 with `INT_MAX` = 7, so that a
  number is cut, a range has more integers than an int counts, and one goes up to
  `INT_MAX`. Three items are a range with an item before or after it, or two colons;
  every property of the run is proved for texts of any length. The run `int_list_count`
  has `INT_MAX` = 1000: what it shows needs no overflow.
- `CommandLine`: three options, so that two that disagree can come on either side of
  a third; two values, so that one can land on the other. A byte of 4 values gives
  registers of 16 and ints of 256; the texts lie at the edges of both (-129, -9,
  -8, 15, 16, 127). `MaxCount` 3, `MaxRef` 9, `MaxSlave` 3 are reached and passed
  by an option each. `UseChipIo` is true: without it there are only fewer steps.
  No document bounds the number of values, and no other number of options
  would show more: every property of the run is proved for all of them.
- `Runtime`: a frame of 4 registers, 1 to 3 values, so that wide values both fit and
  do not; `MaxCalls` = 2 requests per context, so that a second read replaces
  the rows of a first.
- `Desktop`: a frame of 2 registers, `WideLimit` 1 (62 in the code), counts up to 2
  in the spin box and 3 in a write text, one slave besides 0. One request per
  context is what the handlers make.
- `CHECK_DEADLOCK FALSE` is in every configuration: a run of the program ends
  (`pc = "done"`, a returned list, a line that is refused or ready); the library and the window may rest while
  nobody calls or clicks, or when `MaxCalls` is reached.

### Fairness

- `PollLoop!FairSpec`: weak fairness of `Step`, the process. It is scheduled
  again by the system, a request returns within libmodbus' response timeout and
  a delay within the poll rate (`nanosleep`). `SigInt` is not fair: nobody has to
  press Ctrl-C. Answering is not fair either: every liveness property holds when
  no device ever answers.
- `PollPromise!Spec`: weak fairness of `Progress`, which the loop has to provide.
- `Desktop!FairSpec`: weak fairness of `HandlerStep` (a handler is straight code, and
  each call has its timeout), of `Tick` (Qt delivers a timeout that is due when the
  event loop is idle) and of `Elapse` (the interval of an active timer runs out),
  the last one only as long as the poll rate is not edited for ever: each edit starts
  the interval over (`mainwindow.cpp:250-255`), and a user whose edits are
  always closer together than the interval does starve the timer. `PollingGoesOn`
  excuses the same behaviours, and is violated without the excuse. An edit of any other
  widget leaves the timer alone. Clicks and edits are not fair.

## 4. What the runs do not cover

- Text: the wording of values and messages, verbose output, usage, version. A number
  that is shown is modelled, its digits are not; IEEE rounding of a float is one lost
  digit.
- Of `parse_args`: what `-v -x -X -p -R -F -o -b -d -s -P` set, which no decision of the
  model reads; they are options whose argument is legal or not (`-b` in the run). A list
  given twice leaks the first one.
- libmodbus, the allocator, Qt, the serial driver: external, modelled by what the
  calls in the source expect of them. Time: a timeout is an answer that fails.
- The report of a slave id beyond its request: what it prints.
- In the window: labels, the log, colours, the result table, `bigEndianCheck` and
  `writeMultipleCheck`. Two hazards at lines 353 and 596 are left to their notes:
  neither is against a statement of the repository.
- ChipIo: `bChipIoHandleOption` and `bChipIoSetup` repeat the steps of `parse_args` and
  have no caller; `vChipIoClose` closes a handle of the context that nothing sets.
- GPIO RTS: a callback of libmodbus with two writes, without state or decision.
- `serial.c`: names of constants.

## 5. Theorems

TLAPS proves, for every value of the constants that satisfies `LimitsAssumption`,
`ContextsAssumption` and `CapAssumption` (that is: any frame size of at least two
registers with `MaxCount <= MaxRegs <= MaxBits`, references that leave room below
`INT_MAX`, any set of contexts the parser lets through):

| `PollLoopProofs` | States |
|---|---|
| `Invariant` | `Spec => []IInv` |
| `TypeCorrect` | no index leaves its list |
| `NeverFreesTheStack` | `OnlyTheBlockIsFreed` |
| `ValuesCorrect` | `ValuesAreTheirRegisters` |
| `RightSlave` | `RequestsGoToTheSlave` |
| `OneLateRequest` | `AtMostOneLateRequest` |
| `ChecksCorrect` | `ChecksOnlyStopWideReads` |

The invariant `IInv` adds to the properties what they need to be inductive:
`Flow` (which branch of main leads to which point, and that the slave addressed is
the one in turn), `Batch` (the references of a batch climb and one request carries
them, which bounds every offset computed later), `Pointer` (where `pvData` and
`original_pvData` point: the stack only within a turn, and between two batches only
after the first), `Shown` (during printing the buffer holds this batch's
registers, all of them) and `Late` (after a late request the process is at a
point from which no request leaves). The argument for `OnlyTheBlockIsFreed` is the
least obvious: the failure exits at lines 530, 559 and 598 lie where `pvData` may be
the stack buffer, and are harmless only because a batch after the first never
fails its checks (`ChecksHold`). That is why the invariant contains the batch.

Under the same assumptions:

| `PromiseProofs` | States |
|---|---|
| `TurnInvariant` | `Spec => []PInv` |
| `AtMostOneIsMissed` | `StatisticsMissAtMostOne` |
| `SuccessIsComplete` | `SuccessMeansAllShown`, of a read without SIGINT |
| `LoopKeepsPromise` | `Spec => Promise!Safe`, the safety part of `KeepsPromise` |
| `LoopRunsDown` | `NothingIsRedone`, and that what it counts is never negative |
| `OneBlockIsCounted` | `ReceivedWereTransmitted`, where one request carries every reference |

`PInv` adds to `IInv` how far a turn has come. `Course` says where the rounds are and
which end the program has come to; `Settled`, that every reference before the batch is
shown or failed and none after it has been touched; `Runs`, that a batch has no gap
and, when its request leaves, that no longer one would have fitted, which is what makes
the request the next block of `PollPromise`; `Complete`, that all of what is settled
was shown while nothing was counted as an error; `Failures` and `Statistics`, that a
failed request is counted, but for the one SIGINT met on the bus. Each step of the
loop is then a step of the promise, or one that leaves `next`, `phase` and `outcome`
alone.

`LoopRunsDown` is the part of termination that is a safety property. `LegsLeft` counts
the legs to the end of `main`, each turn left in the round being one; `TurnLeft`
the work left in a turn, to which a reference contributes no more than the six steps it
can take. Both are natural numbers, and every step but SIGINT makes the pair smaller,
unless it is the `while` of a program that polls on. `SigIntEnds`, `OneShotEnds` and
the fairness part of `KeepsPromise` then only need that a step is taken as long as one
is possible, which is what the fairness says and TLC checks.

`OneBlockIsCounted` draws the boundary of the finding of `poll_statistics`: with a list
that is one block, the counts per turn and per request agree, and the documented
statistics are right. Its invariant is that the batch of a turn is the whole list, so
that no turn receives twice.

From `ValuesAssumption` and `TextsAssumption` (an end of text only as the last
item), for texts of every length over any integers, and any width of an int:

| `IntListProofs` | States |
|---|---|
| `Invariant` | `Spec => []IInv` |
| `TypeCorrect` | no pass leaves its text |
| `PassesAlwaysAgree` | `PassesAgree`: the cells written are the cells counted |
| `OnlyLegalTextsPass` | `OnlyLegalTexts` |
| `ListIsAlwaysTheExpansion` | `ListIsTheExpansion`: the list is the one the text describes |
| `PassesRunDown` | each step leaves less of the two passes to do |

Here `IInv` is `TypeOK`, `Trail` (each entry of `seen` follows from the one before
by what the first pass does with an item), `Retrace` (at item p of a closed text
the second pass has written `seen[p].count` cells, and is inside a range exactly
when the first pass was) and `Ending`. The counts in `seen` are those no int has cut;
while the text is `Countable`, `iCount` is the last of them, and `Bounded` is what keeps
the second pass from running away. What the list is, as opposed to how long, would be
an induction over the text; here the second pass is that induction. `Unfolds` says of
a function that it obeys the recursion of `Expansion` up to an item, and `Unfolded`, the
invariant, that up to the item the pass has reached there is such a function and each
one ends in `iList`. At the end of the text the recursive function itself is one of
them (`ExpansionFacts`), so no theorem about recursion is needed. The hypothesis `Closed` is needed: without
it `bIsLast` starts set in the second pass, which is the finding of
`int_list_count`.

From `LimitsAssumption` and `RuntimeAssumption`, for any caller that keeps the rules,
any counts, references and frame size, and any number of calls up to `MaxCalls`:

| `RuntimeProofs` | States |
|---|---|
| `Invariant`, `TypeCorrect` | `RuntimeSpec => []IInv`, `RuntimeTypeOK` |
| `NeverLeaks` | `NothingLeaks` |
| `RequestsFit` | `RequestsFitTheirBlocks` |
| `ValuesFit` | `ValuesStayInTheirBlock` |
| `RowsCover` | `RowsCoverTheAnswer` |

What the properties need beside each other is `Block`: the parameters do not change
while there is a block (a new context starts without one, and a lost device name
changes no size), so the block still has the size `iMbPollDataSize` gave it when a
request is sized by `iMbPollRegisterCount`; and what is filled lies below `iCount`.
`SizeFacts` is the arithmetic that relates the two functions; it needs coils and
discrete inputs to be binary.

From `DesktopAssumption` besides these two, for any settings, counts and texts, and any order of
edits, clicks and ticks:

| `DesktopProofs` | States |
|---|---|
| `WindowInvariant` | `Spec => [](DInv /\ IInv)` |
| `WindowTypeCorrect` | `DesktopTypeOK` |
| `WindowKeepsTheRules` | `KeepsTheRules`: the window implements `RuntimeSpec` |
| `NothingIsHeld` | `NothingHeldBetweenHandlers` |
| `ReadsReachTheShownDevice` | `ReadsAreOfTheShownDevice` |
| `ReadsAreShownAsReceived` | `ReadsShowWhatWasReceived` |
| `WritesAreComplete` | `WritesCarryAllValues` |
| `NoBroadcast` | `RtuNeverBroadcasts` |
| `ButtonsAreTrue` | `ButtonsTellPolling` |
| `ClicksAreAlone` | `ClicksStopPolling` |
| `PollingSurvivesErrors` | `PollingOutlivesErrors` |
| `WindowUsesTheLibraryWell` | `NothingLeaks`, `RequestsFitTheirBlocks`, `ValuesStayInTheirBlock`, `RowsCoverTheAnswer` |
| `HandlersEnd` | each step of a handler leaves fewer calls to make; meanwhile only the interval may run out |
| `SettingsNeverMatter` | every connection has the settings of a new context |
| `OnlyANewCountLeadsAstray` | `WritesReachTheShownDevice`, but for a write that changed the count |

`DInv` says what a handler holds at each of its steps (`Held`), how far the values of a
write are filled (`Filling`), and that the device name of a read is intact until its
connection is open (`Aimed`); `Counting` says what a read has counted when it
returns, for `ReadsAreShownAsReceived`. With it each step of the window is a `Call` the caller
of the library may make, so that the invariant of `RuntimeProofs` comes along without
being proved again; `NothingLeaks` then turns "the pointers are clear", which is all
the window can see, into "nothing exists". `WindowUsesTheLibraryWell` takes the other
way through the refinement: the theorems about any caller hold of this one.

`HandlersEnd` counts the calls a handler can still make (`CallsLeft`: the values not
yet filled, and a fixed number after them), whichever of them fail; the end of the
interval, which may come while a handler runs, leaves them as they are (`RunsOut`) and
cannot come twice. The last two draw the
boundaries of two findings, with an invariant of their own, `Taken`. The settings
of a line never reach a context, so `desktop_lines` is no matter of an order of clicks.
The name of the device is lost in one place only, where the number of values changes
the count, so a write of as many values as the window shows, and every read, goes where
it should.

From `LimitsAssumption`, `WidthAssumption` and `CommandLineAssumption`, for any options,
texts and devices, any number of them, and both builds:

| `ValuesProofs`, `CommandProofs`, `WriteProofs` | States |
|---|---|
| `SignedRoundTrip`, `UnsignedRoundTrip`, `PairRoundTrip`, `SwapTwice` | a number that is stored is read back as itself |
| `Invariant`, `TypeCorrect` | `CommandSpec => []CInv`, `CommandTypeOK` |
| `ArgumentsAreValid` | `AcceptedIsValid` |
| `LineMeansWhatItSays` | `MeansWhatItSays` |
| `BridgeIsWhole` | `NoHalfSetUpBridge` |
| `NoUnaskedBroadcast` | `BroadcastsAreAskedFor` |
| `WritesWhatWasTyped` | `WrittenIsWhatWasTyped` |
| `SameTextsAreValues` | `LibraryAgrees` |
| `HostsAreTakenByName` | `HostsAreReachedByTcp` exactly for the names not taken for a port's |

`CInv` says, for each point `parse_args` has reached, what the checks before it have
established: a check that is far from the line it protects (the references, the
count, the format of a table of bits, the lists) has to survive everything between.
`ArgumentsAreValid` is what lets the theorems of `PollLoopProofs` speak of the program
and not only of its loop. `LineMeansWhatItSays` rests on `SInv`: when no letter came
twice, counting the letters shows that each one names a single option, so that
`Argument` is that option; while options are read each parameter is what has been
said of it so far, and after them only what overrules it. `WritesWhatWasTyped` adds an invariant of the block: after n
values, the cells of the n-th and of all before are those `Cells` gives, because
`Store` at an index touches no cell of another index (`WriteProofs`); the frame is the
whole block; and the round trips of `ValuesProofs` undo the cast, the split and the
swap. They need `2 * (IntMax + 1) = ByteSize ^ 4` and an even `ByteSize`, nothing
more.

Only model-checked: liveness under fairness (`SigIntEnds`, `OneShotEnds`,
`EverySlaveIsPolled`, `PollingGoesOn`, and the fairness part of `KeepsPromise`), which
are beyond TLAPS; the theorems on what runs down are the part of it that can be
proved. Every other property of a passing run is a theorem. Of the statements that end
in a violation, those of the statistics, the hosts, the writes and the lines of the
window are proved outside the case the trace shows, `int_list_count` by `PassesAgree`
for closed texts, `wide_counts` by `ChecksOnlyStopWideReads` for all but single
references, and `exit_status` by `SuccessMeansAllShown` for reads.

## 6. Plan

In order of what the program depends on most:

1. `PollLoop`, `PollPromise`, proofs of the loop: done.
2. `IntList` and its proofs: done.
3. `MbPollRuntime` and its proofs, `Desktop` over it: done.
4. `CommandLine` and its proofs, with the set-up of the ChipIo bridge: done.
5. `Values` and its proofs: done.
6. `DesktopProofs`, with the refinement of `RuntimeSpec`: done.
7. `PromiseProofs`, the safety part of the refinement of `PollPromise`: done.
8. `MeansWhatItSays` and the types of the command line: done.
9. The list as the expansion of its text, the measures that run down, what the window
   inherits from the library, and the boundaries of the findings: done.

Left are the spin box of the start reference and the word order of the window. The
length of the poll interval stays out: only that it ends is modelled.
