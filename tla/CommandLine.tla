---------------------------- MODULE CommandLine ----------------------------
(***************************************************************************)
(* What mbpoll does before it opens the bus (src/mbpoll.c): parse_args,    *)
(* which takes the options one by one, then the device and the values, and *)
(* the check of the slave addresses at the top of main.  A write, when one *)
(* is asked for, is followed up to the frame iMbPollWriteOnce sends.       *)
(*                                                                         *)
(* A word of the command line with an option is a record:                  *)
(*   opt   its letter                                                      *)
(*   text  its argument when it is a name; "illegal" when iGetInt,         *)
(*         iGetIntList, iGetEnum, dGetDouble or a check of its range       *)
(*         refuses the argument, or getopt does not know the letter        *)
(*   list  its argument when it is a number or a list of numbers           *)
(* A list so long that iGetIntList's count wraps to -1 has the text        *)
(* "wrapped": it comes without its numbers, and -1 is what stands for a    *)
(* list that was not given.  Any other count below 1 is taken for that of  *)
(* an empty list; one that wraps to 1 or more writes beyond the list, and  *)
(* what then happens is left to IntList.                                   *)
(* -t has both: a list of one number, and the name of a format or "plain". *)
(* getopt brings all options forward, whatever comes between them.  Some   *)
(* of them set what no decision reads, the printing and the line settings  *)
(* (-v -x -X -p -R -F -o -b -d -s -P): their argument is legal or not, and *)
(* what they set is not a field of q.                                      *)
(*                                                                         *)
(* A definition named X_Y is X with the mistake Y in it: no action uses it,*)
(* and a property of a run is shown to fail when it takes X's place.       *)
(***************************************************************************)
EXTENDS Values, FiniteSets

CONSTANTS
  OptionWords,  \* the options a user may type
  Texts,        \* the texts a user may type for a value
  MinPollRate,  \* POLLRATE_MIN
  UseChipIo,    \* the program is built with USE_CHIPIO
  MaxOptions,   \* bound: options on a line
  MaxValues     \* bound: values on a line

ASSUME CommandLineAssumption ==
  /\ UseChipIo \in BOOLEAN
  /\ MaxOptions \in Nat /\ MaxValues \in Nat
  /\ \A w \in OptionWords :
       /\ w.list \in Seq(Int)
       /\ w.opt \in {"c", "t", "l"} => Len(w.list) = 1
       /\ w.text = "wrapped" => w.list = <<>>
       /\ w.opt = "m" => w.text \in {"rtu", "tcp", "illegal"}
       /\ w.opt = "t" => w.text \in (Formats \ {"dec", "bin"}) \cup {"plain", "illegal"}

VARIABLES
  pc,       \* how far the line is read
  q,        \* ctx
  typed,    \* the options read so far
  options,  \* how many they are
  texts,    \* the values converted so far
  nb,       \* iNbToWrite
  pvData,   \* the block of ctx.pvData
  bridge,   \* what exists of the ChipIo bridge
  frame     \* what WriteOnce sends: the Modbus function and the cells

commandVars == <<pc, q, typed, options, texts, nb, pvData, bridge, frame>>

\* What the words after the options name: a serial port; a host; a host with com,
\* tty or ser in its name, like example.com; an I2C bus.
Hosts == {"host", "comHost"}
Devices == {"port", "bus"} \cup Hosts
NamesAPort(d) == d \in {"port", "comHost"}
NamesABus(d) == d = "bus"

Defaults ==
  [ eMode |-> "tcp", bIsDefaultMode |-> TRUE, sDevice |-> "none",
    eFunction |-> "holdingReg", eFormat |-> "dec",
    piSlaveAddr |-> <<>>, iSlaveCount |-> -1, piStartRef |-> <<>>, iStartCount |-> -1,
    iCount |-> 1, iPduOffset |-> 1,
    bIsPolling |-> TRUE, bIsWrite |-> TRUE, bIsReportSlaveID |-> FALSE,
    bIsBigEndian |-> FALSE, bWriteSingleAsMany |-> FALSE, bIsQuiet |-> FALSE,
    bEnableMaxSlaveQuirk |-> FALSE, bIsChipIo |-> FALSE ]

NoFrame == [code |-> 0, cells |-> <<>>]

CommandInit ==
  /\ pc = "options"
  /\ q = Defaults
  /\ typed = {} /\ options = 0
  /\ texts = <<>> /\ nb = 0 /\ pvData = <<>>
  /\ bridge = "none"
  /\ frame = NoFrame

-----------------------------------------------------------------------------
\* vSyntaxErrorExit and vIoErrorExit: vCleanupContext frees the block and the
\* lists, and nothing else is undone.
Refuse ==
  /\ pc' = "refused"
  /\ pvData' = <<>>
  /\ q' = [q EXCEPT !.piSlaveAddr = <<>>, !.piStartRef = <<>>]

FunctionOf(n) ==
  CASE n = 0 -> "coil" [] n = 1 -> "discreteInput" [] n = 3 -> "inputReg" [] OTHER -> "holdingReg"

\* The checks an option's argument has to pass by itself.
Legal(w) ==
  /\ w.text # "illegal"
  /\ CASE w.opt = "c" -> w.list[1] \in 1..MaxCount
       [] w.opt = "t" -> w.list[1] \in {0, 1, 3, 4}
       [] w.opt = "l" -> w.list[1] >= MinPollRate
       [] OTHER -> TRUE

\* What iGetIntList counts in the list of -a or -r.
ListCount(w) == IF w.text = "wrapped" THEN -1 ELSE Len(w.list)

\* What an option does to the context.
Applied(p, w) ==
  CASE w.opt = "m" -> [p EXCEPT !.eMode = w.text, !.bIsDefaultMode = FALSE]
    [] w.opt = "a" -> [p EXCEPT !.piSlaveAddr = w.list, !.iSlaveCount = ListCount(w)]
    [] w.opt = "r" -> [p EXCEPT !.piStartRef = w.list, !.iStartCount = ListCount(w)]
    [] w.opt = "c" -> [p EXCEPT !.iCount = w.list[1], !.bIsWrite = FALSE]
    [] w.opt = "t" -> [p EXCEPT !.eFunction = FunctionOf(w.list[1]),
                                !.eFormat = IF w.text = "plain" THEN @ ELSE w.text]
    [] w.opt = "u" -> [p EXCEPT !.bIsReportSlaveID = TRUE]
    [] w.opt = "1" -> [p EXCEPT !.bIsPolling = FALSE]
    [] w.opt = "0" -> [p EXCEPT !.iPduOffset = 0]
    [] w.opt = "B" -> [p EXCEPT !.bIsBigEndian = TRUE]
    [] w.opt = "W" -> [p EXCEPT !.bWriteSingleAsMany = TRUE]
    [] w.opt = "q" -> [p EXCEPT !.bIsQuiet = TRUE]
    [] w.opt = "Q" -> [p EXCEPT !.bEnableMaxSlaveQuirk = TRUE]
    [] w.opt \in {"i", "n"} /\ UseChipIo -> [p EXCEPT !.bIsChipIo = TRUE]
    [] OTHER -> p

\* One turn of the getopt loop.
Option(w) ==
  /\ pc = "options" /\ options < MaxOptions
  /\ options' = options + 1
  /\ typed' = typed \cup {w}
  /\ \/ /\ Legal(w)
        /\ q' = Applied(q, w)
        /\ UNCHANGED <<pc, pvData>>
     \/ \* The check fails, or there is no memory for a list.
        (Legal(w) => w.opt \in {"a", "r"}) /\ Refuse
  /\ UNCHANGED <<texts, nb, bridge, frame>>

\* -h, -V and -w end the program with status 0, whatever follows them.
Information ==
  /\ pc = "options"
  /\ pc' = "informed"
  /\ UNCHANGED <<q, typed, options, texts, nb, pvData, bridge, frame>>

StartRefs == IF q.iStartCount = -1 THEN <<1>> ELSE q.piStartRef

Normalized_KeepsFormat(p, refs) ==
  [p EXCEPT !.piStartRef = refs, !.iStartCount = Len(refs),
            !.iCount = IF Len(refs) > 1 THEN 1 ELSE @]

\* Several references are read one value each; bits are binary.
Normalized(p, refs) ==
  [p EXCEPT !.piStartRef = refs, !.iStartCount = Len(refs),
            !.iCount = IF Len(refs) > 1 THEN 1 ELSE @,
            !.eFormat = IF UsesBinary(p.eFunction) THEN "bin" ELSE @]

(***************************************************************************)
(* getopt returns -1: the references are checked, now that -0 is known.    *)
(***************************************************************************)
EndOfOptions ==
  /\ pc = "options"
  /\ LET refs == StartRefs
     IN \/ /\ \A n \in 1..Len(refs) : refs[n] \in q.iPduOffset .. (MaxRef - 1 + q.iPduOffset)
           /\ q' = Normalized(q, refs)
           /\ pc' = "device"
           /\ UNCHANGED pvData
        \/ /\ \/ \E n \in 1..Len(refs) : refs[n] \notin q.iPduOffset .. (MaxRef - 1 + q.iPduOffset)
              \/ q.iStartCount = -1   \* no memory for the default
           /\ Refuse
  /\ UNCHANGED <<typed, options, texts, nb, bridge, frame>>

UsesBridge(p, d) == UseChipIo /\ ((NamesABus(d) /\ p.bIsDefaultMode) \/ p.bIsChipIo)

(***************************************************************************)
(* argv[optind], the device: by default it chooses the mode.               *)
(***************************************************************************)
TakeDevice(d) ==
  /\ pc = "device"
  /\ LET serial == NamesAPort(d) /\ q.bIsDefaultMode
     IN /\ q' = [q EXCEPT !.sDevice = d, !.eMode = IF serial THEN "rtu" ELSE @]
        /\ pc' = IF ~serial /\ UsesBridge(q, d) THEN "bridge" ELSE "values?"
  /\ UNCHANGED <<typed, options, texts, nb, pvData, bridge, frame>>

DeviceMissing ==
  /\ pc = "device"
  /\ Refuse
  /\ UNCHANGED <<typed, options, texts, nb, bridge, frame>>

SetUpBridge_AttributesLater ==
  /\ pc = "bridge"
  /\ \/ /\ bridge = "none" /\ bridge' = "chip"
        /\ UNCHANGED <<pc, q, pvData>>
     \/ /\ bridge = "chip" /\ bridge' = "port"
        /\ q' = [q EXCEPT !.sDevice = "bridge", !.eMode = "rtu", !.bIsChipIo = TRUE]
        /\ pc' = "values?"
        /\ UNCHANGED pvData
     \/ bridge \in {"none", "chip"} /\ Refuse /\ UNCHANGED bridge
  /\ UNCHANGED <<typed, options, texts, nb, frame>>

(***************************************************************************)
(* The ChipIo bridge: the chip is opened, a virtual serial port is created *)
(* on it, which becomes the device, and gets the serial attributes.  Each  *)
(* of the three may fail, and leaves behind what there was.                *)
(***************************************************************************)
SetUpBridge ==
  /\ pc = "bridge"
  /\ \/ /\ bridge = "none" /\ bridge' = "chip"
        /\ UNCHANGED <<pc, q, pvData>>
     \/ /\ bridge = "chip" /\ bridge' = "port"
        /\ q' = [q EXCEPT !.sDevice = "bridge"]
        /\ UNCHANGED <<pc, pvData>>
     \/ /\ bridge = "port" /\ bridge' = "ready"
        /\ q' = [q EXCEPT !.eMode = "rtu", !.bIsChipIo = TRUE]
        /\ pc' = "values?"
        /\ UNCHANGED pvData
     \/ Refuse /\ UNCHANGED bridge
  /\ UNCHANGED <<typed, options, texts, nb, frame>>

-----------------------------------------------------------------------------
\* Cells the values at one reference take, which is what vAllocate gets.
CellCount(p) == p.iCount * (IF Wide(p.eFormat) THEN 2 ELSE 1)

Counted_KeepsPolling(p, n) ==
  IF n > 0 THEN [p EXCEPT !.iCount = n] ELSE [p EXCEPT !.bIsWrite = FALSE]

\* With values the line asks for a single write of all of them, else for a read.
Counted(p, n) ==
  IF n > 0 THEN [p EXCEPT !.bIsPolling = FALSE, !.iCount = n]
           ELSE [p EXCEPT !.bIsWrite = FALSE]

(***************************************************************************)
(* The words after the device are values to write, unless -u was given:    *)
(* then they are not looked at, and nothing is allocated.                  *)
(***************************************************************************)
CountValues(n) ==
  /\ pc = "values?"
  /\ nb' = n
  /\ \/ /\ q.bIsReportSlaveID /\ q.eMode = "rtu"
        /\ pc' = "lists"
        /\ UNCHANGED <<q, pvData>>
     \/ /\ ~q.bIsReportSlaveID /\ ~(n > 0 /\ ~q.bIsWrite)
        /\ q' = Counted(q, n)
        /\ pvData' = [cell \in 1..CellCount(Counted(q, n)) |-> 0]
        /\ pc' = IF n > 0 THEN "values" ELSE "lists"
     \/ \* -u without RTU, -c with values, or no memory for the block.
        /\ q.bIsReportSlaveID => q.eMode # "rtu"
        /\ Refuse
  /\ UNCHANGED <<typed, options, texts, bridge, frame>>

\* A value is converted at its index, or the line is refused.
ConvertValue(t) ==
  /\ pc = "values"
  /\ texts' = Append(texts, t)
  /\ \/ /\ CliAccepts(q.eFunction, q.eFormat, t)
        /\ LET n == CliNumber(q.eFunction, q.eFormat, t).num
           IN pvData' = Store(pvData, Len(texts), Cells(q.eFormat, n, q.bIsBigEndian))
        /\ pc' = IF Len(texts) + 1 = nb THEN "lists" ELSE "values"
        /\ UNCHANGED q
     \/ ~CliAccepts(q.eFunction, q.eFormat, t) /\ Refuse
  /\ UNCHANGED <<typed, options, nb, bridge, frame>>

\* Lists are for reading; a report takes one slave.
ListsFit(p) ==
  /\ p.iSlaveCount > 1 => ~p.bIsWrite /\ ~p.bIsReportSlaveID
  /\ p.iStartCount > 1 => ~p.bIsWrite

(***************************************************************************)
(* The end of parse_args: the lists, and slave 1 when none was given, if   *)
(* there is memory for it.                                                 *)
(***************************************************************************)
CheckLists ==
  /\ pc = "lists"
  /\ \/ /\ ListsFit(q)
        /\ q' = IF q.iSlaveCount = -1
                THEN [q EXCEPT !.piSlaveAddr = <<1>>, !.iSlaveCount = 1] ELSE q
        /\ pc' = "addresses"
        /\ UNCHANGED pvData
     \/ (ListsFit(q) => q.iSlaveCount = -1) /\ Refuse
  /\ UNCHANGED <<typed, options, texts, nb, bridge, frame>>

LowestSlave_NoQuirk(p) == 0
LowestSlave(p) == IF p.eMode = "rtu" /\ ~p.bEnableMaxSlaveQuirk THEN 1 ELSE 0

SlavesAllowed(p) == \A n \in 1..Len(p.piSlaveAddr) : p.piSlaveAddr[n] \in LowestSlave(p)..MaxSlave

\* The top of main, when the mode is known.
CheckAddresses ==
  /\ pc = "addresses"
  /\ \/ SlavesAllowed(q) /\ pc' = "ready" /\ UNCHANGED <<q, pvData>>
     \/ ~SlavesAllowed(q) /\ Refuse
  /\ UNCHANGED <<typed, options, texts, nb, bridge, frame>>

\* An empty list (-a "", -r "") has no first element.  A report looks at the first
\* slave, a write at the first slave and reference, and the summary that is printed
\* without -q at the first reference: what then happens is undefined.
LooksIntoEmptyList(p) ==
  \/ Len(p.piSlaveAddr) = 0 /\ (p.bIsReportSlaveID \/ p.bIsWrite)
  \/ Len(p.piStartRef) = 0 /\ ~p.bIsReportSlaveID /\ (p.bIsWrite \/ ~p.bIsQuiet)

\* The request of iMbPollWriteOnce.
Frame(p, block) ==
  LET one == CellCount(p) = 1 IN
  CASE p.eFunction = "coil" /\ one  -> [code |-> 5, cells |-> <<block[1]>>]
    [] p.eFunction = "coil" /\ ~one -> [code |-> 15, cells |-> SubSeq(block, 1, CellCount(p))]
    [] p.eFunction # "coil" /\ one /\ ~p.bWriteSingleAsMany -> [code |-> 6, cells |-> <<block[1]>>]
    [] OTHER                        -> [code |-> 16, cells |-> SubSeq(block, 1, CellCount(p))]

\* The bus is open and the slave is set: the frame leaves.
WriteOnce ==
  /\ pc = "ready"
  /\ q.bIsWrite /\ ~q.bIsReportSlaveID /\ ~LooksIntoEmptyList(q)
  /\ frame' = Frame(q, pvData)
  /\ pc' = "written"
  /\ UNCHANGED <<q, typed, options, texts, nb, pvData, bridge>>

CommandNext ==
  \/ \E w \in OptionWords : Option(w)
  \/ Information \/ EndOfOptions
  \/ \E d \in Devices : TakeDevice(d)
  \/ DeviceMissing \/ SetUpBridge
  \/ \E n \in 0..MaxValues : CountValues(n)
  \/ \E t \in Texts : ConvertValue(t)
  \/ CheckLists \/ CheckAddresses \/ WriteOnce

CommandSpec == CommandInit /\ [][CommandNext]_commandVars

-----------------------------------------------------------------------------
(***************************************************************************)
(* What holds.                                                             *)
(***************************************************************************)
CommandPcs ==
  {"options", "device", "bridge", "values?", "values", "lists", "addresses",
   "ready", "written", "informed", "refused"}

Accepted == pc \in {"ready", "written"}

\* Every variable stays in its range, and the block has room for what is asked.
CommandTypeOK ==
  /\ pc \in CommandPcs
  /\ q.eMode \in {"rtu", "tcp"} /\ q.eFormat \in Formats /\ q.eFunction \in Functions
  /\ options \in 0..MaxOptions /\ nb \in 0..MaxValues /\ Len(texts) <= nb
  /\ bridge \in {"none", "chip", "port", "ready"}
  /\ \A n \in 1..Len(pvData) : pvData[n] \in Words
  /\ pc \in {"values", "written"} => Len(pvData) = CellCount(q)

\* The context in the terms of the poll loop.
Asked ==
  [ eFunction |-> q.eFunction, bWide |-> Wide(q.eFormat),
    piSlaveAddr |-> q.piSlaveAddr, piStartRef |-> q.piStartRef,
    iCount |-> q.iCount, iPduOffset |-> q.iPduOffset,
    bIsPolling |-> q.bIsPolling, bIsWrite |-> q.bIsWrite,
    bIsReportSlaveID |-> q.bIsReportSlaveID ]

\* Whatever the options, their order and their repetitions, a line that gets through
\* asks only what the poll loop can do (the assumption PollLoop is checked and
\* proved under), save for an empty list that is looked into (mbpoll.c:474, 829).
AcceptedIsValid == Accepted /\ ~LooksIntoEmptyList(q) => ValidContext(Asked)

Given(o) == \E w \in typed : w.opt = o
Argument(o) == CHOOSE w \in typed : w.opt = o
GivesList(o) == Given(o) /\ Argument(o).text # "wrapped"
NoneTwice == Cardinality({w.opt : w \in typed}) = options

\* Each parameter of an accepted line is what the option for it says, in whatever
\* order the options came, unless the device, the table or a list overrules it, or the
\* count of a list wraps to -1, which is taken for no list.
\* It is a write exactly when there are values, and never one with -c.
MeansWhatItSays ==
  Accepted /\ NoneTwice =>
    /\ q.eMode = IF bridge # "none" \/ (NamesAPort(q.sDevice) /\ ~Given("m")) THEN "rtu"
                 ELSE IF Given("m") THEN Argument("m").text ELSE "tcp"
    /\ q.eFormat = IF UsesBinary(q.eFunction) THEN "bin"
                   ELSE IF Given("t") /\ Argument("t").text # "plain" THEN Argument("t").text
                   ELSE "dec"
    /\ q.piSlaveAddr = IF GivesList("a") THEN Argument("a").list ELSE <<1>>
    /\ q.piStartRef = IF GivesList("r") THEN Argument("r").list ELSE <<1>>
    /\ ~Given("u") =>
         /\ q.bIsWrite = (nb > 0)
         /\ q.bIsPolling = (nb = 0 /\ ~Given("1"))
         /\ nb > 0 => ~Given("c") /\ q.iCount = nb
    /\ nb = 0 /\ Len(q.piStartRef) > 1 => q.iCount = 1
    /\ nb = 0 /\ Len(q.piStartRef) <= 1 => q.iCount = IF Given("c") THEN Argument("c").list[1] ELSE 1

\* The number a value of the line stands for, once it is in a register.
Meant(t) ==
  LET n == CliNumber(q.eFunction, q.eFormat, t).num
  IN IF q.eFormat = "float" THEN Single(n) ELSE n

\* What a write sends, read back with the same options, shows every value that was
\* typed, at its place: no value is cut, swapped twice or put over another.
WrittenIsWhatWasTyped ==
  pc = "written" =>
    /\ Len(frame.cells) = nb * (IF Wide(q.eFormat) THEN 2 ELSE 1)
    /\ Len(frame.cells) > 1 => frame.code \in {15, 16}
    /\ \A n \in 1..nb :
         Head(Shown(q.eFormat, frame.cells, n - 1, q.bIsBigEndian)) = Meant(texts[n])

\* The library takes a text exactly when the command line does and the text is all
\* number: no value can be written from one of them and is out of range for the other.
LibraryAgrees ==
  pc = "values" =>
    \A t \in Texts :
      LibraryAccepts(q.eFunction, q.eFormat, t) <=>
        /\ CliAccepts(q.eFunction, q.eFormat, t)
        /\ ~CliNumber(q.eFunction, q.eFormat, t).rest

\* The virtual port of a ChipIo bridge is only used once every step of its set-up is
\* done, and no other device is used when one was begun.
NoHalfSetUpBridge ==
  Accepted =>
    /\ bridge \in {"none", "ready"}
    /\ q.sDevice = "bridge" <=> bridge = "ready"
    /\ bridge = "ready" => q.eMode = "rtu" /\ q.bIsChipIo

\* A line that asks for the broadcast address of a serial bus says so with -Q,
\* wherever it does, and also when the device name chose the mode.
BroadcastsAreAskedFor ==
  Accepted /\ q.eMode = "rtu" /\ (\E n \in 1..Len(q.piSlaveAddr) : q.piSlaveAddr[n] = 0)
    => Given("Q")

-----------------------------------------------------------------------------
\* What the documentation says and the code does not do: doc/mbpoll.1, ARGUMENTS,
\* "Host name or dotted IP address when using ModBus/TCP protocol", and -m,
\* "Default is tcp".
HostsAreReachedByTcp == Accepted /\ q.sDevice \in Hosts /\ ~Given("m") => q.eMode = "tcp"
=============================================================================
