------------------------------ MODULE PollLoop ------------------------------
(***************************************************************************)
(* main() of mbpoll from the opening of the bus to the exit status         *)
(* (src/mbpoll.c): the read loop over slaves and references, which groups  *)
(* contiguous references into one request, the single write, the report    *)
(* of a slave id, the SIGINT handler, and the two ways out: vCleanup and   *)
(* vFailureExit.                                                           *)
(*                                                                         *)
(* A definition named X_Y is X with the mistake Y in it: no action uses it,*)
(* and a property of a run is shown to fail when it takes X's place.       *)
(*                                                                         *)
(* The process is sequential: pc names the point it has reached.  What     *)
(* happens beside it is SIGINT, between any two steps, and the device,     *)
(* which answers a request with what was asked or with anything else.      *)
(***************************************************************************)
EXTENDS MbPollContext

CONSTANTS
  Contexts,   \* the contexts parse_args may have built
  CountCap    \* bound: counters stop here

ASSUME ContextsAssumption == \A c \in Contexts : ValidContext(c)
ASSUME CapAssumption == CountCap \in Nat \ {0}

VARIABLES
  ctx,        \* the parameters, set by parse_args and never changed
  pc,         \* the point main has reached
  sig,        \* g_bExitSignal
  bus,        \* ctx.xBus: "none" or "connected"
  busSlave,   \* the slave libmodbus addresses (modbus_get_slave)
  pvData,     \* what ctx.pvData points to: nothing, the block vAllocate got,
              \*   or batch_buffer, which is on the stack of main
  saved,      \* original_pvData
  i, j, k, m, \* slave, first reference of the batch, the one after its last,
              \*   reference being printed; i is 0 before the first round
  buffer,     \* batch_buffer: the registers the last complete answer put there
  tx, rx, err,\* ctx.iTxCount, ctx.iRxCount, ctx.iErrorCount
  why,        \* which failure exit was taken
  status,     \* exit status
  \* What a user or a device observes.
  lines,      \* the values vPrintReadValues last printed
  outcome,    \* what became of each reference in this slave's turn
  sent, late, \* requests sent, requests sent after SIGINT
  failed      \* an operation on the bus has failed since the start

vars == <<ctx, pc, sig, bus, busSlave, pvData, saved, i, j, k, m, buffer,
          tx, rx, err, why, status, lines, outcome, sent, late, failed>>

\* Groups of variables that most actions leave alone.
counters == <<tx, rx, err, sent, late, failed>>
memory   == <<pvData, saved, buffer>>
link     == <<bus, busSlave>>
indexes  == <<i, j, k, m>>
output   == <<lines, outcome>>
ends     == <<why, status>>

Slaves == ctx.piSlaveAddr
Refs   == ctx.piStartRef
Unit   == RegisterCount(ctx)
Plus1(n) == IF n < CountCap THEN n + 1 ELSE n

Pcs == {"open", "arm", "loop", "turn", "batch", "scan", "request", "answer",
        "print", "delay", "until", "write", "report", "reporting",
        "cleanup", "failing", "done"}
Outcomes == {"pending", "answered", "shown", "failed"}
Pending == [n \in 1..Len(Refs) |-> "pending"]
NoData == [slave |-> 0, first |-> 0, len |-> 0]

Init ==
  /\ ctx \in Contexts
  /\ pc = "open" /\ sig = FALSE
  /\ bus = "none" /\ busSlave = -1
  /\ pvData = IF ctx.bIsReportSlaveID THEN "null" ELSE "heap"
  /\ saved = "null"
  /\ i = 0 /\ j = 1 /\ k = 1 /\ m = 1
  /\ buffer = NoData
  /\ tx = 0 /\ rx = 0 /\ err = 0
  /\ why = "none" /\ status = "none"
  /\ lines = {} /\ outcome = Pending
  /\ sent = 0 /\ late = 0 /\ failed = FALSE

-----------------------------------------------------------------------------
(***************************************************************************)
(* Leaving a step: to the point next, or, when the check on the way fails, *)
(* to vFailureExit.                                                        *)
(***************************************************************************)
Goto(next) == pc' = next /\ UNCHANGED why
Check(ok, reason, next) ==
  /\ pc' = IF ok THEN next ELSE "failing"
  /\ why' = IF ok THEN why ELSE reason
FailureExit(reason) == Check(FALSE, reason, "failing")

\* One request on the bus.
Send ==
  /\ sent' = Plus1(sent)
  /\ late' = IF sig THEN late + 1 ELSE late

\* modbus_set_slave, when it accepts the address.
Address_OnlyOnce(slave) == busSlave' = IF busSlave \in {-1, 255} THEN slave ELSE busSlave
Address(slave) == busSlave' = slave

\* An error of the read loop, which is not one after SIGINT.
CountError_OnlyWhenPolling ==
  err' = IF sig \/ ~ctx.bIsPolling THEN err ELSE Plus1(err)
CountError == err' = IF sig THEN err ELSE Plus1(err)

(***************************************************************************)
(* iMbPollOpen: libmodbus starts with no slave (RTU) or slave 255 (TCP).   *)
(***************************************************************************)
Open ==
  /\ pc = "open"
  /\ \/ /\ bus' = "connected" /\ busSlave' \in {-1, 255}
        /\ Goto("arm")
        /\ UNCHANGED failed
     \/ /\ failed' = TRUE
        /\ FailureExit("open")
        /\ UNCHANGED link
  /\ UNCHANGED <<ctx, sig, memory, indexes, tx, rx, err, sent, late, status, output>>

(***************************************************************************)
(* signal(SIGINT, vSigIntHandler), then the branch of main.                *)
(***************************************************************************)
InstallHandler ==
  /\ pc = "arm"
  /\ Goto(IF ctx.bIsReportSlaveID THEN "report" ELSE "loop")
  /\ UNCHANGED <<ctx, sig, link, memory, indexes, counters, status, output>>

\* vSigIntHandler, which only runs once it is installed.
SigInt ==
  /\ pc \notin {"open", "arm", "done"}
  /\ ~sig
  /\ sig' = TRUE
  /\ UNCHANGED <<ctx, pc, why, link, memory, indexes, counters, status, output>>

\* Before that SIGINT has its default action: the process is gone.
KilledBySigInt ==
  /\ pc \in {"open", "arm"}
  /\ pc' = "done" /\ status' = "killed"
  /\ UNCHANGED <<ctx, sig, why, link, memory, indexes, counters, output>>

-----------------------------------------------------------------------------
Round_ForgetsSigInt ==
  /\ pc = "loop"
  /\ sig' = FALSE /\ i' = IF ctx.bIsWrite THEN i ELSE 1
  /\ Goto(IF ctx.bIsWrite THEN "write" ELSE "turn")
  /\ UNCHANGED <<ctx, link, memory, j, k, m, counters, status, output>>

\* The head of do ... while: one write, or a round over the slaves.
Round ==
  /\ pc = "loop"
  /\ i' = IF sig \/ ctx.bIsWrite THEN i ELSE 1
  /\ Goto(IF sig THEN "cleanup" ELSE IF ctx.bIsWrite THEN "write" ELSE "turn")
  /\ UNCHANGED <<ctx, sig, link, memory, j, k, m, counters, status, output>>

(***************************************************************************)
(* iMbPollWriteOnce on the first slave and reference.  A failure to set    *)
(* the slave is reported but not counted.                                  *)
(***************************************************************************)
WriteOnce ==
  /\ pc = "write"
  /\ \/ /\ failed' = TRUE
        /\ UNCHANGED <<busSlave, tx, rx, err, sent, late>>
     \/ /\ Address(Slaves[1])
        /\ tx' = Plus1(tx) /\ Send
        /\ \/ rx' = Plus1(rx) /\ UNCHANGED <<err, failed>>
           \/ err' = Plus1(err) /\ failed' = TRUE /\ UNCHANGED rx
  /\ Goto("until")
  /\ UNCHANGED <<ctx, sig, bus, memory, indexes, status, output>>

(***************************************************************************)
(* A slave's turn: the slave is set when it is not the one addressed, and  *)
(* one transmission is counted whatever the number of requests.            *)
(***************************************************************************)
BeginTurn ==
  /\ pc = "turn" /\ i <= Len(Slaves) /\ ~sig
  /\ \/ /\ Address(Slaves[i])
        /\ tx' = Plus1(tx)
        /\ saved' = pvData /\ buffer' = NoData
        /\ j' = 1 /\ outcome' = Pending
        /\ Goto("batch")
        /\ UNCHANGED failed
     \/ /\ busSlave # Slaves[i]
        /\ failed' = TRUE
        /\ FailureExit("slave")
        /\ UNCHANGED <<busSlave, tx, saved, buffer, j, outcome>>
  /\ UNCHANGED <<ctx, sig, bus, pvData, i, k, m, rx, err, sent, late, status, lines>>

EndRound ==
  /\ pc = "turn" /\ (i > Len(Slaves) \/ sig)
  /\ Goto("until")
  /\ UNCHANGED <<ctx, sig, link, memory, indexes, counters, status, output>>

BeginBatch_IgnoresSigInt ==
  /\ pc = "batch" /\ j <= Len(Refs)
  /\ k' = j + 1
  /\ Check(Refs[j] <= IntMax - Unit, "overflow", "scan")
  /\ UNCHANGED <<ctx, sig, link, memory, i, j, m, counters, status, output>>

\* A batch starts with the first reference not asked for yet.
BeginBatch ==
  /\ pc = "batch" /\ j <= Len(Refs) /\ ~sig
  /\ k' = j + 1
  /\ Check(Refs[j] <= IntMax - Unit, "overflow", "scan")
  /\ UNCHANGED <<ctx, sig, link, memory, i, j, m, counters, status, output>>

Joins_AnySize ==
  /\ k <= Len(Refs)
  /\ Refs[k] = Refs[k - 1] + Unit

Joins_OverGaps ==
  /\ k <= Len(Refs)
  /\ Refs[k] > Refs[k - 1]
  /\ Refs[k] + Unit - Refs[j] <= MaxUnits(ctx)

\* Reference k continues the batch j..k-1: no gap, and one request carries all.
Joins ==
  /\ k <= Len(Refs)
  /\ Refs[k] = Refs[k - 1] + Unit
  /\ Refs[k] <= IntMax - Unit
  /\ Refs[k] + Unit - Refs[j] <= MaxUnits(ctx)

ExtendBatch ==
  /\ pc = "scan" /\ Joins
  /\ k' = k + 1
  /\ UNCHANGED <<ctx, pc, why, sig, link, memory, i, j, m, counters, status, output>>

\* read_qty: what the request for the batch j..k-1 asks for.
ReadQty == Refs[k - 1] + Unit - Refs[j]

CloseBatch ==
  /\ pc = "scan" /\ ~Joins
  /\ Check(ReadQty \in 1..MaxUnits(ctx), "internal", "request")
  /\ UNCHANGED <<ctx, sig, link, memory, indexes, counters, status, output>>

\* modbus_read_bits and its like: the request leaves...
SendRequest ==
  /\ pc = "request"
  /\ Send
  /\ Goto("answer")
  /\ UNCHANGED <<ctx, sig, link, memory, indexes, tx, rx, err, failed, status, output>>

InBatch(n) == n \in j..(k - 1)

\* ... and the answer fills the front of batch_buffer...
Answered ==
  /\ pc = "answer"
  /\ buffer' = [slave |-> busSlave, first |-> Refs[j] - ctx.iPduOffset, len |-> ReadQty]
  /\ rx' = Plus1(rx)
  /\ m' = j
  /\ outcome' = [n \in DOMAIN outcome |-> IF InBatch(n) THEN "answered" ELSE outcome[n]]
  /\ Goto("print")
  /\ UNCHANGED <<ctx, sig, link, pvData, saved, i, j, k, tx, err, sent, late, failed, status, lines>>

NotAnswered_Retries ==
  /\ pc = "answer"
  /\ CountError
  /\ failed' = TRUE
  /\ Goto("batch")
  /\ UNCHANGED <<ctx, sig, link, memory, indexes, tx, rx, sent, late, status, output>>

\* ... or the call returns something else, which fails the whole batch.  After
\* SIGINT the failure is neither counted nor reported.
NotAnswered ==
  /\ pc = "answer"
  /\ CountError
  /\ failed' = TRUE
  /\ j' = k
  /\ outcome' = [n \in DOMAIN outcome |-> IF InBatch(n) THEN "failed" ELSE outcome[n]]
  /\ Goto("batch")
  /\ UNCHANGED <<ctx, sig, link, memory, i, k, m, tx, rx, sent, late, status, lines>>

\* The register batch_buffer holds at an offset, if the answer reached it.
Cell(n) == IF n \in 0..(buffer.len - 1) THEN <<buffer.slave, buffer.first + n>> ELSE <<"stale", n>>

\* The cells a value takes.
Cells(n) == {Cell(n + r) : r \in 0..(Width(ctx) - 1)}

Offset_ByIndex == m - j
Offset == Refs[m] - Refs[j]

\* vPrintReadValues: iCount values, labelled from the reference upwards, each
\* built from Width registers of batch_buffer + offset_units.
Values ==
  { [label |-> Refs[m] + v * Width(ctx), from |-> Cells(Offset + v * Width(ctx))] :
      v \in 0..(ctx.iCount - 1) }

PrintReference ==
  /\ pc = "print" /\ m < k
  /\ LET inside == Offset \in 0..(ReadQty - 1)
     IN /\ Check(inside, "offset", "print")
        /\ pvData' = IF inside THEN "stack" ELSE pvData
        /\ lines' = IF inside THEN Values ELSE lines
        /\ outcome' = IF inside THEN [outcome EXCEPT ![m] = "shown"] ELSE outcome
        /\ m' = IF inside THEN m + 1 ELSE m
  /\ UNCHANGED <<ctx, sig, link, saved, buffer, i, j, k, counters, status>>

EndBatch ==
  /\ pc = "print" /\ m >= k
  /\ j' = k
  /\ lines' = {}
  /\ Goto("batch")
  /\ UNCHANGED <<ctx, sig, link, memory, i, k, m, counters, status, outcome>>

\* The end of a slave's turn: pvData gets its block back, and the poll rate is
\* waited for after every slave.
EndTurn ==
  /\ pc = "batch" /\ (j > Len(Refs) \/ sig)
  /\ pvData' = saved
  /\ LET waits == ctx.bIsPolling /\ ~sig
     IN /\ Goto(IF waits THEN "delay" ELSE "turn")
        /\ i' = IF waits THEN i ELSE i + 1
  /\ UNCHANGED <<ctx, sig, link, saved, buffer, j, k, m, counters, status, output>>

Delay_SkipsASlave ==
  /\ pc = "delay"
  /\ i' = i + 2
  /\ Goto("turn")
  /\ UNCHANGED <<ctx, sig, link, memory, j, k, m, counters, status, output>>

Delay_StartsOver ==
  /\ pc = "delay"
  /\ i' = 1
  /\ Goto("turn")
  /\ UNCHANGED <<ctx, sig, link, memory, j, k, m, counters, status, output>>

\* mb_delay(iPollRate) and the i++ of the loop over the slaves.
Delay ==
  /\ pc = "delay"
  /\ i' = i + 1
  /\ Goto("turn")
  /\ UNCHANGED <<ctx, sig, link, memory, j, k, m, counters, status, output>>

Until_NeverEnds ==
  /\ pc = "until"
  /\ Goto(IF sig THEN "cleanup" ELSE "loop")
  /\ UNCHANGED <<ctx, sig, link, memory, indexes, counters, status, output>>

\* while (ctx.bIsPolling && !g_bExitSignal)
Until ==
  /\ pc = "until"
  /\ Goto(IF ctx.bIsPolling /\ ~sig THEN "loop" ELSE "cleanup")
  /\ UNCHANGED <<ctx, sig, link, memory, indexes, counters, status, output>>

-----------------------------------------------------------------------------
\* vReportSlaveID sets the slave without looking at the one addressed...
SetReportedSlave ==
  /\ pc = "report"
  /\ \/ /\ Address(Slaves[1])
        /\ Goto("reporting")
        /\ UNCHANGED failed
     \/ /\ failed' = TRUE
        /\ FailureExit("slave")
        /\ UNCHANGED busSlave
  /\ UNCHANGED <<ctx, sig, bus, memory, indexes, tx, rx, err, sent, late, status, output>>

\* ... and counts neither the request nor its failure.
ReportSlaveID ==
  /\ pc = "reporting"
  /\ Send
  /\ UNCHANGED failed \/ failed' = TRUE
  /\ Goto("cleanup")
  /\ UNCHANGED <<ctx, sig, link, memory, indexes, tx, rx, err, status, output>>

-----------------------------------------------------------------------------
\* vCleanup and the return of main.
Cleanup ==
  /\ pc = "cleanup"
  /\ pvData' = "null"
  /\ bus' = "none"
  /\ status' = IF err = 0 THEN "success" ELSE "failure"
  /\ Goto("done")
  /\ UNCHANGED <<ctx, sig, busSlave, saved, buffer, indexes, counters, output>>

\* vFailureExit through vCleanupContext, which leaves the bus to the system.
Fail ==
  /\ pc = "failing"
  /\ pvData' = "null"
  /\ status' = "failure"
  /\ Goto("done")
  /\ UNCHANGED <<ctx, sig, link, saved, buffer, indexes, counters, output>>

-----------------------------------------------------------------------------
\* A step of the process.
Step ==
  \/ Open \/ InstallHandler
  \/ Round \/ WriteOnce
  \/ BeginTurn \/ EndRound \/ BeginBatch \/ ExtendBatch \/ CloseBatch
  \/ SendRequest \/ Answered \/ NotAnswered
  \/ PrintReference \/ EndBatch \/ EndTurn \/ Delay \/ Until
  \/ SetReportedSlave \/ ReportSlaveID
  \/ Cleanup \/ Fail

Next == Step \/ SigInt \/ KilledBySigInt

Spec == Init /\ [][Next]_vars

\* The process is always scheduled again; a request returns within the response
\* timeout and a delay within the poll rate.  Nobody has to press Ctrl-C.
FairSpec == Spec /\ WF_vars(Step)
-----------------------------------------------------------------------------
(***************************************************************************)
(* What holds.                                                             *)
(***************************************************************************)
ControlOK ==
  /\ ctx \in Contexts
  /\ pc \in Pcs
  /\ bus \in {"none", "connected"} /\ busSlave \in Int
  /\ pvData \in {"null", "heap", "stack"} /\ saved \in {"null", "heap", "stack"}
  /\ why \in {"none", "open", "slave", "internal", "overflow", "offset"}
  /\ status \in {"none", "success", "failure", "killed"}
FlagsOK == sig \in BOOLEAN /\ failed \in BOOLEAN
IndexesOK ==
  /\ i \in 0..(Len(Slaves) + 1)
  /\ j \in 1..(Len(Refs) + 1) /\ k \in 1..(Len(Refs) + 1) /\ m \in 1..(Len(Refs) + 1)
CountersOK ==
  /\ tx \in 0..CountCap /\ rx \in 0..CountCap /\ err \in 0..CountCap
  /\ sent \in 0..CountCap /\ late \in Nat
OutputOK ==
  /\ buffer \in [slave : Int, first : Int, len : Int]
  /\ outcome \in [1..Len(Refs) -> Outcomes]

\* Every variable stays in its range: no index leaves its list.
TypeOK == ControlOK /\ FlagsOK /\ IndexesOK /\ CountersOK /\ OutputOK

\* Both ways out pass ctx.pvData to free: it is then the block vAllocate got, or
\* nothing, never the stack buffer it points to while a batch is printed - not
\* even when the way out starts inside the loop that prints (mbpoll.c:559, 598).
OnlyTheBlockIsFreed == pc \in {"cleanup", "failing"} => pvData \in {"null", "heap"}

RegistersAt(label) ==
  {<<Slaves[i], label - ctx.iPduOffset + r>> : r \in 0..(Width(ctx) - 1)}

\* A printed value is made of the registers its label names, of the slave whose
\* turn it is, as the answer to this batch brought them - not of what an earlier
\* answer left in batch_buffer, nor of a neighbour's registers.
ValuesAreTheirRegisters == \A l \in lines : l.from = RegistersAt(l.label)

\* From the first reference of a turn to the last, requests address the slave
\* whose turn it is, though the slave is set only when it changes.
RequestsGoToTheSlave ==
  pc \in {"batch", "scan", "request", "answer", "print"} =>
    bus = "connected" /\ busSlave = Slaves[i]

\* After SIGINT one more request may leave, the one the last look at
\* g_bExitSignal let through, and no second one.
AtMostOneLateRequest == late <= 1

\* The statistics know the fate of every request but one at the most: the one
\* that was on its way when SIGINT came, whose failure is not counted.
StatisticsMissAtMostOne ==
  ~ctx.bIsReportSlaveID /\ sent < CountCap =>
    LET known == rx + err + (IF pc = "answer" THEN 1 ELSE 0)
    IN sent = known \/ (sig /\ sent = known + 1)

\* A read that ends by itself with status 0 has shown every reference of every
\* slave: no request of any turn failed and no turn was cut short.
SuccessMeansAllShown ==
  status = "success" /\ Reads(ctx) /\ ~sig /\ Slaves # <<>> =>
    /\ ~failed
    /\ i = Len(Slaves) + 1
    /\ \A n \in 1..Len(Refs) : outcome[n] = "shown"

\* The checks before and after a request never stop a program whose parameters
\* were accepted, but for a single reference with too many two-register values.
ChecksOnlyStopWideReads ==
  /\ why \notin {"overflow", "offset"}
  /\ why = "internal" => ctx.bWide /\ Len(Refs) = 1 /\ Unit > MaxRegs

-----------------------------------------------------------------------------
(***************************************************************************)
(* What is ahead of the process: the legs to the end of main, a turn of    *)
(* each slave left being one of them, and the work left in this turn, to   *)
(* which a reference contributes no more than the steps it can take.       *)
(***************************************************************************)
LegsLeft ==
  CASE pc = "open" -> Len(Slaves) + 6
    [] pc = "arm" -> Len(Slaves) + 5
    [] pc = "loop" -> Len(Slaves) + 4
    [] pc \in {"turn", "delay"} -> Len(Slaves) + 4 - i
    [] pc \in {"batch", "scan", "request", "answer", "print"} -> Len(Slaves) + 4 - i
    [] pc = "report" -> 4
    [] pc \in {"reporting", "write"} -> 3
    [] pc = "until" -> 2
    [] pc \in {"cleanup", "failing"} -> 1
    [] pc = "done" -> 0

\* For the references from n to the last.
WorkFrom(n) == 6 * (Len(Refs) + 1 - n)

TurnLeft ==
  CASE pc = "turn" -> WorkFrom(1) + 2
    [] pc = "batch" -> WorkFrom(j) + 1
    [] pc = "scan" -> WorkFrom(j) - (k - j) + 1
    [] pc = "request" -> WorkFrom(j) - (k - j)
    [] pc = "answer" -> WorkFrom(j) - (k - j) - 1
    [] pc = "print" -> WorkFrom(j) - (k - j) - 2 - (m - j)
    [] OTHER -> 0

LessLeft == LegsLeft' < LegsLeft \/ (LegsLeft' = LegsLeft /\ TurnLeft' < TurnLeft)
NextRound == pc = "until" /\ pc' = "loop" /\ ctx.bIsPolling /\ ~sig

\* Nothing is done over again: a failed batch is not asked for a second time, a slave
\* that does not answer does not hold up the others, and only the while of a program
\* that polls and has not seen SIGINT goes back.  SIGINT itself takes nothing away
\* (mbpoll.c:452-634).
NothingIsRedone ==
  [][IF sig' # sig THEN UNCHANGED <<LegsLeft, TurnLeft>> ELSE LessLeft \/ NextRound]_vars

-----------------------------------------------------------------------------
SlaveIndexes == UNION {1..Len(c.piSlaveAddr) : c \in Contexts}

\* Once SIGINT is caught the program ends.
SigIntEnds == sig ~> pc = "done"

\* Without polling (-1, a write) the program ends by itself.
OneShotEnds == ~ctx.bIsPolling ~> pc = "done"

\* While the program polls, every slave of the list gets its turn again and again,
\* whatever the slaves answer.
EverySlaveIsPolled ==
  \A n \in SlaveIndexes :
    Reads(ctx) /\ ctx.bIsPolling /\ n <= Len(Slaves)
      ~> (pc = "batch" /\ i = n) \/ pc = "done"

-----------------------------------------------------------------------------
(***************************************************************************)
(* The loop keeps the promise of PollPromise.                              *)
(***************************************************************************)
Phase ==
  CASE pc \in {"batch", "scan", "request", "answer", "print"} -> "turn"
    [] pc \in {"cleanup", "failing", "done"} -> "over"
    [] OTHER -> "idle"

Promise == INSTANCE PollPromise WITH
  next   <- IF pc = "delay" THEN i + 1 ELSE i,
  phase  <- Phase,
  stop   <- sig,
  broken <- why # "none" \/ status = "killed"

\* The steps of the loop are steps of the promise, and it keeps going.
KeepsPromise == Promise!Spec

-----------------------------------------------------------------------------
(***************************************************************************)
(* What the documentation says and the code does not do.                   *)
(***************************************************************************)
\* doc/mbpoll.1, EXIT STATUS: 0 is "All frames were received without errors".
SuccessMeansNoError == status = "success" /\ ~sig => ~failed

\* The statistics: a frame that was received answers one that was transmitted.
ReceivedWereTransmitted ==
  pc = "cleanup" /\ ctx.bIsPolling /\ ~ctx.bIsWrite => rx <= tx

\* doc/mbpoll.1, -c: "Number of values to read (1-125 ...)".
AcceptedCountsAreRead == why # "internal"
=============================================================================
