-------------------------- MODULE PromiseProofs ---------------------------
(***************************************************************************)
(* That the loop of PollLoop keeps the promise of PollPromise, for every   *)
(* list, count and size of a request, and what its exit status and its     *)
(* statistics tell.                                                        *)
(*                                                                         *)
(* The parts below say how far a turn has come: which references are       *)
(* settled, that the batch being built is a run without a gap, and that,   *)
(* when it is sent, no longer one would have fitted.                       *)
(***************************************************************************)
EXTENDS PollLoopProofs

\* Where the process is in its rounds, and which end it has come to.
Course ==
  /\ status # "none" => pc = "done"
  /\ pc = "failing" => why # "none"
  /\ why # "none" => pc = "failing" \/ (pc = "done" /\ status = "failure")
  /\ pc \in {"open", "arm"} => i = 0
  /\ pc = "loop" /\ Reads(ctx) => i = 0 \/ (i > Len(Slaves) /\ ctx.bIsPolling)
  /\ Reads(ctx) /\ ~sig =>
       /\ pc \in {"until", "cleanup"} => i > Len(Slaves)
       /\ status = "success" => i > Len(Slaves)

\* The batch is a run, and the longest one when its request is sent.
Adjacent(n) == Refs[n + 1] = Refs[n] + Unit

Runs ==
  /\ pc \in InTurn \ {"batch"} => \A n \in j..(k - 2) : Adjacent(n)
  /\ pc \in {"request", "answer"} /\ k <= Len(Refs) =>
       ~(Adjacent(k - 1) /\ Refs[k] + Unit - Refs[j] <= MaxUnits(ctx))

\* The first reference of the turn that is neither shown nor failed.
First == IF pc = "print" THEN m ELSE j

Settled ==
  pc \in InTurn =>
    \A n \in 1..Len(Refs) :
      IF n < First THEN outcome[n] \in {"shown", "failed"}
      ELSE outcome[n] = IF pc = "print" /\ n < k THEN "answered" ELSE "pending"

\* While nothing has been counted as an error, all that was asked for is shown.
Spotless == Reads(ctx) /\ ~sig /\ err = 0

AllShown == \A n \in 1..Len(Refs) : outcome[n] = "shown"

Complete ==
  Spotless =>
    /\ pc \in InTurn => \A n \in 1..Len(Refs) : n < First => outcome[n] = "shown"
    /\ pc = "delay" => AllShown
    /\ pc = "turn" /\ i > 1 => AllShown
    /\ (pc \in {"until", "cleanup"} \/ status = "success") /\ Len(Slaves) > 0 => AllShown

\* A failure of a read is counted, or it is the end.
Failures ==
  /\ Reads(ctx) /\ failed /\ ~sig => err > 0 \/ why # "none"
  /\ status = "success" => err = 0

\* The one request whose fate is not counted is the last one.
Statistics ==
  ~ctx.bIsReportSlaveID /\ sent < CountCap =>
    LET known == rx + err + (IF pc = "answer" THEN 1 ELSE 0)
    IN \/ sent = known
       \/ /\ sent = known + 1 /\ sig
          /\ pc \in {"batch", "turn", "until", "cleanup", "failing", "done"}

PInv == IInv /\ Course /\ Runs /\ Settled /\ Complete /\ Failures /\ Statistics

-----------------------------------------------------------------------------
\* The facts about a state and its context that the steps below need.
LEMMA StateFacts ==
  ASSUME IInv, [Next]_vars
  PROVE  /\ ctx' = ctx /\ Slaves' = Slaves /\ Refs' = Refs /\ Unit' = Unit
         /\ MaxUnits(ctx)' = MaxUnits(ctx) /\ Reads(ctx)' = Reads(ctx)
         /\ Len(Slaves) \in Nat /\ Len(Refs) \in Nat
         /\ \A n \in 1..Len(Refs) : Refs[n] \in Int
         /\ Unit \in Nat /\ MaxUnits(ctx) \in Nat
         /\ ctx.bIsPolling \in BOOLEAN /\ ctx.bIsWrite \in BOOLEAN
         /\ ctx.bIsReportSlaveID \in BOOLEAN /\ Reads(ctx) \in BOOLEAN
         /\ i \in 0..(Len(Slaves) + 1)
         /\ j \in 1..(Len(Refs) + 1) /\ k \in 1..(Len(Refs) + 1) /\ m \in 1..(Len(Refs) + 1)
         /\ tx \in 0..CountCap /\ rx \in 0..CountCap /\ err \in 0..CountCap
         /\ sent \in 0..CountCap /\ CountCap \in Nat /\ CountCap >= 1
         /\ sig \in BOOLEAN /\ failed \in BOOLEAN
         /\ DOMAIN outcome = 1..Len(Refs)
PROOF
<1>1. ctx \in Contexts
  BY DEF IInv, TypeOK, ControlOK
<1>2. DOMAIN outcome = 1..Len(Refs)
  BY DEF IInv, TypeOK, OutputOK
<1> QED
  BY <1>1, <1>2, SameContext, ContextFacts, CapAssumption
  DEF IInv, TypeOK, IndexesOK, CountersOK, FlagsOK, Reads

LEMMA CourseStep == IInv /\ Course /\ [Next]_vars => Course'
PROOF
<1> SUFFICES ASSUME IInv, Course, [Next]_vars PROVE Course'
  OBVIOUS
<1>a. /\ ctx' = ctx /\ Slaves' = Slaves /\ Reads(ctx)' = Reads(ctx)
      /\ Len(Slaves) \in Nat /\ i \in 0..(Len(Slaves) + 1)
      /\ ctx.bIsPolling \in BOOLEAN /\ sig \in BOOLEAN
  BY StateFacts
<1>b. Flow
  BY DEF IInv
<1>c. Reads(ctx) => ~ctx.bIsWrite /\ ~ctx.bIsReportSlaveID
  BY DEF Reads
<1> USE <1>a, <1>b, <1>c DEF Course, Flow, InTurn, Goto, Check, FailureExit, indexes, ends, output
<1>1. CASE Open \/ InstallHandler \/ WriteOnce
  BY <1>1 DEF Open, InstallHandler, WriteOnce
<1>2. CASE Round \/ Until
  BY <1>2 DEF Round, Until
<1>3. CASE BeginTurn \/ EndRound
  BY <1>3 DEF BeginTurn, EndRound
<1>4. CASE BeginBatch \/ ExtendBatch \/ CloseBatch
  BY <1>4 DEF BeginBatch, ExtendBatch, CloseBatch
<1>5. CASE SendRequest \/ Answered \/ NotAnswered
  BY <1>5 DEF SendRequest, Answered, NotAnswered
<1>6. CASE PrintReference \/ EndBatch
  BY <1>6 DEF PrintReference, EndBatch
<1>7. CASE EndTurn \/ Delay
  BY <1>7 DEF EndTurn, Delay
<1>8. CASE SetReportedSlave \/ ReportSlaveID
  BY <1>8 DEF SetReportedSlave, ReportSlaveID
<1>9. CASE Cleanup \/ Fail
  BY <1>9 DEF Cleanup, Fail
<1>10. CASE SigInt \/ KilledBySigInt
  BY <1>10 DEF SigInt, KilledBySigInt
<1>11. CASE UNCHANGED vars
  BY <1>11 DEF vars
<1> QED
  BY <1>1, <1>2, <1>3, <1>4, <1>5, <1>6, <1>7, <1>8, <1>9, <1>10, <1>11 DEF Next, Step

\* Every reference of a batch is the unit after the one before it, and the
\* batch was closed only because the next one does not join it.
LEMMA RunsStep == IInv /\ Runs /\ [Next]_vars => Runs'
PROOF
<1> SUFFICES ASSUME IInv, Runs, [Next]_vars PROVE Runs'
  OBVIOUS
<1>a. /\ ctx' = ctx /\ Refs' = Refs /\ Unit' = Unit /\ MaxUnits(ctx)' = MaxUnits(ctx)
      /\ Len(Refs) \in Nat /\ j \in 1..(Len(Refs) + 1) /\ k \in 1..(Len(Refs) + 1)
  BY StateFacts
<1>b. \A n : Adjacent(n)' <=> Adjacent(n)
  BY <1>a DEF Adjacent
<1> USE <1>a, <1>b DEF Runs, InTurn, Goto, Check, FailureExit, indexes
<1>1. CASE BeginBatch
  BY <1>1 DEF BeginBatch
<1>2. CASE ExtendBatch
  <2>1. pc = "scan" /\ pc' = "scan" /\ j' = j /\ k' = k + 1 /\ Adjacent(k - 1)
    BY <1>2 DEF ExtendBatch, Joins, Adjacent
  <2>2. \A n \in j..(k' - 2) : n \in j..(k - 2) \/ n = k - 1
    BY <2>1
  <2> QED
    BY <2>1, <2>2
<1>3. CASE CloseBatch
  <2>1. pc = "scan" /\ ~Joins /\ j' = j /\ k' = k /\ pc' \in {"request", "failing"}
    BY <1>3 DEF CloseBatch
  <2>2. ASSUME k <= Len(Refs), pc' = "request"
        PROVE  ~(Adjacent(k - 1) /\ Refs[k] + Unit - Refs[j] <= MaxUnits(ctx))
    <3>1. ctx \in Contexts /\ Flow
      BY DEF IInv, TypeOK, ControlOK
    <3>2. Reads(ctx)
      BY <2>1, <3>1 DEF Flow
    <3>3. MaxRef + Unit <= IntMax /\ Refs[k] \in 0..MaxRef /\ Unit \in Nat
      BY <2>2, <3>1, <3>2, UnitFacts, ContextFacts
    <3>4. Refs[k] <= IntMax - Unit
      BY <3>3, LimitsAssumption
    <3> QED
      BY <2>1, <2>2, <3>4 DEF Joins, Adjacent
  <2> QED
    BY <2>1, <2>2
<1>4. CASE SendRequest \/ Answered \/ NotAnswered
  BY <1>4 DEF SendRequest, Answered, NotAnswered
<1>5. CASE PrintReference \/ EndBatch
  BY <1>5 DEF PrintReference, EndBatch
<1>6. CASE BeginTurn \/ EndTurn \/ EndRound
  BY <1>6 DEF BeginTurn, EndTurn, EndRound
<1>7. CASE Open \/ InstallHandler \/ Round \/ WriteOnce
  BY <1>7 DEF Open, InstallHandler, Round, WriteOnce
<1>8. CASE Delay \/ Until \/ SetReportedSlave \/ ReportSlaveID
  BY <1>8 DEF Delay, Until, SetReportedSlave, ReportSlaveID
<1>9. CASE Cleanup \/ Fail \/ SigInt \/ KilledBySigInt
  BY <1>9 DEF Cleanup, Fail, SigInt, KilledBySigInt
<1>10. CASE UNCHANGED vars
  BY <1>10 DEF vars
<1> QED
  BY <1>1, <1>2, <1>3, <1>4, <1>5, <1>6, <1>7, <1>8, <1>9, <1>10 DEF Next, Step

\* What has become of the references at each point of a turn.
LEMMA SettledStep == IInv /\ Settled /\ [Next]_vars => Settled'
PROOF
<1> SUFFICES ASSUME IInv, Settled, [Next]_vars PROVE Settled'
  OBVIOUS
<1>a. /\ ctx' = ctx /\ Refs' = Refs /\ Len(Refs) \in Nat
      /\ j \in 1..(Len(Refs) + 1) /\ k \in 1..(Len(Refs) + 1) /\ m \in 1..(Len(Refs) + 1)
      /\ DOMAIN outcome = 1..Len(Refs)
  BY StateFacts
<1>b. pc \in InTurn \ {"batch"} => j < k
  BY DEF IInv, Batch
<1>c. pc = "print" => m \in j..k
  BY DEF IInv, Batch
<1> USE <1>a, <1>b, <1>c DEF Settled, First, InTurn, Goto, Check, FailureExit, indexes, output
<1>1. CASE BeginTurn
  BY <1>1 DEF BeginTurn, Pending
<1>2. CASE BeginBatch \/ ExtendBatch \/ CloseBatch \/ SendRequest
  BY <1>2 DEF BeginBatch, ExtendBatch, CloseBatch, SendRequest
<1>3. CASE Answered
  <2>1. /\ pc = "answer" /\ pc' = "print" /\ m' = j /\ j' = j /\ k' = k
        /\ \A n \in 1..Len(Refs) :
             outcome'[n] = IF n \in j..(k - 1) THEN "answered" ELSE outcome[n]
    BY <1>3 DEF Answered, InBatch
  <2> QED
    BY <2>1
<1>4. CASE NotAnswered
  <2>1. /\ pc = "answer" /\ pc' = "batch" /\ j' = k
        /\ \A n \in 1..Len(Refs) :
             outcome'[n] = IF n \in j..(k - 1) THEN "failed" ELSE outcome[n]
    BY <1>4 DEF NotAnswered, InBatch
  <2> QED
    BY <2>1
<1>5. CASE PrintReference
  <2>1. pc = "print" /\ m < k /\ j' = j /\ k' = k
    BY <1>5 DEF PrintReference
  <2>2. \/ pc' = "failing"
        \/ pc' = "print" /\ m' = m + 1 /\ outcome' = [outcome EXCEPT ![m] = "shown"]
    BY <1>5 DEF PrintReference
  <2> QED
    BY <2>1, <2>2
<1>6. CASE EndBatch
  BY <1>6 DEF EndBatch
<1>7. CASE EndTurn \/ EndRound \/ Delay \/ Until
  BY <1>7 DEF EndTurn, EndRound, Delay, Until
<1>8. CASE Open \/ InstallHandler \/ Round \/ WriteOnce
  BY <1>8 DEF Open, InstallHandler, Round, WriteOnce
<1>9. CASE SetReportedSlave \/ ReportSlaveID \/ Cleanup \/ Fail
  BY <1>9 DEF SetReportedSlave, ReportSlaveID, Cleanup, Fail
<1>10. CASE SigInt \/ KilledBySigInt
  BY <1>10 DEF SigInt, KilledBySigInt
<1>11. CASE UNCHANGED vars
  BY <1>11 DEF vars
<1> QED
  BY <1>1, <1>2, <1>3, <1>4, <1>5, <1>6, <1>7, <1>8, <1>9, <1>10, <1>11 DEF Next, Step

\* An error of a read is counted where it happens, or ends the program.
LEMMA FailuresStep == IInv /\ Course /\ Failures /\ [Next]_vars => Failures'
PROOF
<1> SUFFICES ASSUME IInv, Course, Failures, [Next]_vars PROVE Failures'
  OBVIOUS
<1>a. /\ Reads(ctx)' = Reads(ctx) /\ err \in Nat /\ CountCap \in Nat /\ CountCap >= 1
      /\ sig \in BOOLEAN /\ failed \in BOOLEAN
  BY StateFacts
<1>b. Plus1(err) > 0 /\ Plus1(err) \in Nat
  BY <1>a DEF Plus1
<1>c. Flow /\ (Reads(ctx) => ~ctx.bIsWrite /\ ~ctx.bIsReportSlaveID)
  BY DEF IInv, Reads
<1> USE <1>a, <1>b, <1>c DEF Failures, Course, Flow, Goto, Check, FailureExit, counters, ends
<1>1. CASE Open \/ InstallHandler \/ Round
  BY <1>1 DEF Open, InstallHandler, Round
<1>2. CASE WriteOnce
  BY <1>2 DEF WriteOnce
<1>3. CASE BeginTurn \/ EndRound \/ BeginBatch \/ ExtendBatch \/ CloseBatch
  BY <1>3 DEF BeginTurn, EndRound, BeginBatch, ExtendBatch, CloseBatch
<1>4. CASE SendRequest \/ Answered
  BY <1>4 DEF SendRequest, Answered
<1>5. CASE NotAnswered
  BY <1>5 DEF NotAnswered, CountError
<1>6. CASE PrintReference \/ EndBatch \/ EndTurn \/ Delay \/ Until
  BY <1>6 DEF PrintReference, EndBatch, EndTurn, Delay, Until
<1>7. CASE SetReportedSlave \/ ReportSlaveID
  BY <1>7 DEF SetReportedSlave, ReportSlaveID
<1>8. CASE Cleanup \/ Fail
  BY <1>8 DEF Cleanup, Fail
<1>9. CASE SigInt \/ KilledBySigInt
  BY <1>9 DEF SigInt, KilledBySigInt
<1>10. CASE UNCHANGED vars
  BY <1>10 DEF vars
<1> QED
  BY <1>1, <1>2, <1>3, <1>4, <1>5, <1>6, <1>7, <1>8, <1>9, <1>10 DEF Next, Step

\* As long as no error is counted and nobody interrupts, a turn leaves nothing out.
LEMMA CompleteStep == IInv /\ Course /\ Complete /\ [Next]_vars => Complete'
PROOF
<1> SUFFICES ASSUME IInv, Course, Complete, [Next]_vars, Spotless' PROVE Complete'
  BY DEF Complete
<1>a. /\ Refs' = Refs /\ Slaves' = Slaves /\ Len(Refs) \in Nat /\ Len(Slaves) \in Nat
      /\ j \in 1..(Len(Refs) + 1) /\ k \in 1..(Len(Refs) + 1) /\ m \in 1..(Len(Refs) + 1)
      /\ i \in 0..(Len(Slaves) + 1) /\ DOMAIN outcome = 1..Len(Refs)
      /\ Reads(ctx)' = Reads(ctx) /\ err \in Nat /\ CountCap \in Nat /\ CountCap >= 1
      /\ sig \in BOOLEAN
  BY StateFacts
<1>b. pc = "print" => m \in j..k
  BY DEF IInv, Batch
<1>c. Flow /\ Reads(ctx) /\ ~ctx.bIsWrite /\ ~ctx.bIsReportSlaveID
  BY <1>a DEF IInv, Spotless, Reads
<1>d. Plus1(err) > 0
  BY <1>a DEF Plus1
<1> USE <1>a, <1>b, <1>c, <1>d DEF Complete, Spotless, AllShown, Course, Flow, First, InTurn,
      Goto, Check, FailureExit, indexes, output, counters, ends
<1>1. CASE Open \/ InstallHandler \/ Round \/ WriteOnce
  BY <1>1 DEF Open, InstallHandler, Round, WriteOnce
<1>2. CASE BeginTurn \/ EndRound
  BY <1>2 DEF BeginTurn, EndRound
<1>3. CASE BeginBatch \/ ExtendBatch \/ CloseBatch \/ SendRequest
  BY <1>3 DEF BeginBatch, ExtendBatch, CloseBatch, SendRequest
<1>4. CASE Answered
  <2>1. /\ pc = "answer" /\ pc' = "print" /\ m' = j /\ sig' = sig /\ err' = err
        /\ \A n \in 1..Len(Refs) : n < j => outcome'[n] = outcome[n]
    BY <1>4 DEF Answered, InBatch
  <2>2. status' = status
    BY <1>4 DEF Answered
  <2> QED
    BY <2>1, <2>2
<1>5. CASE NotAnswered
  BY <1>5 DEF NotAnswered, CountError
<1>6. CASE PrintReference
  <2>1. pc = "print" /\ m < k /\ sig' = sig /\ err' = err /\ status' = status
    BY <1>6 DEF PrintReference
  <2>2. \/ pc' = "failing"
        \/ pc' = "print" /\ m' = m + 1 /\ outcome' = [outcome EXCEPT ![m] = "shown"]
    BY <1>6 DEF PrintReference
  <2> QED
    BY <2>1, <2>2
<1>7. CASE EndBatch
  BY <1>7 DEF EndBatch
<1>8. CASE EndTurn
  BY <1>8 DEF EndTurn
<1>9. CASE Delay \/ Until
  BY <1>9 DEF Delay, Until
<1>10. CASE SetReportedSlave \/ ReportSlaveID
  BY <1>10 DEF SetReportedSlave, ReportSlaveID
<1>11. CASE Cleanup \/ Fail
  BY <1>11 DEF Cleanup, Fail
<1>12. CASE SigInt \/ KilledBySigInt
  BY <1>12 DEF SigInt, KilledBySigInt
<1>13. CASE UNCHANGED vars
  BY <1>13 DEF vars
<1> QED
  BY <1>1, <1>2, <1>3, <1>4, <1>5, <1>6, <1>7, <1>8, <1>9, <1>10, <1>11, <1>12, <1>13
    DEF Next, Step

\* A request is counted when it is settled, but for one that fails after SIGINT;
\* from there no other leaves.
LEMMA StatisticsStep == IInv /\ Statistics /\ [Next]_vars => Statistics'
PROOF
<1> SUFFICES ASSUME IInv, Statistics, [Next]_vars PROVE Statistics'
  OBVIOUS
<1>a. /\ ctx' = ctx /\ rx \in 0..CountCap /\ err \in 0..CountCap /\ sent \in 0..CountCap
      /\ CountCap \in Nat /\ CountCap >= 1 /\ sig \in BOOLEAN
  BY StateFacts
<1>b. Flow
  BY DEF IInv
<1> USE <1>a, <1>b DEF Statistics, Flow, Goto, Check, FailureExit, Plus1, counters
<1>1. CASE Open \/ InstallHandler \/ Round
  BY <1>1 DEF Open, InstallHandler, Round
<1>2. CASE WriteOnce
  BY <1>2 DEF WriteOnce, Send
<1>3. CASE BeginTurn \/ EndRound \/ BeginBatch \/ ExtendBatch \/ CloseBatch
  BY <1>3 DEF BeginTurn, EndRound, BeginBatch, ExtendBatch, CloseBatch
<1>4. CASE SendRequest
  BY <1>4 DEF SendRequest, Send
<1>5. CASE Answered
  BY <1>5 DEF Answered
<1>6. CASE NotAnswered
  BY <1>6 DEF NotAnswered, CountError
<1>7. CASE PrintReference \/ EndBatch \/ EndTurn \/ Delay \/ Until
  BY <1>7 DEF PrintReference, EndBatch, EndTurn, Delay, Until
<1>8. CASE SetReportedSlave \/ ReportSlaveID
  BY <1>8 DEF SetReportedSlave, ReportSlaveID
<1>9. CASE Cleanup \/ Fail
  BY <1>9 DEF Cleanup, Fail
<1>10. CASE SigInt \/ KilledBySigInt
  BY <1>10 DEF SigInt, KilledBySigInt
<1>11. CASE UNCHANGED vars
  BY <1>11 DEF vars
<1> QED
  BY <1>1, <1>2, <1>3, <1>4, <1>5, <1>6, <1>7, <1>8, <1>9, <1>10, <1>11 DEF Next, Step

-----------------------------------------------------------------------------
LEMMA InitPInv == Init => PInv
PROOF
<1> SUFFICES ASSUME Init PROVE PInv
  OBVIOUS
<1>1. IInv
  BY InitInvariant
<1>2. Course /\ Runs /\ Settled /\ Complete
  BY DEF Init, Course, Runs, Settled, Complete, Spotless, InTurn
<1>3. Failures /\ Statistics
  BY DEF Init, Failures, Statistics
<1> QED
  BY <1>1, <1>2, <1>3 DEF PInv

LEMMA StepPInv == PInv /\ [Next]_vars => PInv'
PROOF
<1> SUFFICES ASSUME PInv, [Next]_vars PROVE PInv'
  OBVIOUS
<1>1. IInv /\ IInv'
  BY StepInvariant DEF PInv
<1>2. Course' /\ Runs' /\ Settled'
  BY CourseStep, RunsStep, SettledStep DEF PInv
<1>3. Complete' /\ Failures' /\ Statistics'
  BY CompleteStep, FailuresStep, StatisticsStep DEF PInv
<1> QED
  BY <1>1, <1>2, <1>3 DEF PInv

\* The promise reads the context as the loop does.
LEMMA SameWords ==
  /\ Promise!Refs = Refs /\ Promise!Slaves = Slaves /\ Promise!Unit = Unit
  /\ Promise!Indexes = 1..Len(Refs)
  /\ Promise!MaxUnits(ctx) = MaxUnits(ctx) /\ Promise!Reads(ctx) = Reads(ctx)
PROOF
<1>1. Promise!Refs = Refs /\ Promise!Slaves = Slaves /\ Promise!Indexes = 1..Len(Refs)
  BY DEF Promise!Refs, Promise!Slaves, Promise!Indexes, Refs, Slaves
<1>2. Promise!Unit = Unit
  BY DEF Promise!Unit, Promise!RegisterCount, Promise!Width, Unit, RegisterCount, Width
<1>3. Promise!MaxUnits(ctx) = MaxUnits(ctx)
  BY DEF Promise!MaxUnits, Promise!UsesBinary, MaxUnits, UsesBinary
<1>4. Promise!Reads(ctx) = Reads(ctx)
  BY DEF Promise!Reads, Reads
<1> QED
  BY <1>1, <1>2, <1>3, <1>4

\* A step that changes nothing the promise speaks of.
Unseen ==
  UNCHANGED <<ctx, outcome, sig>> /\ Phase' = Phase
  /\ (IF pc' = "delay" THEN i' + 1 ELSE i') = (IF pc = "delay" THEN i + 1 ELSE i)
  /\ (why' # "none" \/ status' = "killed") = (why # "none" \/ status = "killed")

LEMMA UnseenStutters == Unseen => UNCHANGED Promise!vars
  BY DEF Unseen, Promise!vars

\* A way out by vFailureExit, or the default action of SIGINT.
Breaks ==
  /\ UNCHANGED <<ctx, outcome, sig>> /\ Phase' = "over"
  /\ (IF pc' = "delay" THEN i' + 1 ELSE i') = (IF pc = "delay" THEN i + 1 ELSE i)
  /\ why' # "none" \/ status' = "killed"

LEMMA BreaksBreak == Breaks => Promise!Break
  BY DEF Breaks, Promise!Break

\* The batch of the request is the next block of the promise.
LEMMA BatchIsBlock ==
  ASSUME PInv, [Next]_vars, pc = "answer"
  PROVE  /\ j \in 1..Len(Refs) /\ k - 1 \in 1..Len(Refs)
         /\ Promise!IsFirst(j, "pending") /\ Promise!IsBlock(j, k - 1)
PROOF
<1>a. /\ Len(Refs) \in Nat /\ j \in 1..(Len(Refs) + 1) /\ k \in 1..(Len(Refs) + 1)
      /\ \A n \in 1..Len(Refs) : Refs[n] \in Int
      /\ Unit \in Nat /\ MaxUnits(ctx) \in Nat
  BY StateFacts DEF PInv
<1>b. j < k /\ ReadQty \in 1..MaxUnits(ctx)
  BY DEF PInv, IInv, Batch, InTurn
<1>c. /\ \A n \in j..(k - 2) : Adjacent(n)
      /\ k <= Len(Refs) => ~(Adjacent(k - 1) /\ Refs[k] + Unit - Refs[j] <= MaxUnits(ctx))
  BY DEF PInv, Runs, InTurn
<1>1. j \in 1..Len(Refs) /\ k - 1 \in 1..Len(Refs) /\ j <= k - 1
  BY <1>a, <1>b
<1>2. Promise!IsFirst(j, "pending")
  BY <1>1 DEF PInv, Settled, First, InTurn, Promise!IsFirst
<1>3. \A n \in j..((k - 1) - 1) : Promise!Adjacent(n)
  BY <1>a, <1>c, SameWords DEF Adjacent, Promise!Adjacent
<1>4. Promise!OneRequest(j, k - 1)
  BY <1>b, SameWords DEF ReadQty, Promise!OneRequest
<1>5. ASSUME k - 1 < Len(Promise!Refs)
      PROVE  ~(Promise!Adjacent(k - 1) /\ Promise!OneRequest(j, (k - 1) + 1))
  <2>1. k <= Len(Refs) /\ (k - 1) + 1 = k
    BY <1>5, <1>a, SameWords
  <2>2. Promise!Adjacent(k - 1) => Adjacent(k - 1)
    BY SameWords DEF Adjacent, Promise!Adjacent
  <2>3. Promise!OneRequest(j, (k - 1) + 1) => Refs[k] + Unit - Refs[j] <= MaxUnits(ctx)
    BY <2>1, <1>a, SameWords DEF Promise!OneRequest
  <2> QED
    BY <2>1, <2>2, <2>3, <1>c
<1>6. Promise!IsBlock(j, k - 1)
  BY <1>1, <1>3, <1>4, <1>5 DEF Promise!IsBlock
<1> QED
  BY <1>1, <1>2, <1>6

\* Each step of the loop is a step of the promise, or one it does not see.
LEMMA StepPromise == PInv /\ [Next]_vars => [Promise!Next]_(Promise!vars)
PROOF
<1> SUFFICES ASSUME PInv, [Next]_vars PROVE Promise!Next \/ UNCHANGED Promise!vars
  OBVIOUS
<1>a. /\ ctx' = ctx /\ Refs' = Refs /\ Slaves' = Slaves /\ Len(Refs) \in Nat /\ Len(Slaves) \in Nat
      /\ j \in 1..(Len(Refs) + 1) /\ k \in 1..(Len(Refs) + 1) /\ m \in 1..(Len(Refs) + 1)
      /\ i \in 0..(Len(Slaves) + 1) /\ DOMAIN outcome = 1..Len(Refs)
      /\ sig \in BOOLEAN /\ ctx.bIsPolling \in BOOLEAN
  BY StateFacts DEF PInv
<1>b. Flow /\ Course /\ Settled
  BY DEF PInv, IInv
<1>c. Reads(ctx) <=> ~ctx.bIsWrite /\ ~ctx.bIsReportSlaveID
  BY DEF Reads
<1>1. CASE Open
  <2>1. Unseen \/ Breaks
    BY <1>1, <1>b DEF Open, Unseen, Breaks, Phase, Course, Goto, Check, FailureExit, indexes, output
  <2> QED
    BY <2>1, UnseenStutters, BreaksBreak DEF Promise!Next
<1>2. CASE InstallHandler \/ WriteOnce \/ EndRound
  <2>1. Unseen
    BY <1>2 DEF InstallHandler, WriteOnce, EndRound, Unseen, Phase, Goto, indexes, output
  <2> QED
    BY <2>1, UnseenStutters
<1>3. CASE Round
  <2>1. /\ pc = "loop" /\ Phase = "idle" /\ UNCHANGED <<ctx, outcome, sig, why, status>>
    BY <1>3 DEF Round, Phase, Goto, output
  <2>2. CASE sig
    <3>1. Phase' = "over" /\ i' = i /\ pc' = "cleanup"
      BY <1>3, <2>2 DEF Round, Phase, Goto
    <3>2. Promise!Finish
      BY <2>1, <2>2, <3>1 DEF Promise!Finish
    <3> QED
      BY <3>2 DEF Promise!Next, Promise!Progress
  <2>3. CASE ~sig /\ ctx.bIsWrite
    <3>1. Unseen
      BY <1>3, <2>1, <2>3 DEF Round, Phase, Goto, Unseen
    <3> QED
      BY <3>1, UnseenStutters
  <2>4. CASE ~sig /\ ~ctx.bIsWrite
    <3>1. Phase' = "idle" /\ i' = 1 /\ pc' = "turn"
      BY <1>3, <2>4 DEF Round, Phase, Goto
    <3>2. Reads(ctx) /\ (i = 0 \/ (i > Len(Slaves) /\ ctx.bIsPolling))
      BY <2>1, <2>4, <1>b, <1>c DEF Flow, Course
    <3>3. Promise!NewRound
      BY <2>1, <2>4, <3>1, <3>2, SameWords DEF Promise!NewRound
    <3> QED
      BY <3>3 DEF Promise!Next, Promise!Progress
  <2> QED
    BY <2>2, <2>3, <2>4
<1>4. CASE BeginTurn
  <2>1. /\ pc = "turn" /\ i \in 1..Len(Slaves) /\ ~sig /\ Phase = "idle" /\ i' = i
        /\ UNCHANGED <<ctx, sig, status>>
    BY <1>4, <1>a, <1>b DEF BeginTurn, Phase, Flow, InTurn
  <2>2. CASE pc' = "batch" /\ outcome' = Pending /\ why' = why
    <3>1. Phase' = "turn"
      BY <2>2 DEF Phase
    <3>2. Promise!StartTurn
      BY <2>1, <2>2, <3>1, SameWords DEF Promise!StartTurn, Pending
    <3> QED
      BY <3>2 DEF Promise!Next, Promise!Progress
  <2>3. CASE pc' = "failing" /\ outcome' = outcome /\ why' = "slave"
    <3>1. Breaks
      BY <2>1, <2>3 DEF Breaks, Phase
    <3> QED
      BY <3>1, BreaksBreak DEF Promise!Next
  <2> QED
    BY <1>4, <2>2, <2>3 DEF BeginTurn, Goto, FailureExit, Check
<1>5. CASE BeginBatch \/ CloseBatch
  <2>1. Unseen \/ Breaks
    BY <1>5 DEF BeginBatch, CloseBatch, Unseen, Breaks, Phase, Check, indexes, output
  <2> QED
    BY <2>1, UnseenStutters, BreaksBreak DEF Promise!Next
<1>6. CASE ExtendBatch \/ SendRequest \/ EndBatch
  <2>1. Unseen
    BY <1>6 DEF ExtendBatch, SendRequest, EndBatch, Unseen, Phase, Goto, indexes, output
  <2> QED
    BY <2>1, UnseenStutters
<1>7. CASE Answered \/ NotAnswered
  <2>1. /\ pc = "answer" /\ Phase = "turn" /\ Phase' = "turn" /\ i' = i /\ pc' \in {"print", "batch"}
        /\ UNCHANGED <<ctx, sig, why, status>>
    BY <1>7 DEF Answered, NotAnswered, Phase, Goto
  <2>2. /\ j \in 1..Len(Refs) /\ k - 1 \in 1..Len(Refs)
        /\ Promise!IsFirst(j, "pending") /\ Promise!IsBlock(j, k - 1)
    BY <2>1, BatchIsBlock
  <2>3. Promise!Settle(j, k - 1, "answered") \/ Promise!Settle(j, k - 1, "failed")
    BY <1>7, <1>a, SameWords DEF Answered, NotAnswered, InBatch, Promise!Settle
  <2>4. Promise!Request
    BY <2>1, <2>2, <2>3, SameWords DEF Promise!Request
  <2> QED
    BY <2>4 DEF Promise!Next, Promise!Progress
<1>8. CASE PrintReference
  <2>1. /\ pc = "print" /\ m < k /\ m \in 1..Len(Refs) /\ Phase = "turn"
        /\ UNCHANGED <<ctx, sig, status, i>>
    BY <1>8, <1>a DEF PrintReference, Phase
  <2>2. CASE pc' = "failing" /\ outcome' = outcome /\ why' = "offset"
    <3>1. Breaks
      BY <2>1, <2>2 DEF Breaks, Phase
    <3> QED
      BY <3>1, BreaksBreak DEF Promise!Next
  <2>3. CASE pc' = "print" /\ outcome' = [outcome EXCEPT ![m] = "shown"] /\ why' = why
    <3>1. Phase' = "turn"
      BY <2>3 DEF Phase
    <3>2. Promise!IsFirst(m, "answered")
      BY <2>1, <1>a, <1>b DEF Settled, First, InTurn, Promise!IsFirst
    <3>3. Promise!Settle(m, m, "shown")
      <4>1. outcome \in [1..Len(Refs) -> Outcomes]
        BY DEF PInv, IInv, TypeOK, OutputOK
      <4>2. \A n \in 1..Len(Refs) : n \in m..m <=> n = m
        BY <2>1, <1>a
      <4>3. outcome' = [n \in 1..Len(Refs) |-> IF n \in m..m THEN "shown" ELSE outcome[n]]
        BY <2>1, <2>3, <4>1, <4>2
      <4> QED
        BY <4>3, SameWords DEF Promise!Settle
    <3>4. Promise!Show
      BY <2>1, <2>3, <3>1, <3>2, <3>3, SameWords DEF Promise!Show
    <3> QED
      BY <3>4 DEF Promise!Next, Promise!Progress
  <2> QED
    BY <1>8, <2>1, <2>2, <2>3 DEF PrintReference, Check
<1>9. CASE EndTurn
  <2>1. /\ pc = "batch" /\ (j > Len(Refs) \/ sig) /\ Phase = "turn" /\ Phase' = "idle"
        /\ UNCHANGED <<ctx, sig, why, status, outcome>>
        /\ (pc' = "delay" /\ i' = i) \/ (pc' = "turn" /\ i' = i + 1)
    BY <1>9 DEF EndTurn, Phase, Goto, output
  <2>2. \A n \in 1..Len(Refs) :
          outcome[n] \in {"shown", "failed"} \/ (outcome[n] = "pending" /\ sig)
    BY <2>1, <1>a, <1>b DEF Settled, First, InTurn
  <2>3. Promise!EndTurn
    BY <2>1, <2>2, SameWords DEF Promise!EndTurn
  <2> QED
    BY <2>3 DEF Promise!Next, Promise!Progress
<1>10. CASE Delay
  <2>1. Unseen
    BY <1>10 DEF Delay, Unseen, Phase, Goto, output
  <2> QED
    BY <2>1, UnseenStutters
<1>11. CASE Until
  <2>1. CASE ctx.bIsPolling /\ ~sig
    <3>1. Unseen
      BY <1>11, <2>1 DEF Until, Unseen, Phase, Goto, indexes, output
    <3> QED
      BY <3>1, UnseenStutters
  <2>2. CASE ~(ctx.bIsPolling /\ ~sig)
    <3>1. /\ pc = "until" /\ pc' = "cleanup" /\ Phase = "idle" /\ Phase' = "over"
          /\ UNCHANGED <<ctx, sig, why, status, outcome, i>>
      BY <1>11, <2>2 DEF Until, Phase, Goto, indexes, output
    <3>2. sig \/ ~Reads(ctx) \/ (i > Len(Slaves) /\ ~ctx.bIsPolling)
      BY <2>2, <3>1, <1>a, <1>b DEF Course
    <3>3. Promise!Finish
      BY <3>1, <3>2, SameWords DEF Promise!Finish
    <3> QED
      BY <3>3 DEF Promise!Next, Promise!Progress
  <2> QED
    BY <2>1, <2>2
<1>12. CASE SetReportedSlave
  <2>1. Unseen \/ Breaks
    BY <1>12 DEF SetReportedSlave, Unseen, Breaks, Phase, Goto, Check, FailureExit, indexes, output
  <2> QED
    BY <2>1, UnseenStutters, BreaksBreak DEF Promise!Next
<1>13. CASE ReportSlaveID
  <2>1. /\ pc = "reporting" /\ pc' = "cleanup" /\ Phase = "idle" /\ Phase' = "over"
        /\ UNCHANGED <<ctx, sig, why, status, outcome, i>>
    BY <1>13 DEF ReportSlaveID, Phase, Goto, indexes, output
  <2>2. ~Reads(ctx)
    BY <2>1, <1>b, <1>c DEF Flow
  <2>3. Promise!Finish
    BY <2>1, <2>2, SameWords DEF Promise!Finish
  <2> QED
    BY <2>3 DEF Promise!Next, Promise!Progress
<1>14. CASE Cleanup \/ Fail
  <2>1. Unseen
    BY <1>14, <1>b DEF Cleanup, Fail, Unseen, Phase, Course, Goto, indexes, output
  <2> QED
    BY <2>1, UnseenStutters
<1>15. CASE SigInt
  <2>1. sig' = TRUE /\ UNCHANGED <<ctx, pc, i, why, status, outcome>>
    BY <1>15 DEF SigInt, indexes, output
  <2>2. Promise!Stop
    BY <2>1 DEF Promise!Stop, Phase
  <2> QED
    BY <2>2 DEF Promise!Next
<1>16. CASE KilledBySigInt
  <2>1. Breaks
    BY <1>16 DEF KilledBySigInt, Breaks, Phase, indexes, output
  <2> QED
    BY <2>1, BreaksBreak DEF Promise!Next
<1>17. CASE UNCHANGED vars
  <2>1. Unseen
    BY <1>17 DEF vars, Unseen, Phase
  <2> QED
    BY <2>1, UnseenStutters
<1> QED
  BY <1>1, <1>2, <1>3, <1>4, <1>5, <1>6, <1>7, <1>8, <1>9, <1>10, <1>11, <1>12, <1>13, <1>14, <1>15,
    <1>16, <1>17 DEF Next, Step

-----------------------------------------------------------------------------
\* How far a turn has come, at every point of the loop (mbpoll.c:474-631).
THEOREM TurnInvariant == Spec => []PInv
PROOF
<1>1. Init => PInv
  BY InitPInv
<1>2. PInv /\ [Next]_vars => PInv'
  BY StepPInv
<1> QED
  BY <1>1, <1>2, PTL DEF Spec

\* rx and err together know every request but the one that SIGINT met on the bus
\* (mbpoll.c:591, 614-620).
THEOREM AtMostOneIsMissed == Spec => []StatisticsMissAtMostOne
PROOF
<1>1. PInv => StatisticsMissAtMostOne
  BY DEF PInv, Statistics, StatisticsMissAtMostOne
<1> QED
  BY <1>1, TurnInvariant, PTL

\* A read that was not interrupted and ends with status 0 has shown all it was
\* asked for (mbpoll.c:634-640, 887-922).
THEOREM SuccessIsComplete == Spec => []SuccessMeansAllShown
PROOF
<1>1. PInv => SuccessMeansAllShown
  <2> SUFFICES ASSUME PInv, status = "success", Reads(ctx), ~sig, Slaves # <<>>
               PROVE  /\ ~failed /\ i = Len(Slaves) + 1
                      /\ \A n \in 1..Len(Refs) : outcome[n] = "shown"
    BY DEF SuccessMeansAllShown
  <2>1. /\ Slaves \in Seq(0..MaxSlave) /\ Len(Slaves) \in Nat /\ i \in 0..(Len(Slaves) + 1)
        /\ err \in Nat /\ failed \in BOOLEAN
    BY ContextFacts, CapAssumption
    DEF PInv, IInv, TypeOK, ControlOK, IndexesOK, CountersOK, FlagsOK
  <2>2. Len(Slaves) > 0
    BY <2>1
  <2>3. err = 0 /\ why = "none" /\ i > Len(Slaves)
    BY DEF PInv, Failures, Course
  <2>4. ~failed
    BY <2>1, <2>3 DEF PInv, Failures
  <2>5. \A n \in 1..Len(Refs) : outcome[n] = "shown"
    BY <2>2, <2>3 DEF PInv, Complete, Spotless, AllShown
  <2> QED
    BY <2>1, <2>3, <2>4, <2>5
<1> QED
  BY <1>1, TurnInvariant, PTL

\* The loop does nothing but what PollPromise allows: slaves in turn, the longest
\* blocks, each answered or failed as a whole and shown in order (mbpoll.c:452-634).
THEOREM LoopKeepsPromise == Spec => Promise!Safe
PROOF
<1>1. Init => Promise!Init
  BY SameWords DEF Init, Promise!Init, Phase, Pending
<1>2. PInv /\ [Next]_vars => [Promise!Next]_(Promise!vars)
  BY StepPromise
<1> QED
  BY <1>1, <1>2, TurnInvariant, PTL DEF Spec, Promise!Safe

-----------------------------------------------------------------------------
(***************************************************************************)
(* The loop runs down.  WorkFrom gives a reference six steps: one for the  *)
(* scan, one for its value, and what is over pays for the request, the     *)
(* answer and the way back to the head of the batch.                       *)
(***************************************************************************)
LEMMA LeftIsNat == IInv => LegsLeft \in Nat /\ TurnLeft \in Nat
PROOF
<1> SUFFICES ASSUME IInv PROVE LegsLeft \in Nat /\ TurnLeft \in Nat
  OBVIOUS
<1>1. ctx \in Contexts /\ pc \in Pcs
  BY DEF IInv, TypeOK, ControlOK
<1>2. /\ Len(Slaves) \in Nat /\ Len(Refs) \in Nat /\ i \in 0..(Len(Slaves) + 1)
      /\ j \in 1..(Len(Refs) + 1) /\ k \in 1..(Len(Refs) + 1)
  BY <1>1, ContextFacts DEF IInv, TypeOK, IndexesOK
<1>3. pc \in {"scan", "request", "answer", "print"} => j < k /\ (pc = "print" => m \in j..k)
  BY DEF IInv, Batch, InTurn
<1>4. LegsLeft \in Nat
  BY <1>1, <1>2 DEF LegsLeft, Pcs
<1>5. TurnLeft \in Nat
  <2>1. CASE pc \in {"scan", "request", "answer"}
    <3>1. WorkFrom(j) - (k - j) - 1 \in Nat
      BY <1>2, <1>3, <2>1 DEF WorkFrom
    <3>2. WorkFrom(j) - (k - j) \in Nat /\ WorkFrom(j) - (k - j) + 1 \in Nat
      BY <1>2, <1>3, <2>1 DEF WorkFrom
    <3> QED
      BY <2>1, <3>1, <3>2 DEF TurnLeft
  <2>2. CASE pc = "print"
    <3>1. m \in Int /\ m <= k /\ j < k
      BY <1>2, <1>3, <2>2
    <3>2. WorkFrom(j) - (k - j) - 2 - (m - j) \in Nat
      BY <1>2, <3>1 DEF WorkFrom
    <3> QED
      BY <2>2, <3>2 DEF TurnLeft
  <2>3. CASE pc \notin {"scan", "request", "answer", "print"}
    <3>1. WorkFrom(1) + 2 \in Nat /\ WorkFrom(j) + 1 \in Nat
      BY <1>2 DEF WorkFrom
    <3> QED
      BY <2>3, <3>1 DEF TurnLeft
  <2> QED
    BY <2>1, <2>2, <2>3
<1> QED
  BY <1>4, <1>5

LEMMA StepRunsDown ==
  ASSUME IInv, Step
  PROVE  LessLeft \/ NextRound
PROOF
<1>a. /\ Slaves' = Slaves /\ Refs' = Refs /\ Len(Slaves) \in Nat /\ Len(Refs) \in Nat
      /\ i \in 0..(Len(Slaves) + 1)
      /\ j \in 1..(Len(Refs) + 1) /\ k \in 1..(Len(Refs) + 1)
      /\ ctx.bIsPolling \in BOOLEAN /\ sig \in BOOLEAN
  BY StateFacts DEF Next
<1>b. pc \in {"scan", "request", "answer", "print"} => j < k
  BY DEF IInv, Batch, InTurn
<1>c. pc = "print" => m \in j..k
  BY DEF IInv, Batch
<1>d. /\ pc \in InTurn \cup {"delay"} => i \in 1..Len(Slaves)
      /\ pc = "turn" => i >= 1
  BY DEF IInv, Flow
<1> USE <1>a, <1>b, <1>c, <1>d DEF LessLeft, LegsLeft, TurnLeft, WorkFrom, InTurn,
      Goto, Check, FailureExit, indexes
<1>1. CASE Open \/ InstallHandler
  BY <1>1 DEF Open, InstallHandler
<1>2. CASE Round \/ WriteOnce
  BY <1>2 DEF Round, WriteOnce
<1>3. CASE BeginTurn \/ EndRound
  BY <1>3 DEF BeginTurn, EndRound
<1>4. CASE BeginBatch
  BY <1>4 DEF BeginBatch
<1>5. CASE ExtendBatch
  <2>1. pc = "scan" /\ pc' = "scan" /\ i' = i /\ j' = j /\ k' = k + 1
    BY <1>5 DEF ExtendBatch
  <2>2. LegsLeft' = LegsLeft /\ TurnLeft = WorkFrom(j) - (k - j) + 1 /\ TurnLeft' = WorkFrom(j) - (k + 1 - j) + 1
    BY <2>1
  <2> HIDE DEF LegsLeft, TurnLeft
  <2> QED
    BY <2>2
<1>e. CASE CloseBatch
  <2>1. pc = "scan" /\ pc' \in {"request", "failing"} /\ i' = i /\ j' = j /\ k' = k
    BY <1>e DEF CloseBatch
  <2>2. CASE pc' = "failing"
    BY <2>1, <2>2
  <2>3. CASE pc' = "request"
    <3>1. LegsLeft' = LegsLeft /\ TurnLeft = WorkFrom(j) - (k - j) + 1 /\ TurnLeft' = WorkFrom(j) - (k - j)
      BY <2>1, <2>3
    <3> HIDE DEF LegsLeft, TurnLeft
    <3> QED
      BY <3>1
  <2> QED
    BY <2>1, <2>2, <2>3
<1>6. CASE SendRequest
  <2>1. pc = "request" /\ pc' = "answer" /\ i' = i /\ j' = j /\ k' = k
    BY <1>6 DEF SendRequest
  <2>2. LegsLeft' = LegsLeft /\ TurnLeft = WorkFrom(j) - (k - j) /\ TurnLeft' = WorkFrom(j) - (k - j) - 1
    BY <2>1
  <2> HIDE DEF LegsLeft, TurnLeft
  <2> QED
    BY <2>2
<1>f. CASE Answered
  <2>1. pc = "answer" /\ pc' = "print" /\ i' = i /\ j' = j /\ k' = k /\ m' = j
    BY <1>f DEF Answered
  <2>2. LegsLeft' = LegsLeft /\ TurnLeft = WorkFrom(j) - (k - j) - 1 /\ TurnLeft' = WorkFrom(j) - (k - j) - 2 - (j - j)
    BY <2>1
  <2> HIDE DEF LegsLeft, TurnLeft
  <2> QED
    BY <2>2
<1>7. CASE NotAnswered
  BY <1>7 DEF NotAnswered
<1>8. CASE PrintReference
  <2>1. pc = "print" /\ i' = i /\ j' = j /\ k' = k
    BY <1>8 DEF PrintReference
  <2>2. pc' = "failing" \/ (pc' = "print" /\ m' = m + 1)
    BY <1>8 DEF PrintReference
  <2>3. CASE pc' = "failing"
    BY <2>1, <2>3
  <2>4. CASE pc' = "print" /\ m' = m + 1
    <3>1. /\ LegsLeft' = LegsLeft
          /\ TurnLeft = WorkFrom(j) - (k - j) - 2 - (m - j)
          /\ TurnLeft' = WorkFrom(j) - (k - j) - 2 - (m + 1 - j)
      BY <2>1, <2>4
    <3>2. m \in Int
      BY <2>1
    <3> HIDE DEF LegsLeft, TurnLeft
    <3> QED
      BY <3>1, <3>2
  <2> QED
    BY <2>2, <2>3, <2>4
<1>9. CASE EndBatch
  <2>1. pc = "print" /\ pc' = "batch" /\ i' = i /\ j' = k /\ m >= k
    BY <1>9 DEF EndBatch
  <2>2. m = k /\ j < k
    BY <2>1
  <2>3. /\ LegsLeft' = LegsLeft
        /\ TurnLeft = WorkFrom(j) - (k - j) - 2 - (m - j)
        /\ TurnLeft' = WorkFrom(k) + 1
    BY <2>1
  <2>4. WorkFrom(k) = WorkFrom(j) - 6 * (k - j) /\ WorkFrom(j) \in Int
    OBVIOUS
  <2> HIDE DEF LegsLeft, TurnLeft
  <2> QED
    BY <2>2, <2>3, <2>4
<1>10. CASE EndTurn
  BY <1>10 DEF EndTurn
<1>11. CASE Delay
  BY <1>11 DEF Delay
<1>12. CASE Until
  BY <1>12 DEF Until, NextRound
<1>13. CASE SetReportedSlave \/ ReportSlaveID
  BY <1>13 DEF SetReportedSlave, ReportSlaveID
<1>14. CASE Cleanup \/ Fail
  BY <1>14 DEF Cleanup, Fail
<1> QED
  BY <1>1, <1>2, <1>3, <1>4, <1>5, <1>e, <1>6, <1>f, <1>7, <1>8, <1>9, <1>10, <1>11, <1>12, <1>13, <1>14
    DEF Step

\* The read loop never does anything over again, for any lists and any size of a
\* request: every step of main but SIGINT lowers a pair of naturals, unless it begins
\* the next round of a program that polls.  After SIGINT, or without polling, main has
\* only as many steps left as the pair allows.
THEOREM LoopRunsDown ==
  Spec => /\ [](LegsLeft \in Nat /\ TurnLeft \in Nat)
          /\ NothingIsRedone
PROOF
<1>1. IInv => LegsLeft \in Nat /\ TurnLeft \in Nat
  BY LeftIsNat
<1>2. IInv /\ [Next]_vars =>
        [IF sig' # sig THEN UNCHANGED <<LegsLeft, TurnLeft>> ELSE LessLeft \/ NextRound]_vars
  <2> SUFFICES ASSUME IInv, Next
               PROVE  IF sig' # sig THEN UNCHANGED <<LegsLeft, TurnLeft>> ELSE LessLeft \/ NextRound
    OBVIOUS
  <2>1. CASE Step
    <3>1. sig' = sig
      BY <2>1 DEF Step, Open, InstallHandler, Round, WriteOnce, BeginTurn, EndRound, BeginBatch,
                  ExtendBatch, CloseBatch, SendRequest, Answered, NotAnswered, PrintReference,
                  EndBatch, EndTurn, Delay, Until, SetReportedSlave, ReportSlaveID, Cleanup, Fail
    <3> QED
      BY <2>1, <3>1, StepRunsDown
  <2>2. CASE SigInt
    <3>1. sig' # sig /\ UNCHANGED <<ctx, pc, i, j, k, m>>
      BY <2>2 DEF SigInt, indexes, IInv, TypeOK, FlagsOK
    <3> QED
      BY <3>1 DEF LegsLeft, TurnLeft, WorkFrom, Slaves, Refs
  <2>3. CASE KilledBySigInt
    <3>1. sig' = sig /\ pc \in {"open", "arm"} /\ pc' = "done"
      BY <2>3 DEF KilledBySigInt
    <3>2. Len(Slaves) \in Nat
      BY ContextFacts DEF IInv, TypeOK, ControlOK
    <3>3. LessLeft
      BY <3>1, <3>2 DEF LessLeft, LegsLeft
    <3> QED
      BY <3>1, <3>3
  <2> QED
    BY <2>1, <2>2, <2>3 DEF Next
<1> QED
  BY <1>1, <1>2, Invariant, PTL DEF Spec, NothingIsRedone

-----------------------------------------------------------------------------
(***************************************************************************)
(* Where the statistics are those of frames.  A turn counts one            *)
(* transmission, whatever its requests: what is received stays below it    *)
(* when the references make one block, so that a turn is one request.      *)
(***************************************************************************)
OneBlock ==
  \A n \in 1..(Len(Refs) - 1) : Adjacent(n) /\ Refs[n + 1] + Unit - Refs[1] <= MaxUnits(ctx)

\* How far the only batch of a turn has come.
OneBatch ==
  OneBlock =>
    /\ pc \in InTurn => j = 1 \/ (pc = "batch" /\ j > Len(Refs))
    /\ pc = "print" => k > Len(Refs)
    /\ pc \in InTurn \ {"print"} /\ j = 1 => rx < tx \/ tx = CountCap
    /\ rx <= tx

\* Its request carries all the references.
LEMMA OneRequest ==
  ASSUME IInv, Runs, OneBlock, pc \in {"request", "answer"}, j = 1
  PROVE  k > Len(Refs)
PROOF
<1>1. ctx \in Contexts
  BY DEF IInv, TypeOK, ControlOK
<1>2. Len(Refs) \in Nat /\ k \in 1..(Len(Refs) + 1) /\ j < k
  BY <1>1, ContextFacts DEF IInv, TypeOK, IndexesOK, Batch, InTurn
<1> SUFFICES ASSUME k <= Len(Refs) PROVE FALSE
  BY <1>2
<1>3. PICK n \in 1..(Len(Refs) - 1) : n = k - 1 /\ n + 1 = k
  BY <1>2
<1>4. Adjacent(k - 1) /\ Refs[k] + Unit - Refs[j] <= MaxUnits(ctx)
  BY <1>3 DEF OneBlock
<1> QED
  BY <1>4 DEF Runs

LEMMA OneBatchStep ==
  ASSUME IInv, Runs, OneBatch, Reads(ctx), [Next]_vars
  PROVE  OneBatch'
PROOF
<1>a. /\ Refs' = Refs /\ Unit' = Unit /\ MaxUnits(ctx)' = MaxUnits(ctx) /\ Len(Refs) \in Nat
      /\ j \in 1..(Len(Refs) + 1) /\ k \in 1..(Len(Refs) + 1)
      /\ tx \in 0..CountCap /\ rx \in 0..CountCap /\ CountCap \in Nat /\ CountCap >= 1
  BY StateFacts
<1>b. OneBlock' <=> OneBlock
  BY <1>a DEF OneBlock, Adjacent
<1>c. ASSUME OneBlock, pc \in {"request", "answer"}, j = 1 PROVE k > Len(Refs)
  BY <1>c, OneRequest
<1>d. Flow /\ ~ctx.bIsWrite /\ ~ctx.bIsReportSlaveID
  BY DEF IInv, Reads
<1>e. pc \in InTurn \ {"batch"} => j < k
  BY DEF IInv, Batch
<1> HIDE DEF OneBlock
<1> SUFFICES ASSUME OneBlock
             PROVE  /\ pc' \in InTurn => j' = 1 \/ (pc' = "batch" /\ j' > Len(Refs))
                    /\ pc' = "print" => k' > Len(Refs)
                    /\ pc' \in InTurn \ {"print"} /\ j' = 1 => rx' < tx' \/ tx' = CountCap
                    /\ rx' <= tx'
  BY <1>a, <1>b DEF OneBatch
<1> USE <1>a, <1>c, <1>d, <1>e DEF OneBatch, InTurn, Flow, Plus1, Goto, Check, FailureExit, indexes, counters
<1>1. CASE Open \/ InstallHandler \/ Round \/ WriteOnce
  BY <1>1 DEF Open, InstallHandler, Round, WriteOnce
<1>2. CASE BeginTurn \/ EndRound
  BY <1>2 DEF BeginTurn, EndRound
<1>3. CASE BeginBatch \/ ExtendBatch \/ CloseBatch \/ SendRequest
  BY <1>3 DEF BeginBatch, ExtendBatch, CloseBatch, SendRequest
<1>4. CASE Answered
  BY <1>4 DEF Answered
<1>5. CASE NotAnswered
  BY <1>5 DEF NotAnswered
<1>6. CASE PrintReference \/ EndBatch
  BY <1>6 DEF PrintReference, EndBatch
<1>7. CASE EndTurn \/ Delay \/ Until
  BY <1>7 DEF EndTurn, Delay, Until
<1>8. CASE SetReportedSlave \/ ReportSlaveID \/ Cleanup \/ Fail
  BY <1>8 DEF SetReportedSlave, ReportSlaveID, Cleanup, Fail
<1>9. CASE SigInt \/ KilledBySigInt
  BY <1>9 DEF SigInt, KilledBySigInt
<1>10. CASE UNCHANGED vars
  BY <1>10 DEF vars
<1> QED
  BY <1>1, <1>2, <1>3, <1>4, <1>5, <1>6, <1>7, <1>8, <1>9, <1>10 DEF Next, Step

\* The report of a slave id receives nothing the statistics count.
LEMMA ReportStep ==
  ASSUME IInv, ctx.bIsReportSlaveID, rx <= tx, [Next]_vars
  PROVE  rx' <= tx'
PROOF
<1>1. Flow /\ ~Reads(ctx)
  BY DEF IInv, Reads
<1>2. UNCHANGED <<tx, rx>>
  <2>1. CASE Open \/ InstallHandler \/ Round \/ WriteOnce
    BY <1>1, <2>1 DEF Open, InstallHandler, Round, WriteOnce, Flow, counters
  <2>2. CASE BeginTurn \/ EndRound \/ BeginBatch \/ ExtendBatch \/ CloseBatch \/ SendRequest
    BY <1>1, <2>2 DEF BeginTurn, EndRound, BeginBatch, ExtendBatch, CloseBatch, SendRequest, Flow, InTurn, counters
  <2>3. CASE Answered \/ NotAnswered \/ PrintReference \/ EndBatch \/ EndTurn \/ Delay \/ Until
    BY <1>1, <2>3 DEF Answered, NotAnswered, PrintReference, EndBatch, EndTurn, Delay, Until, Flow, InTurn, counters
  <2>4. CASE SetReportedSlave \/ ReportSlaveID \/ Cleanup \/ Fail \/ SigInt \/ KilledBySigInt
    BY <2>4 DEF SetReportedSlave, ReportSlaveID, Cleanup, Fail, SigInt, KilledBySigInt, counters
  <2>5. CASE UNCHANGED vars
    BY <2>5 DEF vars
  <2> QED
    BY <2>1, <2>2, <2>3, <2>4, <2>5 DEF Next, Step
<1> QED
  BY <1>2

\* With one block of references the poll statistics are those of frames: none is
\* received that was not transmitted.  Only a list that takes several requests per turn
\* gives the statistics the man page does not describe.
THEOREM OneBlockIsCounted == Spec => [](OneBlock => ReceivedWereTransmitted)
PROOF
<1> DEFINE J == (Reads(ctx) => OneBatch) /\ (ctx.bIsReportSlaveID => rx <= tx)
<1>1. Init => J
  BY DEF Init, OneBatch, InTurn
<1>2. PInv /\ J /\ [Next]_vars => J'
  <2> SUFFICES ASSUME PInv, J, [Next]_vars PROVE J'
    OBVIOUS
  <2>1. ctx' = ctx /\ Reads(ctx)' = Reads(ctx)
    BY StateFacts DEF PInv
  <2>2. Reads(ctx) => OneBatch'
    BY OneBatchStep DEF PInv
  <2>3. ctx.bIsReportSlaveID => rx' <= tx'
    BY ReportStep DEF PInv
  <2> QED
    BY <2>1, <2>2, <2>3
<1>3. J => (OneBlock => ReceivedWereTransmitted)
  BY DEF OneBatch, ReceivedWereTransmitted, Reads
<1> QED
  BY <1>1, <1>2, <1>3, TurnInvariant, PTL DEF Spec
=============================================================================
