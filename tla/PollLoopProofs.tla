-------------------------- MODULE PollLoopProofs --------------------------
(***************************************************************************)
(* Proofs about PollLoop, for every set of valid contexts, every size of a *)
(* request and every number of references and slaves.                      *)
(*                                                                         *)
(* The inductive invariant is the conjunction of the parts below.  The     *)
(* heart of it is why the failure exits inside the loop never meet the     *)
(* pointer to the stack: pvData points there only once a reference has     *)
(* been printed, so from then on a batch that is still to be asked for has *)
(* a predecessor in the list; a list has one value per reference, and that *)
(* always fits in a request.                                               *)
(***************************************************************************)
EXTENDS PollLoop, SequenceTheorems, TLAPS

InTurn == {"batch", "scan", "request", "answer", "print"}

\* Which branch of main leads where, and what is open there.
Flow ==
  /\ pc \in {"turn", "delay"} \cup InTurn => Reads(ctx)
  /\ pc \in InTurn => i \in 1..Len(Slaves)
  /\ pc = "turn" => i >= 1
  /\ pc = "delay" => i \in 1..Len(Slaves)
  /\ pc = "write" => ctx.bIsWrite
  /\ pc \in {"loop", "write", "until"} => ~ctx.bIsReportSlaveID
  /\ pc \in {"report", "reporting"} => ctx.bIsReportSlaveID
  /\ pc \notin {"open", "failing", "done"} => bus = "connected"
  /\ pc \in InTurn => busSlave = Slaves[i]

\* The references j..k-1 of a batch climb, and one request carries them.
Batch ==
  /\ pc \in InTurn \ {"batch"} =>
       /\ j < k
       /\ \A n \in j..(k - 1) : Refs[j] <= Refs[n] /\ Refs[n] <= Refs[k - 1]
       /\ k > j + 1 => ReadQty <= MaxUnits(ctx)
  /\ pc \in {"request", "answer", "print"} => ReadQty \in 1..MaxUnits(ctx)
  /\ pc = "print" => m \in j..k

\* Where ctx.pvData and original_pvData point.
Pointer ==
  /\ pc \in InTurn => saved \in {"null", "heap"}
  /\ pvData = "stack" => pc \in InTurn
  /\ pvData = "stack" /\ pc # "print" => j > 1

\* What batch_buffer holds while a batch is printed, and what was printed.
Shown ==
  /\ pc # "print" => lines = {}
  /\ pc = "print" =>
       buffer = [slave |-> Slaves[i], first |-> Refs[j] - ctx.iPduOffset, len |-> ReadQty]

\* Where the process may be once a request has left after SIGINT: no request
\* leaves from there any more.
Late ==
  late > 0 => sig /\ pc \in {"answer", "print", "batch", "turn", "until",
                             "cleanup", "failing", "done"}

IInv ==
  /\ TypeOK /\ Flow /\ Batch /\ Pointer /\ Shown /\ Late
  /\ OnlyTheBlockIsFreed /\ ValuesAreTheirRegisters
  /\ AtMostOneLateRequest /\ ChecksOnlyStopWideReads

-----------------------------------------------------------------------------
\* What ValidContext says of the context of a run, in the terms of the loop.
LEMMA ContextFacts ==
  ASSUME ctx \in Contexts
  PROVE  /\ Slaves \in Seq(0..MaxSlave) /\ Refs \in Seq(0..MaxRef)
         /\ Len(Slaves) \in Nat /\ Len(Refs) \in Nat
         /\ \A n \in 1..Len(Slaves) : Slaves[n] \in 0..MaxSlave
         /\ \A n \in 1..Len(Refs) : Refs[n] \in 0..MaxRef /\ Refs[n] >= ctx.iPduOffset
         /\ Width(ctx) \in {1, 2} /\ ctx.iPduOffset \in {0, 1}
         /\ ctx.iCount \in Nat /\ ctx.iCount >= 1
         /\ Unit \in Nat /\ Unit >= 1
         /\ MaxUnits(ctx) \in Nat /\ MaxUnits(ctx) >= MaxRegs
         /\ ctx.bIsWrite \in BOOLEAN /\ ctx.bIsReportSlaveID \in BOOLEAN
         /\ ctx.bIsPolling \in BOOLEAN /\ ctx.bWide \in BOOLEAN
         /\ ctx.bIsWrite \/ ctx.bIsReportSlaveID => Len(Slaves) = 1
PROOF
<1>1. ValidContext(ctx)
  BY ContextsAssumption
<1>2. ctx \in ContextType
  BY <1>1 DEF ValidContext
<1>3. Slaves \in Seq(0..MaxSlave) /\ Refs \in Seq(0..MaxRef)
  BY <1>2 DEF ContextType, Slaves, Refs
<1>4. \A n \in 1..Len(Refs) : Refs[n] \in 0..MaxRef /\ Refs[n] >= ctx.iPduOffset
  BY <1>1, <1>2, <1>3, LimitsAssumption DEF ValidContext, ContextType, Refs
<1>5. Width(ctx) \in {1, 2} /\ ctx.iCount \in Nat /\ ctx.iCount >= 1
  BY <1>1, <1>2 DEF ValidContext, ContextType, Width
<1>6. Unit \in Nat /\ Unit >= 1
  BY <1>5 DEF Unit, RegisterCount
<1>7. MaxUnits(ctx) \in Nat /\ MaxUnits(ctx) >= MaxRegs
  BY LimitsAssumption DEF MaxUnits
<1>8. Len(Slaves) \in Nat /\ Len(Refs) \in Nat
  BY <1>3
<1>9. \A n \in 1..Len(Slaves) : Slaves[n] \in 0..MaxSlave
  BY <1>3, <1>8, ElementOfSeq
<1>10. /\ ctx.bIsWrite \in BOOLEAN /\ ctx.bIsReportSlaveID \in BOOLEAN
      /\ ctx.bIsPolling \in BOOLEAN /\ ctx.bWide \in BOOLEAN
      /\ ctx.iPduOffset \in {0, 1}
  BY <1>2 DEF ContextType
<1>11. ctx.bIsWrite \/ ctx.bIsReportSlaveID => Len(Slaves) = 1
  BY <1>1 DEF ValidContext, Slaves
<1> QED
  BY <1>3, <1>4, <1>5, <1>6, <1>7, <1>8, <1>9, <1>10, <1>11

\* A value takes at most two registers, so a list - one value per reference -
\* never needs more than a request carries, and the values at a single reference
\* fit below INT_MAX.
LEMMA UnitFacts ==
  ASSUME ctx \in Contexts, Reads(ctx)
  PROVE  /\ Len(Refs) > 1 => Unit <= MaxRegs
         /\ ~ctx.bWide => Unit <= MaxRegs
         /\ MaxRef + Unit <= IntMax
         /\ Unit > MaxUnits(ctx) => ctx.bWide /\ Unit > MaxRegs
PROOF
<1>1. ValidContext(ctx)
  BY ContextsAssumption
<1>2. ctx.iCount \in Nat /\ ctx.iCount <= MaxCount /\ (Len(Refs) > 1 => ctx.iCount = 1)
  BY <1>1 DEF ValidContext, ContextType, Refs
<1>3. Unit = IF ctx.bWide THEN 2 * ctx.iCount ELSE ctx.iCount
  BY <1>2 DEF Unit, RegisterCount, Width
<1>4. MaxUnits(ctx) >= MaxRegs
  BY LimitsAssumption DEF MaxUnits
<1>5. MaxUnits(ctx) \in Nat
  BY LimitsAssumption DEF MaxUnits
<1> QED
  BY <1>2, <1>3, <1>4, <1>5, LimitsAssumption

-----------------------------------------------------------------------------
\* No step changes the parameters, so what is computed from them stays.
LEMMA SameContext ==
  ASSUME [Next]_vars
  PROVE  /\ ctx' = ctx /\ Slaves' = Slaves /\ Refs' = Refs /\ Unit' = Unit
         /\ Width(ctx)' = Width(ctx) /\ MaxUnits(ctx)' = MaxUnits(ctx)
         /\ Reads(ctx)' = Reads(ctx)
PROOF
<1>1. ctx' = ctx
  <2>1. CASE Step
    BY <2>1 DEF Step, Open, InstallHandler, Round, WriteOnce, BeginTurn, EndRound, BeginBatch, ExtendBatch, CloseBatch, SendRequest, Answered, NotAnswered, PrintReference, EndBatch, EndTurn, Delay, Until, SetReportedSlave, ReportSlaveID, Cleanup, Fail
  <2>2. CASE SigInt \/ KilledBySigInt
    BY <2>2 DEF SigInt, KilledBySigInt
  <2>3. CASE UNCHANGED vars
    BY <2>3 DEF vars
  <2> QED
    BY <2>1, <2>2, <2>3 DEF Next
<1> QED
  BY <1>1 DEF Slaves, Refs, Unit

LEMMA TypeInit == Init => TypeOK
PROOF
<1> SUFFICES ASSUME Init PROVE TypeOK
  OBVIOUS
<1>1. ctx \in Contexts
  BY DEF Init
<1>2. Len(Slaves) \in Nat /\ Len(Refs) \in Nat
  BY <1>1, ContextFacts
<1>3. ControlOK
  BY DEF Init, ControlOK, Pcs
<1>7. FlagsOK
  BY DEF Init, FlagsOK
<1>4. IndexesOK
  BY <1>2 DEF Init, IndexesOK
<1>5. CountersOK
  BY CapAssumption DEF Init, CountersOK
<1>6. OutputOK
  <2>1. buffer \in [slave : Int, first : Int, len : Int]
    BY DEF Init, NoData
  <2>2. outcome \in [1..Len(Refs) -> Outcomes]
    BY DEF Init, Outcomes, Pending
  <2> QED
    BY <2>1, <2>2 DEF OutputOK
<1> QED
  BY <1>3, <1>4, <1>5, <1>6, <1>7 DEF TypeOK

\* What a step may assume of the counters.
LEMMA Plus1Type == \A n \in 0..CountCap : Plus1(n) \in 0..CountCap
  BY CapAssumption DEF Plus1

LEMMA TypeStep == TypeOK /\ Flow /\ Batch /\ [Next]_vars => TypeOK'
PROOF
<1> SUFFICES ASSUME TypeOK, Flow, Batch, [Next]_vars PROVE TypeOK'
  OBVIOUS
<1>a. ctx' = ctx /\ Slaves' = Slaves /\ Refs' = Refs
  BY SameContext
<1>b. /\ Len(Slaves) \in Nat /\ Len(Refs) \in Nat
      /\ \A n \in 1..Len(Slaves) : Slaves[n] \in 0..MaxSlave
      /\ \A n \in 1..Len(Refs) : Refs[n] \in 0..MaxRef
      /\ ctx.iPduOffset \in {0, 1} /\ Unit \in Nat
      /\ ctx.bIsWrite \/ ctx.bIsReportSlaveID => Len(Slaves) = 1
  BY ContextFacts DEF TypeOK, ControlOK
<1>1. ControlOK'
  <2> USE <1>a, <1>b DEF TypeOK, ControlOK, IndexesOK, Flow, InTurn, Pcs, Goto, Check, FailureExit,
    Address, link, memory
  <2>1. CASE Open
    BY <2>1 DEF Open
  <2>2. CASE WriteOnce
    BY <2>2 DEF WriteOnce
  <2>3. CASE BeginTurn
    BY <2>3 DEF BeginTurn
  <2>4. CASE BeginBatch
    BY <2>4 DEF BeginBatch
  <2>5. CASE CloseBatch
    BY <2>5 DEF CloseBatch
  <2>6. CASE PrintReference
    BY <2>6 DEF PrintReference
  <2>7. CASE EndTurn
    BY <2>7 DEF EndTurn
  <2>8. CASE SetReportedSlave
    BY <2>8 DEF SetReportedSlave
  <2>9. CASE Cleanup
    BY <2>9 DEF Cleanup
  <2>10. CASE Fail
    BY <2>10 DEF Fail
  <2>11. CASE ReportSlaveID
    BY <2>11 DEF ReportSlaveID
  <2>12. CASE SigInt
    BY <2>12 DEF SigInt
  <2>13. CASE KilledBySigInt
    BY <2>13 DEF KilledBySigInt
  <2>14. CASE InstallHandler \/ Round \/ EndRound \/ ExtendBatch \/ SendRequest
    BY <2>14 DEF InstallHandler, Round, EndRound, ExtendBatch, SendRequest
  <2>15. CASE Answered \/ NotAnswered \/ EndBatch \/ Delay \/ Until
    BY <2>15 DEF Answered, NotAnswered, EndBatch, Delay, Until
  <2>16. CASE UNCHANGED vars
    BY <2>16 DEF vars
  <2> QED
    BY <2>1, <2>2, <2>3, <2>4, <2>5, <2>6, <2>7, <2>8, <2>9, <2>10, <2>11, <2>12, <2>13, <2>14,
      <2>15, <2>16 DEF Next, Step
<1>2. FlagsOK'
  <2> USE <1>a, <1>b DEF TypeOK, FlagsOK, counters
  <2>1. CASE Open \/ InstallHandler \/ Round \/ WriteOnce \/ BeginTurn \/ EndRound \/ BeginBatch \/
    ExtendBatch \/ CloseBatch \/ SendRequest \/ Answered \/ NotAnswered \/ PrintReference \/
    EndBatch \/ EndTurn \/ Delay \/ Until \/ SetReportedSlave \/ ReportSlaveID \/ Cleanup \/ Fail \/
    SigInt \/ KilledBySigInt
    BY <2>1 DEF Open, InstallHandler, Round, WriteOnce, BeginTurn, EndRound, BeginBatch,
      ExtendBatch, CloseBatch, SendRequest, Answered, NotAnswered, PrintReference, EndBatch,
      EndTurn, Delay, Until, SetReportedSlave, ReportSlaveID, Cleanup, Fail, SigInt, KilledBySigInt
  <2>2. CASE UNCHANGED vars
    BY <2>2 DEF vars
  <2> QED
    BY <2>1, <2>2 DEF Next, Step
<1>3. IndexesOK'
  <2> USE <1>a, <1>b DEF TypeOK, IndexesOK, Flow, Batch, InTurn, Joins, Goto, indexes
  <2>1. CASE Round
    BY <2>1 DEF Round
  <2>2. CASE BeginTurn
    BY <2>2 DEF BeginTurn
  <2>3. CASE BeginBatch
    BY <2>3 DEF BeginBatch
  <2>4. CASE ExtendBatch
    BY <2>4 DEF ExtendBatch
  <2>5. CASE Answered
    BY <2>5 DEF Answered
  <2>6. CASE NotAnswered
    BY <2>6 DEF NotAnswered
  <2>7. CASE PrintReference
    BY <2>7 DEF PrintReference
  <2>8. CASE EndBatch
    BY <2>8 DEF EndBatch
  <2>9. CASE EndTurn
    BY <2>9 DEF EndTurn
  <2>10. CASE Delay
    BY <2>10 DEF Delay
  <2>11. CASE Open \/ InstallHandler \/ WriteOnce \/ EndRound \/ CloseBatch \/ SendRequest \/ Until
    \/ SetReportedSlave \/ ReportSlaveID \/ Cleanup \/ Fail \/ SigInt \/ KilledBySigInt
    BY <2>11 DEF Open, InstallHandler, WriteOnce, EndRound, CloseBatch, SendRequest, Until,
      SetReportedSlave, ReportSlaveID, Cleanup, Fail, SigInt, KilledBySigInt
  <2>12. CASE UNCHANGED vars
    BY <2>12 DEF vars
  <2> QED
    BY <2>1, <2>2, <2>3, <2>4, <2>5, <2>6, <2>7, <2>8, <2>9, <2>10, <2>11, <2>12 DEF Next, Step
<1>4. CountersOK'
  <2> USE <1>a, <1>b, Plus1Type DEF TypeOK, CountersOK, counters, Send, CountError, Goto
  <2>1. CASE WriteOnce
    <3>1. CASE UNCHANGED <<tx, rx, err, sent, late>>
      BY <3>1
    <3>2. CASE tx' = Plus1(tx) /\ Send /\ rx' = Plus1(rx) /\ err' = err
      BY <3>2
    <3>3. CASE tx' = Plus1(tx) /\ Send /\ err' = Plus1(err) /\ rx' = rx
      BY <3>3
    <3> QED
      BY <2>1, <3>1, <3>2, <3>3 DEF WriteOnce
  <2>2. CASE BeginTurn
    BY <2>2 DEF BeginTurn
  <2>3. CASE SendRequest
    BY <2>3 DEF SendRequest
  <2>4. CASE Answered
    BY <2>4 DEF Answered
  <2>5. CASE NotAnswered
    BY <2>5 DEF NotAnswered
  <2>6. CASE ReportSlaveID
    BY <2>6 DEF ReportSlaveID
  <2>7. CASE Open \/ InstallHandler \/ Round \/ EndRound \/ BeginBatch \/ ExtendBatch \/ CloseBatch
    \/ PrintReference \/ EndBatch \/ EndTurn \/ Delay \/ Until \/ SetReportedSlave \/ Cleanup \/
    Fail \/ SigInt \/ KilledBySigInt
    BY <2>7 DEF Open, InstallHandler, Round, EndRound, BeginBatch, ExtendBatch, CloseBatch,
      PrintReference, EndBatch, EndTurn, Delay, Until, SetReportedSlave, Cleanup, Fail, SigInt,
      KilledBySigInt
  <2>8. CASE UNCHANGED vars
    BY <2>8 DEF vars
  <2> QED
    BY <2>1, <2>2, <2>3, <2>4, <2>5, <2>6, <2>7, <2>8 DEF Next, Step
<1>5. OutputOK'
  <2> USE <1>a, <1>b DEF TypeOK, ControlOK, IndexesOK, OutputOK, Flow, InTurn, NoData, Pending,
    Outcomes, output, memory, Goto
  <2>1. CASE BeginTurn
    BY <2>1 DEF BeginTurn
  <2>2. CASE Answered
    <3>1. ReadQty \in Int /\ Refs[j] \in Int /\ busSlave \in Int
      BY <2>2 DEF Answered, Batch, ReadQty
    <3>2. buffer' \in [slave : Int, first : Int, len : Int]
      BY <2>2, <3>1 DEF Answered
    <3>3. outcome' \in [1..Len(Refs) -> Outcomes]
      BY <2>2 DEF Answered
    <3> QED
      BY <3>2, <3>3
  <2>3. CASE NotAnswered
    BY <2>3 DEF NotAnswered
  <2>4. CASE PrintReference
    BY <2>4 DEF PrintReference
  <2>5. CASE Open \/ InstallHandler \/ Round \/ WriteOnce \/ EndRound \/ BeginBatch \/ ExtendBatch
    \/ CloseBatch \/ SendRequest \/ EndBatch \/ EndTurn \/ Delay \/ Until \/ SetReportedSlave \/
    ReportSlaveID \/ Cleanup \/ Fail \/ SigInt \/ KilledBySigInt
    BY <2>5 DEF Open, InstallHandler, Round, WriteOnce, EndRound, BeginBatch, ExtendBatch,
      CloseBatch, SendRequest, EndBatch, EndTurn, Delay, Until, SetReportedSlave, ReportSlaveID,
      Cleanup, Fail, SigInt, KilledBySigInt
  <2>6. CASE UNCHANGED vars
    BY <2>6 DEF vars
  <2> QED
    BY <2>1, <2>2, <2>3, <2>4, <2>5, <2>6 DEF Next, Step
<1> QED
  BY <1>1, <1>2, <1>3, <1>4, <1>5 DEF TypeOK

-----------------------------------------------------------------------------
\* Every action ends at a point its part of main leads to.
LEMMA FlowStep == TypeOK /\ Flow /\ [Next]_vars => Flow'
PROOF
<1> SUFFICES ASSUME TypeOK, Flow, [Next]_vars PROVE Flow'
  OBVIOUS
<1>a. ctx' = ctx /\ Slaves' = Slaves /\ Refs' = Refs /\ Reads(ctx)' = Reads(ctx)
  BY SameContext
<1>b. /\ Len(Slaves) \in Nat /\ Len(Refs) \in Nat
      /\ ctx.bIsWrite \in BOOLEAN /\ ctx.bIsReportSlaveID \in BOOLEAN
  BY ContextFacts DEF TypeOK, ControlOK
<1> USE <1>a, <1>b DEF TypeOK, ControlOK, IndexesOK, Flow, InTurn, Goto, Check, FailureExit, link, indexes
<1>1. CASE Open
  BY <1>1 DEF Open
<1>2. CASE InstallHandler
  BY <1>2 DEF InstallHandler
<1>3. CASE Round
  BY <1>3 DEF Round, Reads
<1>4. CASE BeginTurn
  BY <1>4 DEF BeginTurn, Address
<1>5. CASE EndRound
  BY <1>5 DEF EndRound, Reads
<1>6. CASE BeginBatch
  BY <1>6 DEF BeginBatch
<1>7. CASE CloseBatch
  BY <1>7 DEF CloseBatch
<1>8. CASE NotAnswered
  BY <1>8 DEF NotAnswered
<1>9. CASE PrintReference
  BY <1>9 DEF PrintReference
<1>10. CASE EndTurn
  BY <1>10 DEF EndTurn
<1>11. CASE Delay
  BY <1>11 DEF Delay
<1>12. CASE Until
  BY <1>12 DEF Until
<1>13. CASE SetReportedSlave
  BY <1>13 DEF SetReportedSlave
<1>14. CASE Cleanup
  BY <1>14 DEF Cleanup
<1>15. CASE Fail
  BY <1>15 DEF Fail
<1>16. CASE WriteOnce \/ ExtendBatch \/ SendRequest \/ Answered \/ EndBatch \/ ReportSlaveID
  BY <1>16 DEF WriteOnce, ExtendBatch, SendRequest, Answered, EndBatch, ReportSlaveID
<1>17. CASE SigInt \/ KilledBySigInt
  BY <1>17 DEF SigInt, KilledBySigInt
<1>18. CASE UNCHANGED vars
  BY <1>18 DEF vars
<1> QED
  BY <1>1, <1>2, <1>3, <1>4, <1>5, <1>6, <1>7, <1>8, <1>9, <1>10, <1>11, <1>12, <1>13, <1>14, <1>15,
    <1>16, <1>17, <1>18 DEF Next, Step

\* A climbing run goes on climbing with one more element.
LEMMA ClimbExtends ==
  ASSUME NEW f, NEW a \in Int, NEW b \in Int, a < b,
         \A n \in a..b : f[n] \in Int,
         \A n \in a..(b - 1) : f[a] <= f[n] /\ f[n] <= f[b - 1],
         f[b - 1] <= f[b]
  PROVE  \A n \in a..b : f[a] <= f[n] /\ f[n] <= f[b]
PROOF
<1> SUFFICES ASSUME NEW n \in a..b PROVE f[a] <= f[n] /\ f[n] <= f[b]
  OBVIOUS
<1>1. a \in a..(b - 1) /\ b - 1 \in a..(b - 1) /\ a \in a..b /\ b - 1 \in a..b /\ b \in a..b
  OBVIOUS
<1>2. f[a] <= f[b - 1] /\ f[a] <= f[b]
  BY <1>1
<1>3. CASE n = b
  BY <1>1, <1>2, <1>3
<1>4. CASE n # b
  <2>1. n \in a..(b - 1)
    BY <1>4
  <2> QED
    BY <2>1, <1>1
<1> QED
  BY <1>3, <1>4

\* A batch stays a climbing run that one request carries: each reference that
\* joins it lies one unit past the last, within the limit.
LEMMA BatchStep == TypeOK /\ Flow /\ Batch /\ [Next]_vars => Batch'
PROOF
<1> SUFFICES ASSUME TypeOK, Flow, Batch, [Next]_vars PROVE Batch'
  OBVIOUS
<1>a. /\ ctx' = ctx /\ Slaves' = Slaves /\ Refs' = Refs /\ Unit' = Unit
      /\ MaxUnits(ctx)' = MaxUnits(ctx)
  BY SameContext
<1>b. /\ Len(Refs) \in Nat /\ Unit \in Nat /\ MaxUnits(ctx) \in Nat
      /\ \A n \in 1..Len(Refs) : Refs[n] \in 0..MaxRef
  BY ContextFacts DEF TypeOK, ControlOK
<1> USE <1>a, <1>b, LimitsAssumption DEF TypeOK, ControlOK, IndexesOK, Batch, InTurn, Goto, Check, FailureExit, ReadQty, indexes
<1>1. CASE Round
  BY <1>1 DEF Round
<1>2. CASE BeginTurn
  BY <1>2 DEF BeginTurn
<1>3. CASE BeginBatch
  BY <1>3 DEF BeginBatch
<1>4. CASE ExtendBatch
  <2>1. k <= Len(Refs) /\ k' = k + 1 /\ j' = j /\ pc = "scan" /\ pc' = "scan" /\ j < k
    BY <1>4 DEF ExtendBatch, Joins
  <2>2. Refs[k] = Refs[k - 1] + Unit /\ Refs[k] + Unit - Refs[j] <= MaxUnits(ctx)
    BY <1>4 DEF ExtendBatch, Joins
  <2>3. /\ j \in Int /\ k \in Int /\ k - 1 \in j..(k - 1)
        /\ Refs[j] \in Int /\ Refs[k - 1] \in Int /\ Refs[k] \in Int
    BY <2>1
  <2>4. \A n \in j..k : Refs[n] \in Int
    BY <2>1
  <2>5. \A n \in j..(k - 1) : Refs[j] <= Refs[n] /\ Refs[n] <= Refs[k - 1]
    BY <2>1
  <2>6. Refs[k - 1] <= Refs[k]
    BY <2>2, <2>3
  <2>7. \A n \in j..k : Refs[j] <= Refs[n] /\ Refs[n] <= Refs[k]
    BY <2>1, <2>3, <2>4, <2>5, <2>6, ClimbExtends
  <2> QED
    BY <2>1, <2>2, <2>7
<1>5. CASE CloseBatch
  BY <1>5 DEF CloseBatch
<1>6. CASE SendRequest
  BY <1>6 DEF SendRequest
<1>7. CASE Answered
  BY <1>7 DEF Answered
<1>8. CASE NotAnswered
  BY <1>8 DEF NotAnswered
<1>9. CASE PrintReference
  BY <1>9 DEF PrintReference
<1>10. CASE EndBatch
  BY <1>10 DEF EndBatch
<1>11. CASE EndTurn
  BY <1>11 DEF EndTurn
<1>12. CASE Delay
  BY <1>12 DEF Delay
<1>13. CASE Open \/ InstallHandler \/ WriteOnce \/ EndRound \/ Until \/ SetReportedSlave
  BY <1>13 DEF Open, InstallHandler, WriteOnce, EndRound, Until, SetReportedSlave
<1>14. CASE ReportSlaveID \/ Cleanup \/ Fail \/ SigInt \/ KilledBySigInt
  BY <1>14 DEF ReportSlaveID, Cleanup, Fail, SigInt, KilledBySigInt
<1>15. CASE UNCHANGED vars
  BY <1>15 DEF vars
<1> QED
  BY <1>1, <1>2, <1>3, <1>4, <1>5, <1>6, <1>7, <1>8, <1>9, <1>10, <1>11, <1>12, <1>13, <1>14, <1>15
    DEF Next, Step

\* The checks of the loop: the overflow check and the check of an offset never
\* fail, and the check of the quantity fails only for the first batch of a list
\* with one reference.
LEMMA ChecksHold ==
  ASSUME TypeOK, Flow, Batch
  PROVE  /\ pc = "batch" /\ j <= Len(Refs) => Refs[j] <= IntMax - Unit
         /\ pc = "scan" /\ ReadQty \notin 1..MaxUnits(ctx) =>
              j = 1 /\ Len(Refs) = 1 /\ ctx.bWide /\ Unit > MaxRegs
         /\ pc = "print" /\ m < k => Offset \in 0..(ReadQty - Unit) /\ Unit >= 1
PROOF
<1>1. /\ Len(Refs) \in Nat /\ Unit \in Nat /\ Unit >= 1
      /\ MaxUnits(ctx) \in Nat /\ MaxUnits(ctx) >= MaxRegs
      /\ \A n \in 1..Len(Refs) : Refs[n] \in 0..MaxRef
  BY ContextFacts DEF TypeOK, ControlOK
<1>2. pc \in InTurn =>
        /\ MaxRef + Unit <= IntMax
        /\ Len(Refs) > 1 => Unit <= MaxRegs
        /\ Unit > MaxUnits(ctx) => ctx.bWide /\ Unit > MaxRegs
  BY UnitFacts DEF TypeOK, ControlOK, Flow
<1>3. pc = "batch" /\ j <= Len(Refs) => Refs[j] <= IntMax - Unit
  BY <1>1, <1>2, LimitsAssumption DEF TypeOK, IndexesOK, InTurn
<1>4. pc = "scan" /\ ReadQty \notin 1..MaxUnits(ctx) =>
        j = 1 /\ Len(Refs) = 1 /\ ctx.bWide /\ Unit > MaxRegs
  <2> SUFFICES ASSUME pc = "scan", ReadQty \notin 1..MaxUnits(ctx)
               PROVE  j = 1 /\ Len(Refs) = 1 /\ ctx.bWide /\ Unit > MaxRegs
    OBVIOUS
  <2>1. j < k /\ j >= 1 /\ k <= Len(Refs) + 1 /\ j \in Int /\ k \in Int
    BY <1>1 DEF TypeOK, IndexesOK, Batch, InTurn
  <2>2. Refs[j] \in Int /\ Refs[k - 1] \in Int /\ Refs[j] <= Refs[k - 1]
    BY <1>1, <2>1 DEF Batch, InTurn
  <2>3. ReadQty = Refs[k - 1] + Unit - Refs[j]
    BY DEF ReadQty
  <2>4. ReadQty > MaxUnits(ctx)
    BY <1>1, <2>2, <2>3
  <2>5. k = j + 1
    BY <2>1, <2>2, <2>3, <2>4, <1>1 DEF Batch, InTurn
  <2>6. Unit > MaxUnits(ctx)
    BY <2>1, <2>2, <2>3, <2>4, <2>5, <1>1
  <2>7. ctx.bWide
    BY <1>2, <2>6 DEF InTurn
  <2>8. Unit > MaxRegs /\ (Len(Refs) > 1 => Unit <= MaxRegs)
    BY <1>2, <2>6 DEF InTurn
  <2>9. ~(Unit <= MaxRegs)
    BY <1>1, <2>8, LimitsAssumption
  <2>10. Len(Refs) <= 1 /\ Len(Refs) \in Int
    BY <1>1, <2>8, <2>9
  <2>11. j <= Len(Refs)
    BY <2>1, <2>5, <2>10
  <2>12. j = 1
    BY <2>1, <2>10, <2>11
  <2>13. \A n \in Int : 1 <= n /\ n <= 1 => n = 1
    OBVIOUS
  <2>14. 1 <= Len(Refs)
    BY <2>11, <2>12
  <2>15. Len(Refs) = 1
    BY <2>10, <2>13, <2>14
  <2> QED
    BY <2>7, <2>8, <2>12, <2>15
<1>5. pc = "print" /\ m < k => Offset \in 0..(ReadQty - Unit) /\ Unit >= 1
  <2> SUFFICES ASSUME pc = "print", m < k PROVE Offset \in 0..(ReadQty - Unit)
    BY <1>1
  <2>1. /\ j \in Int /\ k \in Int /\ m \in j..(k - 1) /\ j >= 1 /\ k - 1 <= Len(Refs)
    BY <1>1 DEF TypeOK, IndexesOK, Batch, InTurn
  <2>2. /\ Refs[j] <= Refs[m] /\ Refs[m] <= Refs[k - 1]
        /\ Refs[j] \in Int /\ Refs[m] \in Int /\ Refs[k - 1] \in Int
    BY <1>1, <2>1 DEF Batch, InTurn
  <2> QED
    BY <1>1, <2>2 DEF Offset, ReadQty
<1> QED
  BY <1>3, <1>4, <1>5

\* pvData leaves its block when a reference is printed and is back there when the
\* turn is over; while it is away, at least one batch of the turn is behind.
LEMMA PointerStep == TypeOK /\ Flow /\ Batch /\ Pointer /\ OnlyTheBlockIsFreed /\ [Next]_vars
                       => Pointer'
PROOF
<1> SUFFICES ASSUME TypeOK, Flow, Batch, Pointer, OnlyTheBlockIsFreed, [Next]_vars
             PROVE  Pointer'
  OBVIOUS
<1>a. Refs' = Refs
  BY SameContext
<1>b. Len(Refs) \in Nat
  BY ContextFacts DEF TypeOK, ControlOK
<1> USE <1>a, <1>b DEF TypeOK, ControlOK, IndexesOK, Batch, Pointer, InTurn, Goto, Check, FailureExit, memory, indexes
<1>1. CASE Open
  BY <1>1 DEF Open
<1>2. CASE Round
  BY <1>2 DEF Round
<1>3. CASE BeginTurn
  BY <1>3 DEF BeginTurn
<1>4. CASE BeginBatch
  BY <1>4, ChecksHold DEF BeginBatch
<1>5. CASE CloseBatch
  BY <1>5, ChecksHold DEF CloseBatch
<1>6. CASE Answered
  BY <1>6 DEF Answered
<1>7. CASE NotAnswered
  BY <1>7 DEF NotAnswered
<1>8. CASE PrintReference
  <2>1. Offset \in 0..(ReadQty - 1) /\ pc = "print"
    <3>1. pc = "print" /\ m < k
      BY <1>8 DEF PrintReference
    <3>2. Offset \in 0..(ReadQty - Unit) /\ Unit >= 1 /\ Unit \in Nat /\ ReadQty \in Int
      BY <3>1, ChecksHold, ContextFacts DEF TypeOK, ControlOK, Batch
    <3> QED
      BY <3>1, <3>2
  <2> QED
    BY <1>8, <2>1 DEF PrintReference
<1>9. CASE EndBatch
  BY <1>9 DEF EndBatch
<1>10. CASE EndTurn
  BY <1>10 DEF EndTurn
<1>11. CASE Cleanup
  BY <1>11 DEF Cleanup
<1>12. CASE Fail
  BY <1>12 DEF Fail
<1>13. CASE InstallHandler \/ WriteOnce \/ EndRound \/ ExtendBatch \/ SendRequest \/ Delay
  BY <1>13 DEF InstallHandler, WriteOnce, EndRound, ExtendBatch, SendRequest, Delay
<1>14. CASE Until \/ SetReportedSlave \/ ReportSlaveID \/ SigInt \/ KilledBySigInt
  BY <1>14 DEF Until, SetReportedSlave, ReportSlaveID, SigInt, KilledBySigInt
<1>15. CASE UNCHANGED vars
  BY <1>15 DEF vars
<1> QED
  BY <1>1, <1>2, <1>3, <1>4, <1>5, <1>6, <1>7, <1>8, <1>9, <1>10, <1>11, <1>12, <1>13, <1>14, <1>15
    DEF Next, Step

LEMMA ShownStep == TypeOK /\ Flow /\ Batch /\ Shown /\ [Next]_vars => Shown'
PROOF
<1> SUFFICES ASSUME TypeOK, Flow, Batch, Shown, [Next]_vars PROVE Shown'
  OBVIOUS
<1>a. ctx' = ctx /\ Slaves' = Slaves /\ Refs' = Refs /\ Unit' = Unit
  BY SameContext
<1> USE <1>a DEF Flow, Shown, InTurn, Goto, Check, FailureExit, ReadQty, memory, indexes, output
<1>1. CASE Open
  BY <1>1 DEF Open
<1>2. CASE Round
  BY <1>2 DEF Round
<1>3. CASE BeginTurn
  BY <1>3 DEF BeginTurn
<1>4. CASE BeginBatch
  BY <1>4 DEF BeginBatch
<1>5. CASE CloseBatch
  BY <1>5 DEF CloseBatch
<1>6. CASE Answered
  BY <1>6 DEF Answered
<1>7. CASE NotAnswered
  BY <1>7 DEF NotAnswered
<1>8. CASE PrintReference
  <2>1. Offset \in 0..(ReadQty - 1) /\ pc = "print"
    <3>1. pc = "print" /\ m < k
      BY <1>8 DEF PrintReference
    <3>2. Offset \in 0..(ReadQty - Unit) /\ Unit >= 1 /\ Unit \in Nat /\ ReadQty \in Int
      BY <3>1, ChecksHold, ContextFacts DEF TypeOK, ControlOK, Batch
    <3> QED
      BY <3>1, <3>2
  <2> QED
    BY <1>8, <2>1 DEF PrintReference
<1>9. CASE EndBatch
  BY <1>9 DEF EndBatch
<1>10. CASE EndTurn
  BY <1>10 DEF EndTurn
<1>11. CASE Cleanup
  BY <1>11 DEF Cleanup
<1>12. CASE Fail
  BY <1>12 DEF Fail
<1>13. CASE InstallHandler \/ WriteOnce \/ EndRound \/ ExtendBatch \/ SendRequest \/ Delay
  BY <1>13 DEF InstallHandler, WriteOnce, EndRound, ExtendBatch, SendRequest, Delay
<1>14. CASE Until \/ SetReportedSlave \/ ReportSlaveID \/ SigInt \/ KilledBySigInt
  BY <1>14 DEF Until, SetReportedSlave, ReportSlaveID, SigInt, KilledBySigInt
<1>15. CASE UNCHANGED vars
  BY <1>15 DEF vars
<1> QED
  BY <1>1, <1>2, <1>3, <1>4, <1>5, <1>6, <1>7, <1>8, <1>9, <1>10, <1>11, <1>12, <1>13, <1>14, <1>15
    DEF Next, Step

LEMMA LateStep == TypeOK /\ Late /\ AtMostOneLateRequest /\ [Next]_vars
                    => Late' /\ AtMostOneLateRequest'
PROOF
<1> SUFFICES ASSUME TypeOK, Late, AtMostOneLateRequest, [Next]_vars
             PROVE  Late' /\ AtMostOneLateRequest'
  OBVIOUS
<1> USE DEF TypeOK, FlagsOK, CountersOK, Late, AtMostOneLateRequest, Goto, Check, FailureExit, Send, counters
<1>1. CASE Open
  BY <1>1 DEF Open
<1>2. CASE Round
  BY <1>2 DEF Round
<1>3. CASE WriteOnce
  BY <1>3 DEF WriteOnce
<1>4. CASE BeginTurn
  BY <1>4 DEF BeginTurn
<1>5. CASE BeginBatch
  BY <1>5 DEF BeginBatch
<1>6. CASE CloseBatch
  BY <1>6 DEF CloseBatch
<1>7. CASE SendRequest
  BY <1>7 DEF SendRequest
<1>8. CASE NotAnswered
  BY <1>8 DEF NotAnswered
<1>9. CASE PrintReference
  BY <1>9 DEF PrintReference
<1>10. CASE EndTurn
  BY <1>10 DEF EndTurn
<1>11. CASE Until
  BY <1>11 DEF Until
<1>12. CASE SetReportedSlave
  BY <1>12 DEF SetReportedSlave
<1>13. CASE ReportSlaveID
  BY <1>13 DEF ReportSlaveID
<1>14. CASE InstallHandler \/ EndRound \/ ExtendBatch \/ Answered \/ EndBatch \/ Delay
  BY <1>14 DEF InstallHandler, EndRound, ExtendBatch, Answered, EndBatch, Delay
<1>15. CASE Cleanup \/ Fail \/ SigInt \/ KilledBySigInt
  BY <1>15 DEF Cleanup, Fail, SigInt, KilledBySigInt
<1>16. CASE UNCHANGED vars
  BY <1>16 DEF vars
<1> QED
  BY <1>1, <1>2, <1>3, <1>4, <1>5, <1>6, <1>7, <1>8, <1>9, <1>10, <1>11, <1>12, <1>13, <1>14, <1>15,
    <1>16 DEF Next, Step

-----------------------------------------------------------------------------
\* A failure exit inside the loop is only taken by a list with one reference,
\* before anything was printed, so the pointer is still where vAllocate put it.
LEMMA FreedStep == TypeOK /\ Flow /\ Batch /\ Pointer /\ OnlyTheBlockIsFreed /\ [Next]_vars
                     => OnlyTheBlockIsFreed'
PROOF
<1> SUFFICES ASSUME TypeOK, Flow, Batch, Pointer, OnlyTheBlockIsFreed, [Next]_vars
             PROVE  OnlyTheBlockIsFreed'
  OBVIOUS
<1> USE DEF TypeOK, ControlOK, Pointer, OnlyTheBlockIsFreed, InTurn, Goto, Check, FailureExit, memory
<1>1. CASE Open
  BY <1>1 DEF Open
<1>2. CASE Round
  BY <1>2 DEF Round
<1>3. CASE BeginTurn
  BY <1>3 DEF BeginTurn
<1>4. CASE BeginBatch
  BY <1>4, ChecksHold DEF BeginBatch
<1>5. CASE CloseBatch
  BY <1>5, ChecksHold DEF CloseBatch
<1>6. CASE PrintReference
  <2>1. Offset \in 0..(ReadQty - 1) /\ pc = "print"
    <3>1. pc = "print" /\ m < k
      BY <1>6 DEF PrintReference
    <3>2. Offset \in 0..(ReadQty - Unit) /\ Unit >= 1 /\ Unit \in Nat /\ ReadQty \in Int
      BY <3>1, ChecksHold, ContextFacts DEF TypeOK, ControlOK, Batch
    <3> QED
      BY <3>1, <3>2
  <2> QED
    BY <1>6, <2>1 DEF PrintReference
<1>7. CASE EndTurn
  BY <1>7 DEF EndTurn
<1>8. CASE Until
  BY <1>8 DEF Until
<1>9. CASE SetReportedSlave
  BY <1>9 DEF SetReportedSlave
<1>10. CASE ReportSlaveID
  BY <1>10 DEF ReportSlaveID
<1>11. CASE Cleanup
  BY <1>11 DEF Cleanup
<1>12. CASE Fail
  BY <1>12 DEF Fail
<1>13. CASE InstallHandler \/ WriteOnce \/ EndRound \/ ExtendBatch \/ SendRequest \/ Answered
  BY <1>13 DEF InstallHandler, WriteOnce, EndRound, ExtendBatch, SendRequest, Answered
<1>14. CASE NotAnswered \/ EndBatch \/ Delay \/ SigInt \/ KilledBySigInt
  BY <1>14 DEF NotAnswered, EndBatch, Delay, SigInt, KilledBySigInt
<1>15. CASE UNCHANGED vars
  BY <1>15 DEF vars
<1> QED
  BY <1>1, <1>2, <1>3, <1>4, <1>5, <1>6, <1>7, <1>8, <1>9, <1>10, <1>11, <1>12, <1>13, <1>14, <1>15
    DEF Next, Step

LEMMA ChecksStep == TypeOK /\ Flow /\ Batch /\ ChecksOnlyStopWideReads /\ [Next]_vars
                      => ChecksOnlyStopWideReads'
PROOF
<1> SUFFICES ASSUME TypeOK, Flow, Batch, ChecksOnlyStopWideReads, [Next]_vars
             PROVE  ChecksOnlyStopWideReads'
  OBVIOUS
<1>a. ctx' = ctx /\ Refs' = Refs /\ Unit' = Unit
  BY SameContext
<1> USE <1>a DEF ChecksOnlyStopWideReads, Goto, Check, FailureExit
<1>1. CASE Open
  BY <1>1 DEF Open
<1>2. CASE BeginTurn
  BY <1>2 DEF BeginTurn
<1>3. CASE BeginBatch
  BY <1>3, ChecksHold DEF BeginBatch
<1>4. CASE CloseBatch
  BY <1>4, ChecksHold DEF CloseBatch
<1>5. CASE PrintReference
  <2>1. Offset \in 0..(ReadQty - 1) /\ pc = "print"
    <3>1. pc = "print" /\ m < k
      BY <1>5 DEF PrintReference
    <3>2. Offset \in 0..(ReadQty - Unit) /\ Unit >= 1 /\ Unit \in Nat /\ ReadQty \in Int
      BY <3>1, ChecksHold, ContextFacts DEF TypeOK, ControlOK, Batch
    <3> QED
      BY <3>1, <3>2
  <2> QED
    BY <1>5, <2>1 DEF PrintReference
<1>6. CASE SetReportedSlave
  BY <1>6 DEF SetReportedSlave
<1>7. CASE InstallHandler \/ Round \/ WriteOnce \/ EndRound \/ ExtendBatch \/ SendRequest
  BY <1>7 DEF InstallHandler, Round, WriteOnce, EndRound, ExtendBatch, SendRequest
<1>8. CASE Answered \/ NotAnswered \/ EndBatch \/ EndTurn \/ Delay \/ Until
  BY <1>8 DEF Answered, NotAnswered, EndBatch, EndTurn, Delay, Until
<1>9. CASE ReportSlaveID \/ Cleanup \/ Fail \/ SigInt \/ KilledBySigInt
  BY <1>9 DEF ReportSlaveID, Cleanup, Fail, SigInt, KilledBySigInt
<1>10. CASE UNCHANGED vars
  BY <1>10 DEF vars
<1> QED
  BY <1>1, <1>2, <1>3, <1>4, <1>5, <1>6, <1>7, <1>8, <1>9, <1>10 DEF Next, Step

\* A value is made of the right registers when each of its cells is one.
LEMMA CellsAreRegisters ==
  ASSUME NEW n, NEW label,
         \A r \in 0..(Width(ctx) - 1) : Cell(n + r) = <<Slaves[i], label - ctx.iPduOffset + r>>
  PROVE  Cells(n) = RegistersAt(label)
  BY DEF Cells, RegistersAt

\* The registers read for a reference lie inside the answer: the offset of the
\* reference leaves room for its unit.
LEMMA ValuesStep == TypeOK /\ Flow /\ Batch /\ Shown /\ ValuesAreTheirRegisters /\ [Next]_vars
                      => ValuesAreTheirRegisters'
PROOF
<1> SUFFICES ASSUME TypeOK, Flow, Batch, Shown, ValuesAreTheirRegisters, [Next]_vars
             PROVE  ValuesAreTheirRegisters'
  OBVIOUS
<1>a. ctx' = ctx /\ Slaves' = Slaves /\ Width(ctx)' = Width(ctx)
  BY SameContext
<1>1. CASE PrintReference
  <2>1. pc = "print" /\ m < k /\ i' = i
    BY <1>1 DEF PrintReference
  <2>2. /\ Len(Refs) \in Nat /\ Width(ctx) \in {1, 2} /\ ctx.iCount \in Nat /\ ctx.iCount >= 1
        /\ \A n \in 1..Len(Refs) : Refs[n] \in 0..MaxRef
        /\ ctx.iPduOffset \in {0, 1} /\ Unit \in Nat
    BY ContextFacts DEF TypeOK, ControlOK
  <2>3. Unit = ctx.iCount * Width(ctx)
    BY DEF Unit, RegisterCount
  <2>4. Offset \in 0..(ReadQty - Unit) /\ Unit >= 1
    BY <2>1, ChecksHold
  <2>5. ReadQty \in Int /\ Refs[m] \in Int /\ Refs[j] \in Int
    BY <2>1, <2>2, LimitsAssumption DEF TypeOK, IndexesOK, Batch, MaxUnits
  <2>6. /\ buffer.slave = Slaves[i] /\ buffer.first = Refs[j] - ctx.iPduOffset
        /\ buffer.len = ReadQty
    BY <2>1 DEF Shown
  <2>7. lines' = Values
    BY <1>1, <2>2, <2>4, <2>5 DEF PrintReference
  <2>8. /\ Offset \in Int /\ Offset = Refs[m] - Refs[j] /\ 0 <= Offset
        /\ Offset + Unit <= ReadQty /\ Unit \in Int /\ ctx.iPduOffset \in Int
    BY <2>2, <2>4, <2>5 DEF Offset
  <2>9. ASSUME NEW v \in 0..(ctx.iCount - 1)
        PROVE  Cells(Offset + v * Width(ctx)) = RegistersAt(Refs[m] + v * Width(ctx))
    <3> DEFINE w == v * Width(ctx)
    <3>1. w \in Int /\ 0 <= w /\ w + Width(ctx) <= Unit /\ Width(ctx) \in Int
      BY <2>2, <2>3
    <3> HIDE DEF w
    <3>2. ASSUME NEW r \in 0..(Width(ctx) - 1)
          PROVE  Cell((Offset + w) + r) = <<Slaves[i], (Refs[m] + w) - ctx.iPduOffset + r>>
      <4>1. (Offset + w) + r \in 0..(ReadQty - 1)
        BY <2>5, <2>8, <3>1
      <4>2. (Refs[j] - ctx.iPduOffset) + ((Offset + w) + r) = (Refs[m] + w) - ctx.iPduOffset + r
        BY <2>5, <2>8, <3>1
      <4> QED
        BY <4>1, <4>2, <2>6 DEF Cell
    <3>3. Cells(Offset + w) = RegistersAt(Refs[m] + w)
      BY <3>2, CellsAreRegisters
    <3> QED
      BY <3>3 DEF w
  <2>10. \A l \in Values : l.from = RegistersAt(l.label)
    BY <2>9 DEF Values
  <2>11. \A x : RegistersAt(x)' = RegistersAt(x)
    BY <1>a, <2>1 DEF RegistersAt
  <2> QED
    BY <2>7, <2>10, <2>11 DEF ValuesAreTheirRegisters
<1>2. CASE EndBatch
  BY <1>a, <1>2 DEF EndBatch, RegistersAt, Shown, ValuesAreTheirRegisters, output, indexes, Goto
<1>3. CASE Open \/ InstallHandler \/ WriteOnce
  BY <1>a, <1>3 DEF Open, InstallHandler, WriteOnce, ValuesAreTheirRegisters, RegistersAt, output,
    indexes
<1>4. CASE EndRound \/ BeginBatch \/ ExtendBatch
  BY <1>a, <1>4 DEF EndRound, BeginBatch, ExtendBatch, ValuesAreTheirRegisters, RegistersAt, output,
    indexes
<1>5. CASE CloseBatch \/ SendRequest \/ Answered
  BY <1>a, <1>5 DEF CloseBatch, SendRequest, Answered, ValuesAreTheirRegisters, RegistersAt, output,
    indexes
<1>6. CASE NotAnswered \/ Until \/ SetReportedSlave
  BY <1>a, <1>6 DEF NotAnswered, Until, SetReportedSlave, ValuesAreTheirRegisters, RegistersAt,
    output, indexes
<1>7. CASE ReportSlaveID \/ Cleanup \/ Fail
  BY <1>a, <1>7 DEF ReportSlaveID, Cleanup, Fail, ValuesAreTheirRegisters, RegistersAt, output,
    indexes
<1>8. CASE SigInt \/ KilledBySigInt
  BY <1>a, <1>8 DEF SigInt, KilledBySigInt, ValuesAreTheirRegisters, RegistersAt, output, indexes
<1>9. CASE Round \/ BeginTurn \/ EndTurn \/ Delay
  BY <1>a, <1>9 DEF Round, BeginTurn, EndTurn, Delay, RegistersAt, Shown, ValuesAreTheirRegisters,
    output, indexes, Goto
<1>10. CASE UNCHANGED vars
  BY <1>a, <1>10 DEF vars, ValuesAreTheirRegisters, RegistersAt
<1> QED
  BY <1>1, <1>2, <1>3, <1>4, <1>5, <1>6, <1>7, <1>8, <1>9, <1>10 DEF Next, Step

-----------------------------------------------------------------------------
LEMMA InitInvariant == Init => IInv
PROOF
<1> SUFFICES ASSUME Init PROVE IInv
  OBVIOUS
<1>1. TypeOK
  BY TypeInit
<1>2. Flow /\ Batch
  BY DEF Init, Flow, Batch, InTurn
<1>3. Pointer /\ OnlyTheBlockIsFreed
  BY DEF Init, Pointer, OnlyTheBlockIsFreed, InTurn
<1>4. Shown /\ ValuesAreTheirRegisters
  BY DEF Init, Shown, ValuesAreTheirRegisters
<1>5. Late /\ AtMostOneLateRequest
  BY DEF Init, Late, AtMostOneLateRequest
<1>6. ChecksOnlyStopWideReads
  BY DEF Init, ChecksOnlyStopWideReads
<1> QED
  BY <1>1, <1>2, <1>3, <1>4, <1>5, <1>6 DEF IInv

LEMMA StepInvariant == IInv /\ [Next]_vars => IInv'
PROOF
<1> SUFFICES ASSUME IInv, [Next]_vars PROVE IInv'
  OBVIOUS
<1> QED
  BY TypeStep, FlowStep, BatchStep, PointerStep, ShownStep, LateStep, FreedStep, ChecksStep,
     ValuesStep DEF IInv

\* The inductive invariant holds in every state main can be in.
THEOREM Invariant == Spec => []IInv
PROOF
<1>1. Init => IInv
  BY InitInvariant
<1>2. IInv /\ [Next]_vars => IInv'
  BY StepInvariant
<1> QED
  BY <1>1, <1>2, PTL DEF Spec

\* No index of the loop leaves its list and no variable its range, whatever the
\* lists and the answers (mbpoll.c:452-634).
THEOREM TypeCorrect == Spec => []TypeOK
PROOF
<1>1. IInv => TypeOK
  BY DEF IInv
<1> QED
  BY <1>1, Invariant, PTL

\* Neither vCleanup nor a failure exit passes the stack buffer to free, though
\* ctx.pvData points to it while the loop that can fail runs (mbpoll.c:559, 598,
\* 601-606, 624).
THEOREM NeverFreesTheStack == Spec => []OnlyTheBlockIsFreed
PROOF
<1>1. IInv => OnlyTheBlockIsFreed
  BY DEF IInv
<1> QED
  BY <1>1, Invariant, PTL

\* Whatever the lists and the way they fall into batches, every printed value is
\* built from the registers its label names, of the slave being polled
\* (mbpoll.c:555-608, vPrintReadValues).
THEOREM ValuesCorrect == Spec => []ValuesAreTheirRegisters
PROOF
<1>1. IInv => ValuesAreTheirRegisters
  BY DEF IInv
<1> QED
  BY <1>1, Invariant, PTL

\* A turn's requests go to its slave (mbpoll.c:479-485).
THEOREM RightSlave == Spec => []RequestsGoToTheSlave
PROOF
<1>1. IInv => RequestsGoToTheSlave
  BY DEF IInv, Flow, InTurn, RequestsGoToTheSlave
<1> QED
  BY <1>1, Invariant, PTL

\* Ctrl-C lets at most the request that was about to leave go (mbpoll.c:453, 475, 506).
THEOREM OneLateRequest == Spec => []AtMostOneLateRequest
PROOF
<1>1. IInv => AtMostOneLateRequest
  BY DEF IInv
<1> QED
  BY <1>1, Invariant, PTL

\* The overflow check (mbpoll.c:525) and the check of a batch offset (597) never
\* fail, and the check of the quantity (558) fails only for a single reference
\* with too many two-register values.
THEOREM ChecksCorrect == Spec => []ChecksOnlyStopWideReads
PROOF
<1>1. IInv => ChecksOnlyStopWideReads
  BY DEF IInv
<1> QED
  BY <1>1, Invariant, PTL
=============================================================================
