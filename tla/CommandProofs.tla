---------------------------- MODULE CommandProofs ----------------------------
(***************************************************************************)
(* Proofs about CommandLine, for every set of options and texts, every     *)
(* limit and both builds.                                                  *)
(***************************************************************************)
EXTENDS CommandLine, FiniteSetTheorems, TLAPS

IntLists == Seq(Int)

Context ==
  [ eMode : {"rtu", "tcp"}, bIsDefaultMode : BOOLEAN,
    sDevice : Devices \cup {"none", "bridge"},
    eFunction : Functions, eFormat : Formats,
    piSlaveAddr : IntLists, iSlaveCount : Int, piStartRef : IntLists, iStartCount : Int,
    iCount : Int, iPduOffset : {0, 1},
    bIsPolling : BOOLEAN, bIsWrite : BOOLEAN, bIsReportSlaveID : BOOLEAN,
    bIsBigEndian : BOOLEAN, bWriteSingleAsMany : BOOLEAN, bIsQuiet : BOOLEAN,
    bEnableMaxSlaveQuirk : BOOLEAN, bIsChipIo : BOOLEAN ]

\* The lists know their lengths until an option or a default gives them one.
ListsKnown(p) ==
  /\ p.iSlaveCount = -1 \/ p.iSlaveCount = Len(p.piSlaveAddr)
  /\ p.iStartCount = -1 \/ p.iStartCount = Len(p.piStartRef)

Early == {"options", "device", "bridge", "values?"}
AfterOptions == {"device", "bridge", "values?", "values", "lists", "addresses", "ready", "written"}
AfterValues == {"lists", "addresses", "ready", "written"}

\* What the end of the options settles for good.
Normal(p) ==
  /\ p.iStartCount = Len(p.piStartRef)
  /\ \A n \in 1..Len(p.piStartRef) :
       p.piStartRef[n] \in p.iPduOffset .. (MaxRef - 1 + p.iPduOffset)
  /\ UsesBinary(p.eFunction) => p.eFormat = "bin"
  /\ Len(p.piStartRef) > 1 => p.iCount = 1 \/ (p.bIsWrite /\ ~p.bIsReportSlaveID)

\* What counting and converting the values settles.
Counts(p) ==
  /\ ~p.bIsWrite => p.iCount <= MaxCount
  /\ p.bIsWrite /\ ~p.bIsReportSlaveID => ~p.bIsPolling /\ ~IsReadOnly(p.eFunction)

\* Until values are counted, several references are read one value each.
OneEach(p) == Len(p.piStartRef) > 1 => p.iCount = 1

Writing(p) == p.bIsWrite /\ ~p.bIsReportSlaveID /\ ~p.bIsPolling

ArgumentsInv ==
  pc # "refused" =>
    /\ ListsKnown(q) /\ q.iCount >= 1
    /\ pc \in Early => q.iCount <= MaxCount /\ texts = <<>>
    /\ pc \in AfterOptions => Normal(q)
    /\ pc \in Early \ {"options"} => OneEach(q)
    /\ pc = "values" => Writing(q) /\ (texts # <<>> => ~IsReadOnly(q.eFunction))
    /\ pc \in AfterValues => Counts(q)
    /\ pc \in {"addresses", "ready", "written"} =>
         ListsFit(q) /\ q.iSlaveCount = Len(q.piSlaveAddr)
    /\ pc \in {"ready", "written"} => SlavesAllowed(q)

\* How far the bridge is, and who may know of it.
BridgeInv ==
  pc # "refused" =>
    /\ pc \in {"options", "device"} => bridge = "none" /\ q.sDevice = "none"
    /\ pc = "bridge" =>
         /\ bridge \in {"none", "chip", "port"}
         /\ bridge = "port" => q.sDevice = "bridge"
    /\ pc \in {"values?", "values"} \cup AfterValues =>
         /\ bridge \in {"none", "ready"}
         /\ q.sDevice = "bridge" <=> bridge = "ready"
         /\ bridge = "ready" => q.eMode = "rtu" /\ q.bIsChipIo

\* The quirk is only set by its option.
QuirkInv == pc # "refused" /\ q.bEnableMaxSlaveQuirk => Given("Q")

CInv ==
  /\ pc \in CommandPcs /\ q \in Context /\ texts \in Seq(Texts) /\ nb \in Nat
  /\ ArgumentsInv /\ BridgeInv /\ QuirkInv

-----------------------------------------------------------------------------
LEMMA InitCInv == CommandInit => CInv
PROOF
<1> SUFFICES ASSUME CommandInit PROVE CInv
  OBVIOUS
<1>1. /\ pc = "options" /\ q = Defaults /\ typed = {} /\ texts = <<>> /\ nb = 0
      /\ bridge = "none"
  BY DEF CommandInit
<1>2. q \in Context
  BY <1>1 DEF Defaults, Context, IntLists, Devices, Hosts, Functions, Formats
<1>3. /\ q.iSlaveCount = -1 /\ q.iStartCount = -1 /\ q.iCount = 1 /\ q.sDevice = "none"
      /\ q.bEnableMaxSlaveQuirk = FALSE
  BY <1>1 DEF Defaults
<1>4. ArgumentsInv
  BY <1>1, <1>3, LimitsAssumption DEF ArgumentsInv, ListsKnown, AfterOptions, AfterValues
<1>5. BridgeInv
  BY <1>1, <1>3 DEF BridgeInv, AfterValues
<1>6. QuirkInv
  BY <1>3 DEF QuirkInv
<1> QED
  BY <1>1, <1>2, <1>4, <1>5, <1>6 DEF CInv, CommandPcs

\* What an option may do to the context.
LEMMA AppliedFacts ==
  ASSUME NEW p \in Context, NEW w \in OptionWords, Legal(w),
         ListsKnown(p), p.iCount \in 1..MaxCount
  PROVE  /\ Applied(p, w) \in Context
         /\ ListsKnown(Applied(p, w))
         /\ Applied(p, w).iCount \in 1..MaxCount
         /\ Applied(p, w).sDevice = p.sDevice
         /\ Applied(p, w).bEnableMaxSlaveQuirk => p.bEnableMaxSlaveQuirk \/ w.opt = "Q"
PROOF
<1>1. /\ w.list \in IntLists /\ ListCount(w) \in Int
      /\ ListCount(w) = -1 \/ ListCount(w) = Len(w.list)
      /\ w.opt \in {"c", "t", "l"} => Len(w.list) = 1
      /\ w.opt = "m" => w.text \in {"rtu", "tcp"}
      /\ w.opt = "t" => w.text \in Formats \cup {"plain"}
  BY CommandLineAssumption DEF Legal, IntLists, ListCount
<1>2. CASE w.opt = "m"
  <2>1. Applied(p, w) = [p EXCEPT !.eMode = w.text, !.bIsDefaultMode = FALSE]
    BY <1>2 DEF Applied
  <2> QED
    BY <1>1, <1>2, <2>1 DEF Context, ListsKnown
<1>3. CASE w.opt = "a"
  <2>1. Applied(p, w) = [p EXCEPT !.piSlaveAddr = w.list, !.iSlaveCount = ListCount(w)]
    BY <1>3 DEF Applied
  <2> DEFINE r == Applied(p, w)
  <2>2. r \in Context
    BY <1>1, <2>1 DEF Context
  <2>3. /\ r.piSlaveAddr = w.list /\ r.iSlaveCount = ListCount(w) /\ r.iCount = p.iCount
        /\ r.sDevice = p.sDevice /\ r.bEnableMaxSlaveQuirk = p.bEnableMaxSlaveQuirk
        /\ r.piStartRef = p.piStartRef /\ r.iStartCount = p.iStartCount
    BY <2>1 DEF Context
  <2> HIDE DEF r
  <2> QED
    BY <1>1, <2>2, <2>3 DEF ListsKnown, r
<1>4. CASE w.opt = "r"
  <2>1. Applied(p, w) = [p EXCEPT !.piStartRef = w.list, !.iStartCount = ListCount(w)]
    BY <1>4 DEF Applied
  <2> DEFINE r == Applied(p, w)
  <2>2. r \in Context
    BY <1>1, <2>1 DEF Context
  <2>3. /\ r.piStartRef = w.list /\ r.iStartCount = ListCount(w) /\ r.iCount = p.iCount
        /\ r.sDevice = p.sDevice /\ r.bEnableMaxSlaveQuirk = p.bEnableMaxSlaveQuirk
        /\ r.piSlaveAddr = p.piSlaveAddr /\ r.iSlaveCount = p.iSlaveCount
    BY <2>1 DEF Context
  <2> HIDE DEF r
  <2> QED
    BY <1>1, <2>2, <2>3 DEF ListsKnown, r
<1>5. CASE w.opt = "c"
  <2>1. Applied(p, w) = [p EXCEPT !.iCount = w.list[1], !.bIsWrite = FALSE]
    BY <1>5 DEF Applied
  <2>2. w.list[1] \in 1..MaxCount
    BY <1>5 DEF Legal
  <2>3. w.list[1] \in Int
    BY <2>2, LimitsAssumption
  <2> QED
    BY <1>1, <1>5, <2>1, <2>2, <2>3 DEF Context, ListsKnown
<1>6. CASE w.opt = "t"
  <2>1. Applied(p, w) = [p EXCEPT !.eFunction = FunctionOf(w.list[1]),
                                  !.eFormat = IF w.text = "plain" THEN @ ELSE w.text]
    BY <1>6 DEF Applied
  <2>2. FunctionOf(w.list[1]) \in Functions
    BY DEF FunctionOf, Functions
  <2> QED
    BY <1>1, <1>6, <2>1, <2>2 DEF Context, ListsKnown
<1>7. CASE w.opt \notin {"m", "a", "r", "c", "t"}
  <2>1. \/ Applied(p, w) = p
        \/ Applied(p, w) = [p EXCEPT !.bIsReportSlaveID = TRUE]
        \/ Applied(p, w) = [p EXCEPT !.bIsPolling = FALSE]
        \/ Applied(p, w) = [p EXCEPT !.iPduOffset = 0]
        \/ Applied(p, w) = [p EXCEPT !.bIsBigEndian = TRUE]
        \/ Applied(p, w) = [p EXCEPT !.bWriteSingleAsMany = TRUE]
        \/ Applied(p, w) = [p EXCEPT !.bIsQuiet = TRUE]
        \/ Applied(p, w) = [p EXCEPT !.bEnableMaxSlaveQuirk = TRUE] /\ w.opt = "Q"
        \/ Applied(p, w) = [p EXCEPT !.bIsChipIo = TRUE]
    BY <1>7 DEF Applied
  <2>2. CASE Applied(p, w) = p
    BY <2>2
  <2>3. CASE Applied(p, w) = [p EXCEPT !.bIsReportSlaveID = TRUE]
    BY <2>3 DEF Context, ListsKnown
  <2>4. CASE Applied(p, w) = [p EXCEPT !.bIsPolling = FALSE]
    BY <2>4 DEF Context, ListsKnown
  <2>5. CASE Applied(p, w) = [p EXCEPT !.iPduOffset = 0]
    BY <2>5 DEF Context, ListsKnown
  <2>6. CASE Applied(p, w) = [p EXCEPT !.bIsBigEndian = TRUE]
    BY <2>6 DEF Context, ListsKnown
  <2>7. CASE Applied(p, w) = [p EXCEPT !.bWriteSingleAsMany = TRUE]
    BY <2>7 DEF Context, ListsKnown
  <2>8. CASE Applied(p, w) = [p EXCEPT !.bIsQuiet = TRUE]
    BY <2>8 DEF Context, ListsKnown
  <2>9. CASE Applied(p, w) = [p EXCEPT !.bEnableMaxSlaveQuirk = TRUE] /\ w.opt = "Q"
    BY <2>9 DEF Context, ListsKnown
  <2>10. CASE Applied(p, w) = [p EXCEPT !.bIsChipIo = TRUE]
    BY <2>10 DEF Context, ListsKnown
  <2> QED
    BY <2>1, <2>2, <2>3, <2>4, <2>5, <2>6, <2>7, <2>8, <2>9, <2>10
<1> QED
  BY <1>2, <1>3, <1>4, <1>5, <1>6, <1>7

-----------------------------------------------------------------------------
\* A line that is refused keeps nothing the invariant speaks of.
LEMMA RefuseStep ==
  ASSUME CInv, Refuse, texts' \in Seq(Texts), nb' \in Nat
  PROVE  CInv'
PROOF
<1>1. pc' = "refused" /\ q' = [q EXCEPT !.piSlaveAddr = <<>>, !.piStartRef = <<>>]
  BY DEF Refuse
<1>2. q \in Context
  BY DEF CInv
<1>3. <<>> \in IntLists
  BY DEF IntLists
<1>4. q' \in Context
  BY <1>1, <1>2, <1>3 DEF Context
<1>5. pc' \in CommandPcs
  BY <1>1 DEF CommandPcs
<1>6. ArgumentsInv' /\ BridgeInv' /\ QuirkInv'
  BY <1>1 DEF ArgumentsInv, BridgeInv, QuirkInv
<1> QED
  BY <1>4, <1>5, <1>6 DEF CInv

LEMMA OptionStep ==
  ASSUME CInv, NEW w \in OptionWords, Option(w)
  PROVE  CInv'
PROOF
<1>1. /\ pc = "options" /\ typed' = typed \cup {w}
      /\ UNCHANGED <<texts, nb, bridge, frame>>
  BY DEF Option
<1>2. texts' \in Seq(Texts) /\ nb' \in Nat
  BY <1>1 DEF CInv
<1>3. CASE Legal(w) /\ q' = Applied(q, w) /\ pc' = pc
  <2>1. q \in Context /\ ListsKnown(q) /\ q.iCount \in Int /\ q.iCount >= 1 /\ q.iCount <= MaxCount
    BY <1>1 DEF CInv, ArgumentsInv, Early, Context
  <2>2. q.iCount \in 1..MaxCount
    BY <2>1, LimitsAssumption
  <2>3. /\ q' \in Context /\ ListsKnown(q') /\ q'.iCount \in 1..MaxCount
        /\ q'.sDevice = q.sDevice
        /\ q'.bEnableMaxSlaveQuirk => q.bEnableMaxSlaveQuirk \/ w.opt = "Q"
    BY <1>3, <2>1, <2>2, AppliedFacts
  <2>4. q'.iCount >= 1 /\ q'.iCount <= MaxCount
    BY <2>3, LimitsAssumption
  <2>5. ArgumentsInv'
    <3>1. texts' = <<>>
      BY <1>1 DEF CInv, ArgumentsInv, Early
    <3> QED
      BY <1>1, <1>3, <2>3, <2>4, <3>1 DEF ArgumentsInv, AfterOptions, AfterValues
  <2>6. BridgeInv'
    BY <1>1, <1>3, <2>3 DEF CInv, BridgeInv, AfterValues
  <2>7. QuirkInv'
    BY <1>1, <2>3 DEF CInv, QuirkInv, Given
  <2> QED
    BY <1>1, <1>2, <1>3, <2>3, <2>5, <2>6, <2>7 DEF CInv
<1>4. CASE Refuse
  BY <1>2, <1>4, RefuseStep
<1> QED
  BY <1>3, <1>4 DEF Option

LEMMA InformationStep ==
  ASSUME CInv, Information
  PROVE  CInv'
PROOF
<1>1. /\ pc = "options" /\ pc' = "informed"
      /\ UNCHANGED <<q, typed, options, texts, nb, pvData, bridge, frame>>
  BY DEF Information
<1>2. ArgumentsInv'
  BY <1>1 DEF CInv, ArgumentsInv, Early, AfterOptions, AfterValues
<1>3. BridgeInv' /\ QuirkInv'
  BY <1>1 DEF CInv, BridgeInv, QuirkInv, Given, AfterValues
<1> QED
  BY <1>1, <1>2, <1>3 DEF CInv, CommandPcs

LEMMA EndOfOptionsStep ==
  ASSUME CInv, EndOfOptions
  PROVE  CInv'
PROOF
<1>1. pc = "options" /\ UNCHANGED <<typed, options, texts, nb, bridge, frame>>
  BY DEF EndOfOptions
<1>2. texts' \in Seq(Texts) /\ nb' \in Nat
  BY <1>1 DEF CInv
<1>3. CASE Refuse
  BY <1>2, <1>3, RefuseStep
<1>4. CASE ~Refuse
  <2> DEFINE refs == StartRefs
  <2>1. /\ \A n \in 1..Len(refs) : refs[n] \in q.iPduOffset .. (MaxRef - 1 + q.iPduOffset)
        /\ q' = Normalized(q, refs) /\ pc' = "device"
    BY <1>4 DEF EndOfOptions
  <2>2. q \in Context /\ ListsKnown(q) /\ q.iCount >= 1 /\ q.iCount <= MaxCount
    BY <1>1 DEF CInv, ArgumentsInv, Early
  <2>3. refs \in IntLists /\ Len(refs) \in Int
    BY <2>2 DEF StartRefs, Context, IntLists
  <2> HIDE DEF refs
  <2>4. q' = [q EXCEPT !.piStartRef = refs, !.iStartCount = Len(refs),
                       !.iCount = IF Len(refs) > 1 THEN 1 ELSE @,
                       !.eFormat = IF UsesBinary(q.eFunction) THEN "bin" ELSE @]
    BY <2>1 DEF Normalized
  <2> DEFINE c == IF Len(refs) > 1 THEN 1 ELSE q.iCount
             f == IF UsesBinary(q.eFunction) THEN "bin" ELSE q.eFormat
  <2>5. c \in Int /\ f \in Formats
    BY <2>2 DEF Context, Formats
  <2>6. q' \in Context
    <3>1. q' = [q EXCEPT !.piStartRef = refs, !.iStartCount = Len(refs), !.iCount = c, !.eFormat = f]
      BY <2>2, <2>4 DEF Context
    <3> HIDE DEF c, f
    <3> QED
      BY <2>2, <2>3, <2>5, <3>1 DEF Context
  <2>7. /\ q'.piStartRef = refs /\ q'.iStartCount = Len(refs)
        /\ q'.iPduOffset = q.iPduOffset /\ q'.eFunction = q.eFunction
        /\ q'.sDevice = q.sDevice /\ q'.bEnableMaxSlaveQuirk = q.bEnableMaxSlaveQuirk
        /\ q'.piSlaveAddr = q.piSlaveAddr /\ q'.iSlaveCount = q.iSlaveCount
    BY <2>2, <2>4 DEF Context
  <2>8. /\ UsesBinary(q'.eFunction) => q'.eFormat = "bin"
        /\ q'.iCount = IF Len(refs) > 1 THEN 1 ELSE q.iCount
    BY <2>2, <2>4 DEF Context
  <2>9. Normal(q')
    BY <2>1, <2>7, <2>8 DEF Normal
  <2>10. ListsKnown(q')
    BY <2>2, <2>7 DEF ListsKnown
  <2>11. q'.iCount >= 1 /\ q'.iCount <= MaxCount
    BY <2>2, <2>8, LimitsAssumption
  <2>12. ArgumentsInv'
    <3>1. texts' = <<>>
      BY <1>1 DEF CInv, ArgumentsInv, Early
    <3>2. OneEach(q')
      BY <2>7, <2>8 DEF OneEach
    <3> QED
      BY <2>1, <2>9, <2>10, <2>11, <3>1, <3>2 DEF ArgumentsInv, AfterValues
  <2>13. BridgeInv' /\ QuirkInv'
    BY <1>1, <2>1, <2>7 DEF CInv, BridgeInv, QuirkInv, Given, AfterValues
  <2> QED
    BY <1>2, <2>1, <2>6, <2>12, <2>13 DEF CInv, CommandPcs
<1> QED
  BY <1>3, <1>4

\* A step that changes only the device, the mode and the mark of the bridge keeps
\* what the arguments settled.
LEMMA SameArguments ==
  ASSUME CInv, pc \in {"device", "bridge"}, pc' \in {"bridge", "values?"},
         q' \in Context,
         /\ q'.piSlaveAddr = q.piSlaveAddr /\ q'.iSlaveCount = q.iSlaveCount
         /\ q'.piStartRef = q.piStartRef /\ q'.iStartCount = q.iStartCount
         /\ q'.iCount = q.iCount /\ q'.iPduOffset = q.iPduOffset
         /\ q'.eFunction = q.eFunction /\ q'.eFormat = q.eFormat
         /\ q'.bIsWrite = q.bIsWrite /\ q'.bIsReportSlaveID = q.bIsReportSlaveID
         /\ q'.bEnableMaxSlaveQuirk = q.bEnableMaxSlaveQuirk,
         UNCHANGED <<typed, texts, nb>>,
         BridgeInv'
  PROVE  CInv'
PROOF
<1>1. /\ ListsKnown(q) /\ q.iCount >= 1 /\ q.iCount <= MaxCount
      /\ Normal(q) /\ OneEach(q) /\ texts' = <<>>
  BY DEF CInv, ArgumentsInv, Early, AfterOptions
<1>2. ListsKnown(q')
  BY <1>1 DEF ListsKnown
<1>3. Normal(q') /\ OneEach(q')
  BY <1>1 DEF Normal, OneEach
<1>4. ArgumentsInv'
  BY <1>1, <1>2, <1>3 DEF ArgumentsInv, AfterValues
<1>5. QuirkInv'
  BY DEF CInv, QuirkInv, Given
<1> QED
  BY <1>4, <1>5 DEF CInv, CommandPcs

LEMMA TakeDeviceStep ==
  ASSUME CInv, NEW d \in Devices, TakeDevice(d)
  PROVE  CInv'
PROOF
<1> DEFINE serial == NamesAPort(d) /\ q.bIsDefaultMode
<1>1. /\ pc = "device"
      /\ q' = [q EXCEPT !.sDevice = d, !.eMode = IF serial THEN "rtu" ELSE @]
      /\ pc' = IF ~serial /\ UsesBridge(q, d) THEN "bridge" ELSE "values?"
      /\ UNCHANGED <<typed, options, texts, nb, pvData, bridge, frame>>
  BY DEF TakeDevice
<1> HIDE DEF serial
<1>2. q \in Context /\ bridge = "none"
  BY <1>1 DEF CInv, BridgeInv
<1> DEFINE m == IF serial THEN "rtu" ELSE q.eMode
<1>3. m \in {"rtu", "tcp"}
  BY <1>2 DEF Context
<1>4. q' = [q EXCEPT !.sDevice = d, !.eMode = m]
  BY <1>1, <1>2 DEF Context
<1> HIDE DEF m
<1>5. q' \in Context
  BY <1>2, <1>3, <1>4 DEF Context
<1>6. /\ q'.piSlaveAddr = q.piSlaveAddr /\ q'.iSlaveCount = q.iSlaveCount
      /\ q'.piStartRef = q.piStartRef /\ q'.iStartCount = q.iStartCount
      /\ q'.iCount = q.iCount /\ q'.iPduOffset = q.iPduOffset
      /\ q'.eFunction = q.eFunction /\ q'.eFormat = q.eFormat
      /\ q'.bIsWrite = q.bIsWrite /\ q'.bIsReportSlaveID = q.bIsReportSlaveID
      /\ q'.bEnableMaxSlaveQuirk = q.bEnableMaxSlaveQuirk
  BY <1>2, <1>4 DEF Context
<1>7. q'.sDevice = d /\ d # "bridge"
  BY <1>2, <1>4 DEF Context, Devices, Hosts
<1>8. pc' \in {"bridge", "values?"}
  BY <1>1
<1>9. BridgeInv'
  BY <1>1, <1>2, <1>7, <1>8 DEF BridgeInv, AfterValues
<1> QED
  BY <1>1, <1>5, <1>6, <1>8, <1>9, SameArguments

LEMMA SetUpBridgeStep ==
  ASSUME CInv, SetUpBridge
  PROVE  CInv'
PROOF
<1>1. pc = "bridge" /\ UNCHANGED <<typed, options, texts, nb, frame>>
  BY DEF SetUpBridge
<1>2. q \in Context /\ texts' \in Seq(Texts) /\ nb' \in Nat
  BY <1>1 DEF CInv
<1>3. CASE Refuse
  BY <1>2, <1>3, RefuseStep
<1>4. CASE bridge' = "chip" /\ pc' = pc /\ q' = q
  <2>1. BridgeInv'
    BY <1>1, <1>4 DEF BridgeInv, AfterValues
  <2> QED
    BY <1>1, <1>2, <1>4, <2>1, SameArguments
<1>5. CASE bridge' = "port" /\ pc' = pc /\ q' = [q EXCEPT !.sDevice = "bridge"]
  <2>1. q' \in Context
    BY <1>2, <1>5 DEF Context
  <2>2. /\ q'.piSlaveAddr = q.piSlaveAddr /\ q'.iSlaveCount = q.iSlaveCount
        /\ q'.piStartRef = q.piStartRef /\ q'.iStartCount = q.iStartCount
        /\ q'.iCount = q.iCount /\ q'.iPduOffset = q.iPduOffset
        /\ q'.eFunction = q.eFunction /\ q'.eFormat = q.eFormat
        /\ q'.bIsWrite = q.bIsWrite /\ q'.bIsReportSlaveID = q.bIsReportSlaveID
        /\ q'.bEnableMaxSlaveQuirk = q.bEnableMaxSlaveQuirk
    BY <1>2, <1>5 DEF Context
  <2>3. BridgeInv'
    BY <1>1, <1>5 DEF BridgeInv, AfterValues
  <2> QED
    BY <1>1, <1>5, <2>1, <2>2, <2>3, SameArguments
<1>6. CASE /\ bridge' = "ready" /\ pc' = "values?" /\ bridge = "port"
           /\ q' = [q EXCEPT !.eMode = "rtu", !.bIsChipIo = TRUE]
  <2>1. q' \in Context
    BY <1>2, <1>6 DEF Context
  <2>2. /\ q'.piSlaveAddr = q.piSlaveAddr /\ q'.iSlaveCount = q.iSlaveCount
        /\ q'.piStartRef = q.piStartRef /\ q'.iStartCount = q.iStartCount
        /\ q'.iCount = q.iCount /\ q'.iPduOffset = q.iPduOffset
        /\ q'.eFunction = q.eFunction /\ q'.eFormat = q.eFormat
        /\ q'.bIsWrite = q.bIsWrite /\ q'.bIsReportSlaveID = q.bIsReportSlaveID
        /\ q'.bEnableMaxSlaveQuirk = q.bEnableMaxSlaveQuirk
    BY <1>2, <1>6 DEF Context
  <2>3. q'.sDevice = q.sDevice /\ q'.eMode = "rtu" /\ q'.bIsChipIo = TRUE
    BY <1>2, <1>6 DEF Context
  <2>4. q.sDevice = "bridge"
    BY <1>1, <1>6 DEF CInv, BridgeInv
  <2>5. BridgeInv'
    BY <1>1, <1>6, <2>3, <2>4 DEF BridgeInv, AfterValues
  <2> QED
    BY <1>1, <1>6, <2>1, <2>2, <2>5, SameArguments
<1> QED
  BY <1>3, <1>4, <1>5, <1>6 DEF SetUpBridge

LEMMA DeviceMissingStep ==
  ASSUME CInv, DeviceMissing
  PROVE  CInv'
PROOF
<1>1. Refuse /\ UNCHANGED <<texts, nb>>
  BY DEF DeviceMissing
<1>2. texts' \in Seq(Texts) /\ nb' \in Nat
  BY <1>1 DEF CInv
<1> QED
  BY <1>1, <1>2, RefuseStep

\* Once the device is known, nothing touches the bridge, the device, the mode or the
\* quirk any more.
LEMMA SameBridge ==
  ASSUME CInv, pc \in {"values?", "values"} \cup AfterValues, pc' \in {"values"} \cup AfterValues,
         q'.sDevice = q.sDevice /\ q'.eMode = q.eMode /\ q'.bIsChipIo = q.bIsChipIo,
         q'.bEnableMaxSlaveQuirk = q.bEnableMaxSlaveQuirk,
         UNCHANGED <<typed, bridge>>
  PROVE  BridgeInv' /\ QuirkInv' /\ pc' \in CommandPcs
PROOF
<1>1. BridgeInv'
  BY DEF CInv, BridgeInv, AfterValues
<1>2. QuirkInv'
  BY DEF CInv, QuirkInv, Given, AfterValues
<1> QED
  BY <1>1, <1>2 DEF AfterValues, CommandPcs

LEMMA CountValuesStep ==
  ASSUME CInv, NEW n \in 0..MaxValues, CountValues(n)
  PROVE  CInv'
PROOF
<1>1. pc = "values?" /\ nb' = n /\ UNCHANGED <<typed, options, texts, bridge, frame>>
  BY DEF CountValues
<1>2. q \in Context /\ texts' \in Seq(Texts)
  BY <1>1 DEF CInv
<1>3. n \in Nat
  BY CommandLineAssumption
<1>4. /\ ListsKnown(q) /\ Normal(q) /\ texts = <<>>
      /\ q.iCount >= 1 /\ q.iCount <= MaxCount
  BY <1>1 DEF CInv, ArgumentsInv, Early, AfterOptions
<1>5. CASE Refuse
  BY <1>1, <1>2, <1>3, <1>5, RefuseStep
<1>6. CASE q.bIsReportSlaveID /\ pc' = "lists" /\ q' = q
  <2>1. Counts(q')
    BY <1>4, <1>6 DEF Counts
  <2>2. ArgumentsInv'
    BY <1>1, <1>4, <1>6, <2>1 DEF ArgumentsInv, Early, AfterOptions, AfterValues, ListsKnown, Normal
  <2>3. BridgeInv' /\ QuirkInv' /\ pc' \in CommandPcs
    BY <1>1, <1>6, SameBridge DEF AfterValues
  <2> QED
    BY <1>1, <1>2, <1>3, <1>6, <2>2, <2>3 DEF CInv
<1>7. CASE n > 0 /\ ~q.bIsReportSlaveID /\ q.bIsWrite /\ q' = Counted(q, n) /\ pc' = "values"
  <2>1. q' = [q EXCEPT !.bIsPolling = FALSE, !.iCount = n]
    BY <1>7 DEF Counted
  <2>2. q' \in Context
    <3>1. n \in Int
      BY <1>3
    <3> QED
      BY <1>2, <2>1, <3>1 DEF Context
  <2>3. /\ q'.sDevice = q.sDevice /\ q'.eMode = q.eMode /\ q'.bIsChipIo = q.bIsChipIo
        /\ q'.bEnableMaxSlaveQuirk = q.bEnableMaxSlaveQuirk
        /\ q'.piSlaveAddr = q.piSlaveAddr /\ q'.iSlaveCount = q.iSlaveCount
        /\ q'.piStartRef = q.piStartRef /\ q'.iStartCount = q.iStartCount
        /\ q'.iPduOffset = q.iPduOffset /\ q'.eFunction = q.eFunction /\ q'.eFormat = q.eFormat
        /\ q'.iCount = n
    BY <1>2, <2>1 DEF Context
  <2>4. q'.bIsWrite /\ ~q'.bIsReportSlaveID /\ ~q'.bIsPolling
    BY <1>2, <1>7, <2>1 DEF Context
  <2>5. Normal(q')
    BY <1>4, <2>3, <2>4 DEF Normal
  <2>6. ListsKnown(q') /\ Writing(q') /\ q'.iCount >= 1 /\ texts' = <<>>
    BY <1>1, <1>3, <1>4, <1>7, <2>3, <2>4 DEF ListsKnown, Writing
  <2>7. ArgumentsInv'
    BY <1>7, <2>5, <2>6 DEF ArgumentsInv, Early, AfterOptions, AfterValues, ListsKnown, Normal, Writing
  <2>8. BridgeInv' /\ QuirkInv' /\ pc' \in CommandPcs
    BY <1>1, <1>7, <2>3, SameBridge
  <2> QED
    BY <1>1, <1>2, <1>3, <2>2, <2>7, <2>8 DEF CInv
<1>8. CASE n = 0 /\ ~q.bIsReportSlaveID /\ q' = Counted(q, n) /\ pc' = "lists"
  <2>1. q' = [q EXCEPT !.bIsWrite = FALSE]
    BY <1>8 DEF Counted
  <2>2. q' \in Context
    BY <1>2, <2>1 DEF Context
  <2>3. /\ q'.sDevice = q.sDevice /\ q'.eMode = q.eMode /\ q'.bIsChipIo = q.bIsChipIo
        /\ q'.bEnableMaxSlaveQuirk = q.bEnableMaxSlaveQuirk
        /\ q'.piSlaveAddr = q.piSlaveAddr /\ q'.iSlaveCount = q.iSlaveCount
        /\ q'.piStartRef = q.piStartRef /\ q'.iStartCount = q.iStartCount
        /\ q'.iPduOffset = q.iPduOffset /\ q'.eFunction = q.eFunction /\ q'.eFormat = q.eFormat
        /\ q'.iCount = q.iCount
    BY <1>2, <2>1 DEF Context
  <2>4. q'.bIsWrite = FALSE
    BY <1>2, <2>1 DEF Context
  <2>5. Len(q.piStartRef) > 1 => q.iCount = 1
    BY <1>1 DEF CInv, ArgumentsInv, OneEach, Early
  <2>6. Normal(q') /\ Counts(q')
    BY <1>4, <2>3, <2>4, <2>5 DEF Normal, Counts
  <2>7. ListsKnown(q')
    BY <1>4, <2>3 DEF ListsKnown
  <2>8. ArgumentsInv'
    BY <1>4, <1>8, <2>3, <2>6, <2>7 DEF ArgumentsInv, Early, AfterOptions, AfterValues, ListsKnown, Normal, Counts
  <2>9. BridgeInv' /\ QuirkInv' /\ pc' \in CommandPcs
    BY <1>1, <1>8, <2>3, SameBridge DEF AfterValues
  <2> QED
    BY <1>1, <1>2, <1>3, <2>2, <2>8, <2>9 DEF CInv
<1> QED
  BY <1>3, <1>5, <1>6, <1>7, <1>8 DEF CountValues

\* No text is a value of a table that cannot be written.
LEMMA ReadOnlyRefused ==
  ASSUME NEW f, NEW format, NEW t, CliAccepts(f, format, t)
  PROVE  ~IsReadOnly(f)
PROOF
  BY DEF CliAccepts

LEMMA ConvertValueStep ==
  ASSUME CInv, NEW t \in Texts, ConvertValue(t)
  PROVE  CInv'
PROOF
<1>1. pc = "values" /\ texts' = Append(texts, t) /\ UNCHANGED <<typed, options, nb, bridge, frame>>
  BY DEF ConvertValue
<1>2. q \in Context /\ texts' \in Seq(Texts) /\ nb' \in Nat
  BY <1>1 DEF CInv
<1>3. CASE Refuse
  BY <1>2, <1>3, RefuseStep
<1>4. CASE CliAccepts(q.eFunction, q.eFormat, t) /\ q' = q /\ pc' \in {"values", "lists"}
  <2>1. ListsKnown(q) /\ Normal(q) /\ Writing(q) /\ q.iCount >= 1
    BY <1>1 DEF CInv, ArgumentsInv, AfterOptions
  <2>2. ~IsReadOnly(q.eFunction)
    BY <1>4, ReadOnlyRefused
  <2>3. Counts(q)
    BY <2>1, <2>2 DEF Counts, Writing
  <2>4. ArgumentsInv'
    BY <1>4, <2>1, <2>2, <2>3 DEF ArgumentsInv, Early, AfterOptions, AfterValues, ListsKnown, Normal, Writing, Counts
  <2>5. BridgeInv' /\ QuirkInv' /\ pc' \in CommandPcs
    BY <1>1, <1>4, SameBridge DEF AfterValues
  <2> QED
    BY <1>2, <1>4, <2>4, <2>5 DEF CInv
<1> QED
  BY <1>3, <1>4 DEF ConvertValue

LEMMA CheckListsStep ==
  ASSUME CInv, CheckLists
  PROVE  CInv'
PROOF
<1>1. pc = "lists" /\ UNCHANGED <<typed, options, texts, nb, bridge, frame>>
  BY DEF CheckLists
<1>2. q \in Context /\ texts' \in Seq(Texts) /\ nb' \in Nat
  BY <1>1 DEF CInv
<1>3. CASE Refuse
  BY <1>2, <1>3, RefuseStep
<1>4. CASE ~Refuse
  <2>1. /\ ListsFit(q) /\ pc' = "addresses"
        /\ q' = IF q.iSlaveCount = -1
                THEN [q EXCEPT !.piSlaveAddr = <<1>>, !.iSlaveCount = 1] ELSE q
    BY <1>4 DEF CheckLists
  <2>2. ListsKnown(q) /\ Normal(q) /\ Counts(q) /\ q.iCount >= 1
    BY <1>1 DEF CInv, ArgumentsInv, AfterOptions, AfterValues
  <2>3. <<1>> \in IntLists
    BY DEF IntLists
  <2>4. q' \in Context
    <3>1. CASE q.iSlaveCount = -1
      <4>1. q' = [q EXCEPT !.piSlaveAddr = <<1>>, !.iSlaveCount = 1]
        BY <2>1, <3>1
      <4> DEFINE l == <<1>>
                 k == 1
      <4>2. l \in IntLists /\ k \in Int
        BY <2>3
      <4>3. q' = [q EXCEPT !.piSlaveAddr = l, !.iSlaveCount = k]
        BY <4>1
      <4> HIDE DEF l, k
      <4> QED
        BY <1>2, <4>2, <4>3 DEF Context
    <3>2. CASE q.iSlaveCount # -1
      BY <1>2, <2>1, <3>2
    <3> QED
      BY <3>1, <3>2
  <2>5. /\ q'.sDevice = q.sDevice /\ q'.eMode = q.eMode /\ q'.bIsChipIo = q.bIsChipIo
        /\ q'.bEnableMaxSlaveQuirk = q.bEnableMaxSlaveQuirk
        /\ q'.piStartRef = q.piStartRef /\ q'.iStartCount = q.iStartCount
        /\ q'.iPduOffset = q.iPduOffset /\ q'.eFunction = q.eFunction /\ q'.eFormat = q.eFormat
        /\ q'.iCount = q.iCount /\ q'.bIsWrite = q.bIsWrite
        /\ q'.bIsReportSlaveID = q.bIsReportSlaveID /\ q'.bIsPolling = q.bIsPolling
    BY <1>2, <2>1 DEF Context
  <2>6. q'.iSlaveCount = Len(q'.piSlaveAddr) /\ ListsFit(q')
    <3>1. CASE q.iSlaveCount = -1
      <4>1. q'.piSlaveAddr = <<1>> /\ q'.iSlaveCount = 1
        BY <1>2, <2>1, <3>1 DEF Context
      <4>2. q'.iSlaveCount = Len(q'.piSlaveAddr)
        BY <4>1
      <4> QED
        BY <2>1, <2>5, <4>1, <4>2 DEF ListsFit
    <3>2. CASE q.iSlaveCount # -1
      BY <2>1, <2>2, <3>2 DEF ListsKnown
    <3> QED
      BY <3>1, <3>2
  <2>7. Normal(q') /\ Counts(q')
    BY <2>2, <2>5 DEF Normal, Counts
  <2>8. ListsKnown(q')
    BY <2>6, <2>7 DEF ListsKnown, Normal
  <2>9. ArgumentsInv'
    BY <2>1, <2>2, <2>5, <2>6, <2>7, <2>8
       DEF ArgumentsInv, Early, AfterOptions, AfterValues, ListsKnown, Normal, Counts, ListsFit
  <2>10. BridgeInv' /\ QuirkInv' /\ pc' \in CommandPcs
    BY <1>1, <2>1, <2>5, SameBridge DEF AfterValues
  <2> QED
    BY <1>2, <2>4, <2>9, <2>10 DEF CInv
<1> QED
  BY <1>3, <1>4

LEMMA LastSteps ==
  ASSUME CInv, CheckAddresses \/ WriteOnce
  PROVE  CInv'
PROOF
<1>1. UNCHANGED <<typed, texts, nb, bridge>>
  BY DEF CheckAddresses, WriteOnce
<1>2. texts' \in Seq(Texts) /\ nb' \in Nat
  BY <1>1 DEF CInv
<1>3. CASE Refuse
  BY <1>2, <1>3, RefuseStep
<1>4. CASE \/ pc = "addresses" /\ SlavesAllowed(q) /\ pc' = "ready" /\ q' = q
           \/ pc = "ready" /\ pc' = "written" /\ q' = q
  <2>1. ArgumentsInv'
    BY <1>1, <1>4 DEF CInv, ArgumentsInv, Early, AfterOptions, AfterValues, ListsKnown, Normal, Counts,
       ListsFit, SlavesAllowed, LowestSlave
  <2>2. BridgeInv' /\ QuirkInv' /\ pc' \in CommandPcs
    BY <1>1, <1>4, SameBridge DEF AfterValues
  <2> QED
    BY <1>2, <1>4, <2>1, <2>2 DEF CInv
<1> QED
  BY <1>3, <1>4 DEF CheckAddresses, WriteOnce

LEMMA StepCInv == CInv /\ [CommandNext]_commandVars => CInv'
PROOF
<1> SUFFICES ASSUME CInv, [CommandNext]_commandVars PROVE CInv'
  OBVIOUS
<1>1. CASE UNCHANGED commandVars
  <2>1. ArgumentsInv'
    BY <1>1 DEF commandVars, CInv, ArgumentsInv, ListsKnown, Normal, Counts, Writing, ListsFit, SlavesAllowed, LowestSlave
  <2>2. BridgeInv' /\ QuirkInv'
    BY <1>1 DEF commandVars, CInv, BridgeInv, QuirkInv, Given
  <2> QED
    BY <1>1, <2>1, <2>2 DEF commandVars, CInv
<1>2. CASE \E w \in OptionWords : Option(w)
  BY <1>2, OptionStep
<1>3. CASE Information
  BY <1>3, InformationStep
<1>4. CASE EndOfOptions
  BY <1>4, EndOfOptionsStep
<1>5. CASE \E d \in Devices : TakeDevice(d)
  BY <1>5, TakeDeviceStep
<1>6. CASE DeviceMissing
  BY <1>6, DeviceMissingStep
<1>7. CASE SetUpBridge
  BY <1>7, SetUpBridgeStep
<1>8. CASE \E n \in 0..MaxValues : CountValues(n)
  BY <1>8, CountValuesStep
<1>9. CASE \E t \in Texts : ConvertValue(t)
  BY <1>9, ConvertValueStep
<1>10. CASE CheckLists
  BY <1>10, CheckListsStep
<1>11. CASE CheckAddresses \/ WriteOnce
  BY <1>11, LastSteps
<1> QED
  BY <1>1, <1>2, <1>3, <1>4, <1>5, <1>6, <1>7, <1>8, <1>9, <1>10, <1>11 DEF CommandNext

-----------------------------------------------------------------------------
\* The invariant holds for every command line.
THEOREM Invariant == CommandSpec => []CInv
PROOF
<1>1. CommandInit => CInv
  BY InitCInv
<1>2. CInv /\ [CommandNext]_commandVars => CInv'
  BY StepCInv
<1> QED
  BY <1>1, <1>2, PTL DEF CommandSpec

LEMMA Narrowed ==
  ASSUME NEW l \in Seq(Int), NEW S, \A n \in 1..Len(l) : l[n] \in S
  PROVE  l \in Seq(S)
PROOF
<1>1. l \in [1..Len(l) -> S] /\ Len(l) \in Nat
  OBVIOUS
<1> QED
  BY <1>1

\* Whatever options a line has, in whatever order and however often, one that gets
\* through parse_args and the checks of main asks only what the poll loop can do:
\* PollLoop's assumption is the argument parser's result (mbpoll.c:395-421,
\* 1248-1614).
THEOREM ArgumentsAreValid == CommandSpec => []AcceptedIsValid
PROOF
<1>1. CInv => AcceptedIsValid
  <2> SUFFICES ASSUME CInv, Accepted, ~LooksIntoEmptyList(q)
               PROVE  ValidContext(Asked)
    BY DEF AcceptedIsValid
  <2>1. /\ q \in Context /\ Normal(q) /\ Counts(q) /\ q.iCount >= 1
        /\ ListsFit(q) /\ q.iSlaveCount = Len(q.piSlaveAddr) /\ SlavesAllowed(q)
    BY DEF Accepted, CInv, ArgumentsInv, AfterOptions, AfterValues
  <2>2. /\ q.eFunction \in Functions /\ q.eFormat \in Formats
        /\ q.piSlaveAddr \in Seq(Int) /\ q.piStartRef \in Seq(Int)
        /\ q.iPduOffset \in {0, 1}
        /\ q.bIsPolling \in BOOLEAN /\ q.bIsWrite \in BOOLEAN /\ q.bIsReportSlaveID \in BOOLEAN
    BY <2>1 DEF Context, IntLists
  <2>3. q.iCount \in Nat
    BY <2>1 DEF Context
  <2>4. q.piSlaveAddr \in Seq(0..MaxSlave)
    <3>1. ASSUME NEW n \in 1..Len(q.piSlaveAddr) PROVE q.piSlaveAddr[n] \in 0..MaxSlave
      <4>1. q.piSlaveAddr[n] \in LowestSlave(q)..MaxSlave
        BY <2>1 DEF SlavesAllowed
      <4>2. LowestSlave(q) \in {0, 1}
        BY DEF LowestSlave
      <4> QED
        BY <4>1, <4>2, LimitsAssumption
    <3> QED
      BY <2>2, <3>1, Narrowed
  <2>5. q.piStartRef \in Seq(0..MaxRef)
    <3>1. ASSUME NEW n \in 1..Len(q.piStartRef) PROVE q.piStartRef[n] \in 0..MaxRef
      <4>1. q.piStartRef[n] \in q.iPduOffset .. (MaxRef - 1 + q.iPduOffset)
        BY <2>1 DEF Normal
      <4> QED
        BY <2>2, <4>1, LimitsAssumption
    <3> QED
      BY <2>2, <3>1, Narrowed
  <2> DEFINE c == Asked
  <2>6. /\ c.eFunction = q.eFunction /\ c.bWide = Wide(q.eFormat)
        /\ c.piSlaveAddr = q.piSlaveAddr /\ c.piStartRef = q.piStartRef
        /\ c.iCount = q.iCount /\ c.iPduOffset = q.iPduOffset
        /\ c.bIsPolling = q.bIsPolling /\ c.bIsWrite = q.bIsWrite
        /\ c.bIsReportSlaveID = q.bIsReportSlaveID
    BY DEF Asked
  <2>7. c \in ContextType
    BY <2>2, <2>3, <2>4, <2>5 DEF Asked, ContextType, Wide
  <2> HIDE DEF c
  <2>8. UsesBinary(c.eFunction) => ~c.bWide
    BY <2>1, <2>6 DEF Normal, Wide
  <2>9. Reads(c) => c.iCount <= MaxCount
    BY <2>1, <2>6 DEF Counts, Reads
  <2>10. Len(c.piStartRef) > 1 => c.iCount = 1 /\ ~c.bIsWrite
    BY <2>1, <2>6 DEF Normal, ListsFit
  <2>11. c.bIsWrite /\ ~c.bIsReportSlaveID => ~c.bIsPolling /\ ~IsReadOnly(c.eFunction)
    BY <2>1, <2>6 DEF Counts
  <2>12. c.bIsWrite \/ c.bIsReportSlaveID => Len(c.piSlaveAddr) = 1
    <3>1. Len(q.piSlaveAddr) \in Nat
      BY <2>2
    <3> SUFFICES ASSUME q.bIsWrite \/ q.bIsReportSlaveID PROVE Len(q.piSlaveAddr) = 1
      BY <2>6
    <3>2. Len(q.piSlaveAddr) # 0
      BY DEF LooksIntoEmptyList
    <3>3. ~(Len(q.piSlaveAddr) > 1)
      BY <2>1 DEF ListsFit
    <3> DEFINE k == Len(q.piSlaveAddr)
    <3>4. k \in Nat /\ k # 0 /\ ~(k > 1)
      BY <3>1, <3>2, <3>3
    <3> HIDE DEF k
    <3>5. k = 1
      BY <3>4
    <3> QED
      BY <3>5 DEF k
  <2>13. c.bIsWrite /\ ~c.bIsReportSlaveID => Len(c.piStartRef) > 0
    <3>1. Len(q.piStartRef) \in Nat
      BY <2>2
    <3> QED
      BY <2>6, <3>1 DEF LooksIntoEmptyList
  <2> QED
    BY <2>1, <2>6, <2>7, <2>8, <2>9, <2>10, <2>11, <2>12, <2>13
       DEF ValidContext, Normal, c
<1> QED
  BY <1>1, Invariant, PTL

\* The bridge is set up whole or the line is refused, at whatever step it fails
\* (mbpoll.c:1470-1505).
THEOREM BridgeIsWhole == CommandSpec => []NoHalfSetUpBridge
PROOF
<1>1. CInv => NoHalfSetUpBridge
  BY DEF CInv, BridgeInv, NoHalfSetUpBridge, Accepted, AfterValues
<1> QED
  BY <1>1, Invariant, PTL

\* No order of options, device and defaults reaches the broadcast address of a
\* serial bus without -Q (mbpoll.c:401-421).
THEOREM NoUnaskedBroadcast == CommandSpec => []BroadcastsAreAskedFor
PROOF
<1>1. CInv => BroadcastsAreAskedFor
  <2> SUFFICES ASSUME CInv, Accepted, q.eMode = "rtu",
                      NEW n \in 1..Len(q.piSlaveAddr), q.piSlaveAddr[n] = 0
               PROVE  Given("Q")
    BY DEF BroadcastsAreAskedFor
  <2>1. SlavesAllowed(q) /\ QuirkInv
    BY DEF CInv, ArgumentsInv, Accepted
  <2>2. 0 \in LowestSlave(q)..MaxSlave
    BY <2>1 DEF SlavesAllowed
  <2>3. q.bEnableMaxSlaveQuirk
    BY <2>2 DEF LowestSlave
  <2> QED
    BY <2>1, <2>3 DEF QuirkInv, Accepted
<1> QED
  BY <1>1, Invariant, PTL
-----------------------------------------------------------------------------
(***************************************************************************)
(* What the options say.  As long as no letter came twice, each is in      *)
(* typed once, and the parameters are its argument or the default.         *)
(***************************************************************************)
Letters == {w.opt : w \in typed}

Unique == \A v, w \in typed : v.opt = w.opt => v = w

CountedOptions ==
  /\ options \in Nat /\ IsFiniteSet(Letters) /\ Cardinality(Letters) <= options
  /\ NoneTwice => Unique

ModeSaid == IF Given("m") THEN Argument("m").text ELSE "tcp"
FormatSaid == IF Given("t") /\ Argument("t").text # "plain" THEN Argument("t").text ELSE "dec"
ListSaid(o, default) == IF GivesList(o) THEN Argument(o).list ELSE default
CountSaid == IF Given("c") THEN Argument("c").list[1] ELSE 1

\* While options are read, each parameter is what has been said of it so far.
OptionsSay ==
  pc = "options" =>
    /\ q.eMode = ModeSaid /\ (q.bIsDefaultMode <=> ~Given("m"))
    /\ q.eFormat = FormatSaid
    /\ q.piSlaveAddr = ListSaid("a", <<>>)
    /\ q.piStartRef = ListSaid("r", <<>>) /\ (q.iStartCount = -1 <=> ~GivesList("r"))
    /\ q.bIsPolling <=> ~Given("1")
    /\ q.iCount = CountSaid

ModeKnown == {"values?", "values"} \cup AfterValues

\* After that, what it was overruled by.
LineSays ==
  /\ pc \in Early => nb = 0 /\ (q.bIsWrite <=> ~Given("c"))
  /\ pc = "device" => q.eMode = ModeSaid /\ (q.bIsDefaultMode <=> ~Given("m"))
  /\ pc \in ModeKnown =>
       q.eMode = IF bridge # "none" \/ (NamesAPort(q.sDevice) /\ ~Given("m")) THEN "rtu" ELSE ModeSaid
  /\ pc \in AfterOptions =>
       /\ q.eFormat = IF UsesBinary(q.eFunction) THEN "bin" ELSE FormatSaid
       /\ q.piStartRef = ListSaid("r", <<1>>)
       /\ nb = 0 \/ Given("u") => q.iCount = IF Len(q.piStartRef) > 1 THEN 1 ELSE CountSaid
  /\ pc \in {"device", "bridge", "values?"} => (q.bIsPolling <=> ~Given("1"))
  /\ pc \in {"values"} \cup AfterValues /\ ~Given("u") =>
       /\ q.bIsWrite <=> nb > 0
       /\ q.bIsPolling <=> nb = 0 /\ ~Given("1")
       /\ nb > 0 => ~Given("c") /\ q.iCount = nb
  /\ pc \in {"device", "bridge", "values?", "values", "lists"} => q.piSlaveAddr = ListSaid("a", <<>>)
  /\ pc \in {"addresses", "ready", "written"} => q.piSlaveAddr = ListSaid("a", <<1>>)

SaysInv ==
  pc \notin {"refused", "informed"} /\ NoneTwice =>
    /\ pc \notin {"addresses", "ready", "written"} => (q.iSlaveCount = -1 <=> ~GivesList("a"))
    /\ q.bIsReportSlaveID <=> Given("u")
    /\ OptionsSay /\ LineSays

SInv == CInv /\ CountedOptions /\ SaysInv

-----------------------------------------------------------------------------
\* Among options of which no letter is there twice, a letter names its option.
LEMMA ArgumentIs ==
  ASSUME NEW S, NEW o, NEW w \in S, w.opt = o, \A u, v \in S : u.opt = v.opt => u = v
  PROVE  (CHOOSE u \in S : u.opt = o) = w
PROOF
<1> DEFINE c == CHOOSE u \in S : u.opt = o
<1>1. c \in S /\ c.opt = o
  OBVIOUS
<1> QED
  BY <1>1, Zenon

\* One more option: the letters are counted on, and no other option changes.
LEMMA OneMore ==
  ASSUME CountedOptions, NEW w, typed' = typed \cup {w}, options' = options + 1
  PROVE  /\ CountedOptions'
         /\ \A o : Given(o)' <=> Given(o) \/ o = w.opt
         /\ NoneTwice' => /\ NoneTwice /\ ~Given(w.opt)
                          /\ Argument(w.opt)' = w
                          /\ \A o : Given(o) /\ o # w.opt => Argument(o)' = Argument(o)
PROOF
<1>1. Letters' = Letters \cup {w.opt}
  BY DEF Letters
<1>2. /\ IsFiniteSet(Letters') /\ Cardinality(Letters) \in Nat
      /\ Cardinality(Letters') =
           IF w.opt \in Letters THEN Cardinality(Letters) ELSE Cardinality(Letters) + 1
  BY <1>1, FS_AddElement, FS_CardinalityType DEF CountedOptions
<1>3. options' \in Nat /\ Cardinality(Letters)' <= options'
  BY <1>2 DEF CountedOptions
<1>4. NoneTwice <=> Cardinality(Letters) = options
  BY DEF NoneTwice, Letters
<1>5. NoneTwice' <=> Cardinality(Letters') = options'
  BY DEF NoneTwice, Letters
<1>6. NoneTwice' => NoneTwice /\ w.opt \notin Letters
  BY <1>2, <1>4, <1>5 DEF CountedOptions
<1>7. NoneTwice' => Unique'
  BY <1>6 DEF CountedOptions, Unique, Letters
<1>8. /\ \A o : Given(o)' <=> Given(o) \/ o = w.opt
      /\ Given(w.opt) => w.opt \in Letters
  BY DEF Given, Letters
<1>9. ASSUME NoneTwice' PROVE Argument(w.opt)' = w
  <2>1. w \in typed' /\ \A u, v \in typed' : u.opt = v.opt => u = v
    BY <1>7, <1>9 DEF Unique
  <2>2. (CHOOSE u \in typed' : u.opt = w.opt) = w
    BY <2>1, ArgumentIs
  <2> QED
    BY <2>2 DEF Argument
<1>10. ASSUME NoneTwice', NEW o, Given(o), o # w.opt PROVE Argument(o)' = Argument(o)
  <2>1. PICK x \in typed : x.opt = o
    BY <1>10 DEF Given
  <2>2. \A u, v \in typed' : u.opt = v.opt => u = v
    BY <1>7, <1>10 DEF Unique
  <2>3. x \in typed' /\ \A u, v \in typed : u.opt = v.opt => u = v
    BY <2>2
  <2>4. (CHOOSE u \in typed' : u.opt = o) = x
    BY <2>1, <2>2, <2>3, ArgumentIs
  <2>5. (CHOOSE u \in typed : u.opt = o) = x
    BY <2>1, <2>3, ArgumentIs
  <2> QED
    BY <2>4, <2>5 DEF Argument
<1> QED
  BY <1>2, <1>3, <1>6, <1>7, <1>8, <1>9, <1>10 DEF CountedOptions

\* Without another option, all that was said stays.
LEMMA NoMore ==
  ASSUME UNCHANGED <<typed, options>>
  PROVE  /\ (NoneTwice' <=> NoneTwice) /\ (CountedOptions => CountedOptions')
         /\ \A o : Given(o)' <=> Given(o)
         /\ ModeSaid' = ModeSaid /\ FormatSaid' = FormatSaid /\ CountSaid' = CountSaid
         /\ \A o : GivesList(o)' <=> GivesList(o)
         /\ \A o, d : ListSaid(o, d)' = ListSaid(o, d)
PROOF
<1>1. \A o : (Given(o)' <=> Given(o)) /\ Argument(o)' = Argument(o)
  BY DEF Given, Argument
<1>2. NoneTwice' <=> NoneTwice
  BY DEF NoneTwice
<1>3. CountedOptions => CountedOptions'
  BY DEF CountedOptions, NoneTwice, Letters, Unique
<1> QED
  BY <1>1, <1>2, <1>3 DEF ModeSaid, FormatSaid, CountSaid, ListSaid, GivesList

\* What an option changes.
LEMMA AppliedSays ==
  ASSUME NEW p \in Context, NEW w \in OptionWords, Legal(w)
  PROVE  LET r == Applied(p, w) IN
         /\ r.eMode = IF w.opt = "m" THEN w.text ELSE p.eMode
         /\ r.bIsDefaultMode = IF w.opt = "m" THEN FALSE ELSE p.bIsDefaultMode
         /\ r.eFormat = IF w.opt = "t" /\ w.text # "plain" THEN w.text ELSE p.eFormat
         /\ r.piSlaveAddr = IF w.opt = "a" THEN w.list ELSE p.piSlaveAddr
         /\ r.iSlaveCount = IF w.opt = "a" THEN ListCount(w) ELSE p.iSlaveCount
         /\ r.piStartRef = IF w.opt = "r" THEN w.list ELSE p.piStartRef
         /\ r.iStartCount = IF w.opt = "r" THEN ListCount(w) ELSE p.iStartCount
         /\ r.iCount = IF w.opt = "c" THEN w.list[1] ELSE p.iCount
         /\ r.bIsWrite = IF w.opt = "c" THEN FALSE ELSE p.bIsWrite
         /\ r.bIsPolling = IF w.opt = "1" THEN FALSE ELSE p.bIsPolling
         /\ r.bIsReportSlaveID = IF w.opt = "u" THEN TRUE ELSE p.bIsReportSlaveID
PROOF
<1>1. CASE w.opt = "m"
  BY <1>1 DEF Applied, Context
<1>2. CASE w.opt = "a"
  BY <1>2 DEF Applied, Context
<1>3. CASE w.opt = "r"
  BY <1>3 DEF Applied, Context
<1>4. CASE w.opt = "c"
  BY <1>4 DEF Applied, Context
<1>5. CASE w.opt = "t"
  BY <1>5 DEF Applied, Context
<1>6. CASE w.opt \in {"u", "1"}
  BY <1>6 DEF Applied, Context
<1>7. CASE w.opt \notin {"m", "a", "r", "c", "t", "u", "1"}
  <2>1. \/ Applied(p, w) = p
        \/ Applied(p, w) = [p EXCEPT !.iPduOffset = 0]
        \/ Applied(p, w) = [p EXCEPT !.bIsBigEndian = TRUE]
        \/ Applied(p, w) = [p EXCEPT !.bWriteSingleAsMany = TRUE]
        \/ Applied(p, w) = [p EXCEPT !.bIsQuiet = TRUE]
        \/ Applied(p, w) = [p EXCEPT !.bEnableMaxSlaveQuirk = TRUE]
        \/ Applied(p, w) = [p EXCEPT !.bIsChipIo = TRUE]
    BY <1>7 DEF Applied
  <2> QED
    BY <1>7, <2>1 DEF Context
<1> QED
  BY <1>1, <1>2, <1>3, <1>4, <1>5, <1>6, <1>7

LEMMA OptionSays ==
  ASSUME SInv, CInv', NEW w \in OptionWords, Option(w)
  PROVE  SInv'
PROOF
<1>1. /\ pc = "options" /\ options' = options + 1 /\ typed' = typed \cup {w}
      /\ UNCHANGED <<texts, nb, bridge, frame>>
  BY DEF Option
<1>2. CountedOptions /\ SaysInv /\ q \in Context
  BY DEF SInv, CInv
<1>3. /\ CountedOptions'
      /\ \A o : Given(o)' <=> Given(o) \/ o = w.opt
      /\ NoneTwice' => /\ NoneTwice /\ ~Given(w.opt)
                       /\ Argument(w.opt)' = w
                       /\ \A o : Given(o) /\ o # w.opt => Argument(o)' = Argument(o)
  BY <1>1, <1>2, OneMore
<1>4. CASE Legal(w) /\ q' = Applied(q, w) /\ pc' = pc
  <2> DEFINE r == Applied(q, w)
  <2>1. /\ r.eMode = IF w.opt = "m" THEN w.text ELSE q.eMode
        /\ r.bIsDefaultMode = IF w.opt = "m" THEN FALSE ELSE q.bIsDefaultMode
        /\ r.eFormat = IF w.opt = "t" /\ w.text # "plain" THEN w.text ELSE q.eFormat
        /\ r.piSlaveAddr = IF w.opt = "a" THEN w.list ELSE q.piSlaveAddr
        /\ r.iSlaveCount = IF w.opt = "a" THEN ListCount(w) ELSE q.iSlaveCount
        /\ r.piStartRef = IF w.opt = "r" THEN w.list ELSE q.piStartRef
        /\ r.iStartCount = IF w.opt = "r" THEN ListCount(w) ELSE q.iStartCount
        /\ r.iCount = IF w.opt = "c" THEN w.list[1] ELSE q.iCount
        /\ r.bIsWrite = IF w.opt = "c" THEN FALSE ELSE q.bIsWrite
        /\ r.bIsPolling = IF w.opt = "1" THEN FALSE ELSE q.bIsPolling
        /\ r.bIsReportSlaveID = IF w.opt = "u" THEN TRUE ELSE q.bIsReportSlaveID
    BY <1>2, <1>4, AppliedSays
  <2>2. r = q'
    BY <1>4
  <2> HIDE DEF r
  <2>3. /\ ListCount(w) = -1 <=> w.text = "wrapped"
        /\ w.text = "wrapped" => w.list = <<>>
    <3>1. w.list \in Seq(Int) /\ (w.text = "wrapped" => w.list = <<>>)
      BY CommandLineAssumption
    <3>2. Len(w.list) \in Nat
      BY <3>1
    <3> QED
      BY <3>1, <3>2 DEF ListCount
  <2>a. ASSUME NoneTwice'
        PROVE  \A o : GivesList(o)' <=> GivesList(o) \/ (o = w.opt /\ w.text # "wrapped")
    BY <1>3, <2>a DEF GivesList
  <2>4. NoneTwice' => (q'.iSlaveCount = -1 <=> ~GivesList("a")')
    BY <1>1, <1>2, <1>3, <2>1, <2>2, <2>3, <2>a DEF SaysInv, GivesList
  <2>5. ASSUME NoneTwice'
        PROVE  (q'.bIsReportSlaveID <=> Given("u")') /\ OptionsSay' /\ LineSays'
    <3>1. /\ NoneTwice /\ ~Given(w.opt) /\ Argument(w.opt)' = w
          /\ \A o : Given(o) /\ o # w.opt => Argument(o)' = Argument(o)
          /\ q.bIsReportSlaveID <=> Given("u")
          /\ OptionsSay /\ LineSays
      BY <1>1, <1>2, <1>3, <2>5 DEF SaysInv
    <3>2. q'.bIsReportSlaveID <=> Given("u")'
      BY <1>3, <2>1, <2>2, <3>1
    <3>3. q'.eMode = ModeSaid' /\ (q'.bIsDefaultMode <=> ~Given("m")')
      BY <1>1, <1>3, <2>1, <2>2, <3>1 DEF OptionsSay, ModeSaid
    <3>4. q'.eFormat = FormatSaid'
      <4>1. q.eFormat = FormatSaid
        BY <1>1, <3>1 DEF OptionsSay
      <4>2. CASE w.opt = "t"
        <5>1. Given("t")' /\ Argument("t")' = w /\ ~Given("t")
          BY <1>3, <3>1, <4>2
        <5> QED
          BY <2>1, <2>2, <4>1, <4>2, <5>1 DEF FormatSaid
      <4>3. CASE w.opt # "t"
        <5>1. (Given("t")' <=> Given("t")) /\ (Given("t") => Argument("t")' = Argument("t"))
          BY <1>3, <3>1, <4>3
        <5> QED
          BY <2>1, <2>2, <4>1, <4>3, <5>1 DEF FormatSaid
      <4> QED
        BY <4>2, <4>3
    <3>5. q'.piSlaveAddr = ListSaid("a", <<>>)'
      BY <1>1, <1>3, <2>1, <2>2, <2>3, <3>1 DEF OptionsSay, ListSaid, GivesList
    <3>6. q'.piStartRef = ListSaid("r", <<>>)' /\ (q'.iStartCount = -1 <=> ~GivesList("r")')
      BY <1>1, <1>3, <2>1, <2>2, <2>3, <3>1 DEF OptionsSay, ListSaid, GivesList
    <3>7. q'.bIsPolling <=> ~Given("1")'
      BY <1>1, <1>3, <2>1, <2>2, <3>1 DEF OptionsSay
    <3>8. q'.iCount = CountSaid'
      BY <1>1, <1>3, <2>1, <2>2, <3>1 DEF OptionsSay, CountSaid
    <3>9. nb' = 0 /\ (q'.bIsWrite <=> ~Given("c")')
      BY <1>1, <1>3, <2>1, <2>2, <3>1 DEF LineSays, Early
    <3>10. OptionsSay'
      BY <3>3, <3>4, <3>5, <3>6, <3>7, <3>8 DEF OptionsSay
    <3>11. LineSays'
      BY <1>1, <1>4, <3>9 DEF LineSays, Early, AfterOptions, AfterValues, ModeKnown
    <3> QED
      BY <3>2, <3>10, <3>11
  <2> QED
    BY <1>1, <1>3, <1>4, <2>4, <2>5 DEF SInv, SaysInv
<1>5. CASE Refuse
  BY <1>3, <1>5 DEF Refuse, SInv, SaysInv
<1> QED
  BY <1>4, <1>5 DEF Option

\* A line that is over says nothing more.
LEMMA OverSays ==
  ASSUME SInv, CInv', UNCHANGED <<typed, options>>, pc' \in {"refused", "informed"}
  PROVE  SInv'
  BY NoMore DEF SInv, SaysInv

LEMMA EndOfOptionsSays ==
  ASSUME SInv, CInv', EndOfOptions
  PROVE  SInv'
PROOF
<1>1. pc = "options" /\ UNCHANGED <<typed, options, texts, nb, bridge, frame>>
  BY DEF EndOfOptions
<1>2. CASE Refuse
  BY <1>1, <1>2, OverSays DEF Refuse
<1>3. CASE q' = Normalized(q, StartRefs) /\ pc' = "device"
  <2>1. /\ q'.piStartRef = StartRefs
        /\ q'.iCount = IF Len(StartRefs) > 1 THEN 1 ELSE q.iCount
        /\ q'.eFormat = IF UsesBinary(q.eFunction) THEN "bin" ELSE q.eFormat
        /\ q'.eFunction = q.eFunction /\ q'.eMode = q.eMode /\ q'.bIsDefaultMode = q.bIsDefaultMode
        /\ q'.piSlaveAddr = q.piSlaveAddr /\ q'.iSlaveCount = q.iSlaveCount
        /\ q'.bIsPolling = q.bIsPolling /\ q'.bIsWrite = q.bIsWrite
        /\ q'.bIsReportSlaveID = q.bIsReportSlaveID
    BY <1>3 DEF SInv, CInv, Context, Normalized
  <2>2. NoneTwice' => (q'.iSlaveCount = -1 <=> ~GivesList("a")')
    BY <1>1, <2>1, NoMore DEF SInv, SaysInv
  <2>3. ASSUME NoneTwice'
        PROVE  (q'.bIsReportSlaveID <=> Given("u")') /\ OptionsSay' /\ LineSays'
    <3>1. (q.bIsReportSlaveID <=> Given("u")) /\ OptionsSay /\ LineSays
      BY <1>1, <2>3, NoMore DEF SInv, SaysInv
    <3>2. StartRefs = ListSaid("r", <<1>>)
      BY <1>1, <3>1 DEF OptionsSay, StartRefs, ListSaid
    <3>3. OptionsSay'
      BY <1>3 DEF OptionsSay
    <3>4. LineSays'
      BY <1>1, <1>3, <2>1, <3>1, <3>2, NoMore
      DEF OptionsSay, LineSays, Early, AfterOptions, AfterValues, ModeKnown
    <3> QED
      BY <1>1, <2>1, <3>1, <3>3, <3>4, NoMore
  <2> QED
    BY <1>1, <1>3, <2>2, <2>3, NoMore DEF SInv, SaysInv
<1> QED
  BY <1>2, <1>3 DEF EndOfOptions

\* The device and its bridge change the mode, and nothing else that was said.
LEMMA DeviceSays ==
  ASSUME SInv, CInv', UNCHANGED <<typed, options, nb>>,
         pc \in {"device", "bridge"}, pc' \in {"bridge", "values?"},
         /\ q'.piStartRef = q.piStartRef /\ q'.iCount = q.iCount
         /\ q'.eFormat = q.eFormat /\ q'.eFunction = q.eFunction
         /\ q'.piSlaveAddr = q.piSlaveAddr /\ q'.iSlaveCount = q.iSlaveCount
         /\ q'.bIsPolling = q.bIsPolling /\ q'.bIsWrite = q.bIsWrite
         /\ q'.bIsReportSlaveID = q.bIsReportSlaveID,
         NoneTwice /\ LineSays /\ pc' = "values?" =>
           q'.eMode = IF bridge' # "none" \/ (NamesAPort(q'.sDevice) /\ ~Given("m")) THEN "rtu"
                      ELSE ModeSaid
  PROVE  SInv'
PROOF
<1>1. NoneTwice' => (q'.iSlaveCount = -1 <=> ~GivesList("a")')
  BY NoMore DEF SInv, SaysInv
<1>2. ASSUME NoneTwice'
      PROVE  (q'.bIsReportSlaveID <=> Given("u")') /\ OptionsSay' /\ LineSays'
  <2>1. NoneTwice /\ (q.bIsReportSlaveID <=> Given("u")) /\ LineSays
    BY <1>2, NoMore DEF SInv, SaysInv
  <2>2. OptionsSay'
    BY DEF OptionsSay
  <2>3. /\ pc' \in ModeKnown => pc' = "values?"
        /\ pc' # "device" /\ pc' \notin {"values"} \cup AfterValues
        /\ pc' \notin {"addresses", "ready", "written"}
        /\ pc \in Early /\ pc \in AfterOptions
    BY DEF ModeKnown, AfterValues, Early, AfterOptions
  <2>4. LineSays'
    BY <2>1, <2>3, NoMore DEF LineSays
  <2> QED
    BY <2>1, <2>2, <2>4, NoMore
<1> QED
  BY <1>1, <1>2, NoMore DEF SInv, SaysInv

LEMMA TakeDeviceSays ==
  ASSUME SInv, CInv', NEW d \in Devices, TakeDevice(d)
  PROVE  SInv'
PROOF
<1> DEFINE serial == NamesAPort(d) /\ q.bIsDefaultMode
<1>1. /\ pc = "device" /\ q' = [q EXCEPT !.sDevice = d, !.eMode = IF serial THEN "rtu" ELSE @]
      /\ pc' = IF ~serial /\ UsesBridge(q, d) THEN "bridge" ELSE "values?"
      /\ UNCHANGED <<typed, options, texts, nb, pvData, bridge, frame>>
  BY DEF TakeDevice
<1>2. q \in Context /\ bridge = "none"
  BY <1>1 DEF SInv, CInv, BridgeInv
<1>3. /\ q'.sDevice = d /\ q'.eMode = IF serial THEN "rtu" ELSE q.eMode
      /\ q'.piStartRef = q.piStartRef /\ q'.iCount = q.iCount
      /\ q'.eFormat = q.eFormat /\ q'.eFunction = q.eFunction
      /\ q'.piSlaveAddr = q.piSlaveAddr /\ q'.iSlaveCount = q.iSlaveCount
      /\ q'.bIsPolling = q.bIsPolling /\ q'.bIsWrite = q.bIsWrite
      /\ q'.bIsReportSlaveID = q.bIsReportSlaveID
  BY <1>1, <1>2 DEF Context
<1>4. LineSays => q.eMode = ModeSaid /\ (q.bIsDefaultMode <=> ~Given("m"))
  BY <1>1 DEF LineSays
<1>5. LineSays =>
        q'.eMode = IF bridge' # "none" \/ (NamesAPort(q'.sDevice) /\ ~Given("m")) THEN "rtu"
                   ELSE ModeSaid
  BY <1>1, <1>2, <1>3, <1>4
<1> QED
  BY <1>1, <1>3, <1>5, DeviceSays

LEMMA SetUpBridgeSays ==
  ASSUME SInv, CInv', SetUpBridge
  PROVE  SInv'
PROOF
<1>1. pc = "bridge" /\ UNCHANGED <<typed, options, texts, nb, frame>> /\ q \in Context
  BY DEF SetUpBridge, SInv, CInv
<1>2. CASE Refuse
  BY <1>1, <1>2, OverSays DEF Refuse
<1>3. CASE pc' = pc /\ (q' = q \/ q' = [q EXCEPT !.sDevice = "bridge"])
  <2>1. /\ q'.piStartRef = q.piStartRef /\ q'.iCount = q.iCount
        /\ q'.eFormat = q.eFormat /\ q'.eFunction = q.eFunction
        /\ q'.piSlaveAddr = q.piSlaveAddr /\ q'.iSlaveCount = q.iSlaveCount
        /\ q'.bIsPolling = q.bIsPolling /\ q'.bIsWrite = q.bIsWrite
        /\ q'.bIsReportSlaveID = q.bIsReportSlaveID
    BY <1>1, <1>3 DEF Context
  <2> QED
    BY <1>1, <1>3, <2>1, DeviceSays
<1>4. CASE /\ bridge' = "ready" /\ pc' = "values?"
           /\ q' = [q EXCEPT !.eMode = "rtu", !.bIsChipIo = TRUE]
  <2>1. /\ q'.piStartRef = q.piStartRef /\ q'.iCount = q.iCount
        /\ q'.eFormat = q.eFormat /\ q'.eFunction = q.eFunction
        /\ q'.piSlaveAddr = q.piSlaveAddr /\ q'.iSlaveCount = q.iSlaveCount
        /\ q'.bIsPolling = q.bIsPolling /\ q'.bIsWrite = q.bIsWrite
        /\ q'.bIsReportSlaveID = q.bIsReportSlaveID /\ q'.eMode = "rtu"
    BY <1>1, <1>4 DEF Context
  <2> QED
    BY <1>1, <1>4, <2>1, DeviceSays
<1> QED
  BY <1>2, <1>3, <1>4 DEF SetUpBridge

LEMMA CountValuesSays ==
  ASSUME SInv, CInv', NEW n \in 0..MaxValues, CountValues(n)
  PROVE  SInv'
PROOF
<1>1. pc = "values?" /\ nb' = n /\ UNCHANGED <<typed, options, texts, bridge, frame>>
      /\ q \in Context /\ n \in Nat
  BY CommandLineAssumption DEF CountValues, SInv, CInv
<1>2. CASE Refuse
  BY <1>1, <1>2, OverSays DEF Refuse
<1>3. CASE \/ q.bIsReportSlaveID /\ pc' = "lists" /\ q' = q
           \/ /\ ~q.bIsReportSlaveID /\ ~(n > 0 /\ ~q.bIsWrite)
              /\ q' = Counted(q, n) /\ pc' = IF n > 0 THEN "values" ELSE "lists"
  <2>1. /\ q'.piStartRef = q.piStartRef /\ q'.eFormat = q.eFormat /\ q'.eFunction = q.eFunction
        /\ q'.piSlaveAddr = q.piSlaveAddr /\ q'.iSlaveCount = q.iSlaveCount
        /\ q'.eMode = q.eMode /\ q'.sDevice = q.sDevice
        /\ q'.bIsReportSlaveID = q.bIsReportSlaveID
    BY <1>1, <1>3 DEF Context, Counted
  <2>2. q.bIsReportSlaveID => q'.iCount = q.iCount
    BY <1>3
  <2>3. ~q.bIsReportSlaveID =>
          /\ q'.bIsWrite <=> n > 0
          /\ q'.bIsPolling <=> n = 0 /\ q.bIsPolling
          /\ q'.iCount = IF n > 0 THEN n ELSE q.iCount
          /\ n > 0 => q.bIsWrite
    <3> SUFFICES ASSUME ~q.bIsReportSlaveID
                 PROVE  /\ q'.bIsWrite <=> n > 0
                        /\ q'.bIsPolling <=> n = 0 /\ q.bIsPolling
                        /\ q'.iCount = IF n > 0 THEN n ELSE q.iCount
                        /\ n > 0 => q.bIsWrite
      OBVIOUS
    <3>1. CASE n > 0
      <4>1. q' = [q EXCEPT !.bIsPolling = FALSE, !.iCount = n] /\ q.bIsWrite
        BY <1>3, <3>1 DEF Counted
      <4>2. q'.bIsPolling = FALSE /\ q'.iCount = n /\ q'.bIsWrite = q.bIsWrite
        BY <1>1, <4>1 DEF Context
      <4> QED
        BY <3>1, <4>1, <4>2
    <3>2. CASE ~(n > 0)
      <4>1. q' = [q EXCEPT !.bIsWrite = FALSE] /\ n = 0
        BY <1>1, <1>3, <3>2 DEF Counted
      <4>2. q'.bIsPolling = q.bIsPolling /\ q'.iCount = q.iCount /\ q'.bIsWrite = FALSE
        BY <1>1, <4>1 DEF Context
      <4> QED
        BY <3>2, <4>1, <4>2
    <3> QED
      BY <3>1, <3>2
  <2>4. pc' \in {"values", "lists"}
    BY <1>3
  <2>5. NoneTwice' => (q'.iSlaveCount = -1 <=> ~GivesList("a")')
    BY <1>1, <2>1, NoMore DEF SInv, SaysInv
  <2>6. ASSUME NoneTwice'
        PROVE  (q'.bIsReportSlaveID <=> Given("u")') /\ OptionsSay' /\ LineSays'
    <3>1. NoneTwice /\ (q.bIsReportSlaveID <=> Given("u")) /\ LineSays
      BY <1>1, <2>6, NoMore DEF SInv, SaysInv
    <3>2. /\ nb = 0 /\ (q.bIsWrite <=> ~Given("c")) /\ (q.bIsPolling <=> ~Given("1"))
          /\ q.eMode = IF bridge # "none" \/ (NamesAPort(q.sDevice) /\ ~Given("m")) THEN "rtu"
                       ELSE ModeSaid
          /\ q.eFormat = IF UsesBinary(q.eFunction) THEN "bin" ELSE FormatSaid
          /\ q.piStartRef = ListSaid("r", <<1>>)
          /\ q.iCount = IF Len(q.piStartRef) > 1 THEN 1 ELSE CountSaid
          /\ q.piSlaveAddr = ListSaid("a", <<>>)
      BY <1>1, <3>1 DEF LineSays, Early, ModeKnown, AfterOptions
    <3>3. OptionsSay'
      BY <2>4 DEF OptionsSay
    <3>4. nb' = 0 \/ Given("u") => q'.iCount = q.iCount
      BY <1>1, <2>2, <2>3, <3>1
    <3>5. ~Given("u") => /\ q'.bIsWrite <=> nb' > 0
                         /\ q'.bIsPolling <=> nb' = 0 /\ ~Given("1")
                         /\ nb' > 0 => ~Given("c") /\ q'.iCount = nb'
      BY <1>1, <2>3, <3>1, <3>2
    <3>6. LineSays'
      BY <1>1, <2>1, <2>4, <3>2, <3>4, <3>5, NoMore DEF LineSays, Early
    <3> QED
      BY <1>1, <2>1, <3>1, <3>3, <3>6, NoMore
  <2> QED
    BY <1>1, <2>4, <2>5, <2>6, NoMore DEF SInv, SaysInv
<1> QED
  BY <1>1, <1>2, <1>3 DEF CountValues

\* From the values on, nothing but the default slave changes what was said.
LEMMA LaterSays ==
  ASSUME SInv, CInv', UNCHANGED <<typed, options, nb, bridge>>,
         pc \in {"values"} \cup AfterValues, pc' \in {"values"} \cup AfterValues,
         /\ q'.piStartRef = q.piStartRef /\ q'.iCount = q.iCount
         /\ q'.eFormat = q.eFormat /\ q'.eFunction = q.eFunction
         /\ q'.eMode = q.eMode /\ q'.sDevice = q.sDevice
         /\ q'.bIsPolling = q.bIsPolling /\ q'.bIsWrite = q.bIsWrite
         /\ q'.bIsReportSlaveID = q.bIsReportSlaveID,
         \/ /\ q'.piSlaveAddr = q.piSlaveAddr /\ q'.iSlaveCount = q.iSlaveCount
            /\ pc \in {"values", "lists"} <=> pc' \in {"values", "lists"}
         \/ /\ pc = "lists" /\ pc' = "addresses"
            /\ q'.piSlaveAddr = IF q.iSlaveCount = -1 THEN << 1 >> ELSE q.piSlaveAddr
  PROVE  SInv'
PROOF
<1>1. pc' \notin {"addresses", "ready", "written"} => (NoneTwice' => (q'.iSlaveCount = -1 <=> ~GivesList("a")'))
  BY NoMore DEF SInv, SaysInv, AfterValues
<1>2. ASSUME NoneTwice'
      PROVE  (q'.bIsReportSlaveID <=> Given("u")') /\ OptionsSay' /\ LineSays'
  <2>1. NoneTwice /\ (q.bIsReportSlaveID <=> Given("u")) /\ LineSays
    BY <1>2, NoMore DEF SInv, SaysInv, AfterValues
  <2>2. OptionsSay'
    BY DEF OptionsSay, AfterValues
  <2>3. pc \in ModeKnown /\ pc \in AfterOptions /\ pc' \in ModeKnown /\ pc' \in AfterOptions
        /\ pc' \notin Early /\ pc' \notin {"device", "bridge", "values?"}
    BY DEF ModeKnown, AfterValues, AfterOptions, Early
  <2>4. /\ pc' \in {"values", "lists"} => q'.piSlaveAddr = ListSaid("a", <<>>)
        /\ pc' \in {"addresses", "ready", "written"} => q'.piSlaveAddr = ListSaid("a", <<1>>)
    BY <2>1 DEF LineSays, AfterValues, ListSaid, SInv, SaysInv
  <2>5. LineSays'
    BY <2>1, <2>3, <2>4, NoMore DEF LineSays
  <2> QED
    BY <2>1, <2>2, <2>5, NoMore
<1> QED
  BY <1>1, <1>2, NoMore DEF SInv, SaysInv

LEMMA LaterStepsSay ==
  ASSUME SInv, CInv',
         (\E t \in Texts : ConvertValue(t)) \/ CheckLists \/ CheckAddresses \/ WriteOnce
  PROVE  SInv'
PROOF
<1>1. UNCHANGED <<typed, options, nb, bridge>> /\ q \in Context
  BY DEF ConvertValue, CheckLists, CheckAddresses, WriteOnce, SInv, CInv
<1>2. CASE Refuse
  BY <1>1, <1>2, OverSays DEF Refuse
<1>3. CASE \/ pc = "values" /\ pc' \in {"values", "lists"} /\ q' = q
           \/ pc = "addresses" /\ pc' = "ready" /\ q' = q
           \/ pc = "ready" /\ pc' = "written" /\ q' = q
  BY <1>1, <1>3, LaterSays DEF AfterValues
<1>4. CASE /\ pc = "lists" /\ pc' = "addresses"
           /\ q' = IF q.iSlaveCount = -1
                   THEN [q EXCEPT !.piSlaveAddr = <<1>>, !.iSlaveCount = 1] ELSE q
  <2>1. /\ q'.piStartRef = q.piStartRef /\ q'.iCount = q.iCount
        /\ q'.eFormat = q.eFormat /\ q'.eFunction = q.eFunction
        /\ q'.eMode = q.eMode /\ q'.sDevice = q.sDevice
        /\ q'.bIsPolling = q.bIsPolling /\ q'.bIsWrite = q.bIsWrite
        /\ q'.bIsReportSlaveID = q.bIsReportSlaveID
        /\ q'.piSlaveAddr = IF q.iSlaveCount = -1 THEN <<1>> ELSE q.piSlaveAddr
    BY <1>1, <1>4 DEF Context
  <2> QED
    BY <1>1, <1>4, <2>1, LaterSays DEF AfterValues
<1> QED
  BY <1>2, <1>3, <1>4 DEF ConvertValue, CheckLists, CheckAddresses, WriteOnce

LEMMA InitSInv == CommandInit => SInv
PROOF
<1> SUFFICES ASSUME CommandInit PROVE SInv
  OBVIOUS
<1>1. /\ pc = "options" /\ q = Defaults /\ typed = {} /\ options = 0 /\ nb = 0
  BY DEF CommandInit
<1>2. Letters = {}
  BY <1>1 DEF Letters
<1>3. CountedOptions
  BY <1>1, <1>2, FS_EmptySet DEF CountedOptions, Unique
<1>4. \A o : ~Given(o)
  BY <1>1 DEF Given
<1>5. SaysInv
  BY <1>1, <1>4
  DEF SaysInv, OptionsSay, LineSays, ModeSaid, FormatSaid, ListSaid, GivesList, CountSaid, Defaults, Early,
      AfterOptions, AfterValues, ModeKnown
<1> QED
  BY <1>3, <1>5, InitCInv DEF SInv

LEMMA StepSInv == SInv /\ [CommandNext]_commandVars => SInv'
PROOF
<1> SUFFICES ASSUME SInv, [CommandNext]_commandVars PROVE SInv'
  OBVIOUS
<1>1. CInv'
  BY StepCInv DEF SInv
<1>2. CASE UNCHANGED commandVars
  <2>1. UNCHANGED <<typed, options, pc, q, nb, bridge>>
    BY <1>2 DEF commandVars
  <2>2. SaysInv'
    BY <2>1, NoMore DEF SInv, SaysInv, OptionsSay, LineSays
  <2> QED
    BY <1>1, <2>1, <2>2, NoMore DEF SInv
<1>3. CASE \E w \in OptionWords : Option(w)
  BY <1>1, <1>3, OptionSays
<1>4. CASE Information
  BY <1>1, <1>4, OverSays DEF Information
<1>5. CASE EndOfOptions
  BY <1>1, <1>5, EndOfOptionsSays
<1>6. CASE \E d \in Devices : TakeDevice(d)
  BY <1>1, <1>6, TakeDeviceSays
<1>7. CASE DeviceMissing
  BY <1>1, <1>7, OverSays DEF DeviceMissing, Refuse
<1>8. CASE SetUpBridge
  BY <1>1, <1>8, SetUpBridgeSays
<1>9. CASE \E n \in 0..MaxValues : CountValues(n)
  BY <1>1, <1>9, CountValuesSays
<1>10. CASE (\E t \in Texts : ConvertValue(t)) \/ CheckLists \/ CheckAddresses \/ WriteOnce
  BY <1>1, <1>10, LaterStepsSay
<1> QED
  BY <1>2, <1>3, <1>4, <1>5, <1>6, <1>7, <1>8, <1>9, <1>10 DEF CommandNext

\* The parameters of an accepted line are what its options say, in any order, but
\* for what the device, the table and the lists overrule (mbpoll.c:1254-1614).
THEOREM LineMeansWhatItSays == CommandSpec => []MeansWhatItSays
PROOF
<1>1. CommandInit => SInv
  BY InitSInv
<1>2. SInv /\ [CommandNext]_commandVars => SInv'
  BY StepSInv
<1>3. SInv => MeansWhatItSays
  <2>0. SInv => (Len(q.piStartRef) > 1 <=> ~(Len(q.piStartRef) <= 1))
    <3> SUFFICES ASSUME SInv
                 PROVE  Len(q.piStartRef) > 1 <=> ~(Len(q.piStartRef) <= 1)
      OBVIOUS
    <3>1. q \in Context
      BY DEF SInv, CInv
    <3>2. q.piStartRef \in Seq(Int)
      BY <3>1 DEF Context, IntLists
    <3> QED
      BY <3>2
  <2> SUFFICES ASSUME SInv, Accepted, NoneTwice
               PROVE  /\ q.eMode = IF bridge # "none" \/ (NamesAPort(q.sDevice) /\ ~Given("m"))
                                   THEN "rtu" ELSE ModeSaid
                      /\ q.eFormat = IF UsesBinary(q.eFunction) THEN "bin" ELSE FormatSaid
                      /\ q.piSlaveAddr = ListSaid("a", <<1>>)
                      /\ q.piStartRef = ListSaid("r", <<1>>)
                      /\ ~Given("u") =>
                           /\ q.bIsWrite = (nb > 0)
                           /\ q.bIsPolling = (nb = 0 /\ ~Given("1"))
                           /\ nb > 0 => ~Given("c") /\ q.iCount = nb
                      /\ nb = 0 => q.iCount = IF Len(q.piStartRef) > 1 THEN 1 ELSE CountSaid
    BY <2>0 DEF MeansWhatItSays, ModeSaid, FormatSaid, ListSaid, CountSaid
  <2>1. pc \in {"ready", "written"} /\ LineSays
    BY DEF Accepted, SInv, SaysInv
  <2>2. pc \in ModeKnown /\ pc \in AfterOptions /\ pc \in AfterValues
    BY <2>1 DEF ModeKnown, AfterOptions, AfterValues
  <2>3. q.bIsWrite \in BOOLEAN /\ q.bIsPolling \in BOOLEAN
    BY DEF SInv, CInv, Context
  <2>4. ~Given("u") => /\ q.bIsWrite <=> nb > 0
                       /\ q.bIsPolling <=> nb = 0 /\ ~Given("1")
                       /\ nb > 0 => ~Given("c") /\ q.iCount = nb
    BY <2>1, <2>2 DEF LineSays
  <2>5. ~Given("u") => /\ q.bIsWrite = (nb > 0)
                       /\ q.bIsPolling = (nb = 0 /\ ~Given("1"))
    BY <2>3, <2>4
  <2> QED
    BY <2>1, <2>2, <2>4, <2>5 DEF LineSays
<1> QED
  BY <1>1, <1>2, <1>3, PTL DEF CommandSpec

\* Without -m a host is reached by TCP exactly when its name is not taken for one of a
\* serial port, for every line that gives no option twice (mbpoll.c:1459-1472).
THEOREM HostsAreTakenByName ==
  CommandSpec => [](NoneTwice /\ Accepted /\ q.sDevice \in Hosts /\ ~Given("m")
                      => (HostsAreReachedByTcp <=> ~NamesAPort(q.sDevice)))
PROOF
<1>1. MeansWhatItSays /\ NoHalfSetUpBridge =>
        (NoneTwice /\ Accepted /\ q.sDevice \in Hosts /\ ~Given("m")
           => (HostsAreReachedByTcp <=> ~NamesAPort(q.sDevice)))
  <2> SUFFICES ASSUME MeansWhatItSays, NoHalfSetUpBridge, NoneTwice, Accepted, q.sDevice \in Hosts,
                      ~Given("m")
               PROVE  HostsAreReachedByTcp <=> ~NamesAPort(q.sDevice)
    OBVIOUS
  <2>1. q.sDevice # "bridge"
    BY DEF Hosts
  <2>2. bridge = "none"
    BY <2>1 DEF NoHalfSetUpBridge
  <2>3. q.eMode = IF NamesAPort(q.sDevice) THEN "rtu" ELSE "tcp"
    BY <2>2 DEF MeansWhatItSays
  <2> QED
    BY <2>3 DEF HostsAreReachedByTcp
<1> QED
  BY <1>1, LineMeansWhatItSays, BridgeIsWhole, PTL
=============================================================================
