\* The poll loop over every shape of list: its safety, its liveness and its promise.
SPECIFICATION FairSpec
CONSTANTS
  MaxBits = 5
  MaxRegs = 4
  MaxCount = 3
  MaxRef = 9
  MaxSlave = 3
  IntMax = 20
  CountCap = 3
  Contexts <- AllContexts
INVARIANTS
  TypeOK
  OnlyTheBlockIsFreed
  ValuesAreTheirRegisters
  RequestsGoToTheSlave
  AtMostOneLateRequest
  StatisticsMissAtMostOne
  SuccessMeansAllShown
  ChecksOnlyStopWideReads
PROPERTIES
  NothingIsRedone
  SigIntEnds
  OneShotEnds
  EverySlaveIsPolled
  KeepsPromise
CHECK_DEADLOCK FALSE
