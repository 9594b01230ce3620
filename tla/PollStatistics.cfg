\* The statistics: violated when a slave's turn needs two requests.
SPECIFICATION Spec
CONSTANTS
  MaxBits = 5
  MaxRegs = 4
  MaxCount = 3
  MaxRef = 9
  MaxSlave = 3
  IntMax = 20
  CountCap = 3
  Contexts <- AllContexts
INVARIANT
  ReceivedWereTransmitted
CHECK_DEADLOCK FALSE
