\* The counts -c accepts: violated by a read of too many 32-bit values.
SPECIFICATION Spec
CONSTANTS
  MaxBits = 5
  MaxRegs = 4
  MaxCount = 3
  MaxRef = 9
  MaxSlave = 3
  IntMax = 20
  CountCap = 3
  Contexts <- ReadContexts
INVARIANT
  AcceptedCountsAreRead
CHECK_DEADLOCK FALSE
