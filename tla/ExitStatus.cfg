\* The exit status of a report or a write: violated, not every failure is counted.
SPECIFICATION Spec
CONSTANTS
  MaxBits = 5
  MaxRegs = 4
  MaxCount = 3
  MaxRef = 9
  MaxSlave = 3
  IntMax = 20
  CountCap = 3
  Contexts <- UnpolledContexts
INVARIANT
  SuccessMeansNoError
CHECK_DEADLOCK FALSE
