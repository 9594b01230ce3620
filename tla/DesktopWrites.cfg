\* The device a write goes to: violated when the count changes with the write.
SPECIFICATION Spec
CONSTANTS
  MaxBits = 2
  MaxRegs = 2
  MaxCount = 2
  MaxRef = 3
  MaxSlave = 1
  IntMax = 20
  WideLimit = 1
  Counts <- MCCounts
  Writings <- MCWritings
  References <- MCReferences
  Lines = {"default", "chosen"}
  Rates = {"default", "chosen"}
  MaxCalls = 1
INVARIANT
  WritesReachTheShownDevice
CHECK_DEADLOCK FALSE
