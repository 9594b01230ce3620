\* The runtime calls in any order, on one context.
SPECIFICATION RuntimeSpec
CONSTANTS
  MaxBits = 4
  MaxRegs = 4
  MaxCount = 4
  MaxRef = 9
  MaxSlave = 3
  IntMax = 30
  Counts <- MCCounts
  References <- MCReferences
  Lines = {"default"}
  MaxCalls = 2
INVARIANTS
  RuntimeTypeOK
  NothingLeaks
  RequestsFitTheirBlocks
  ValuesStayInTheirBlock
  RowsCoverTheAnswer
CHECK_DEADLOCK FALSE
