\* A host with com in its name, without -m.
SPECIFICATION CommandSpec
CONSTANTS
  MaxBits = 5
  MaxRegs = 4
  MaxCount = 3
  MaxRef = 9
  MaxSlave = 3
  IntMax = 127
  ByteSize = 4
  MinPollRate = 100
  UseChipIo = TRUE
  MaxOptions = 1
  MaxValues = 2
  OptionWords <- MCOptionWords
  Texts <- MCTexts
INVARIANT
  HostsAreReachedByTcp
CHECK_DEADLOCK FALSE
