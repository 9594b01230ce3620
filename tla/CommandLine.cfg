\* Command lines of up to three options and two values.
SPECIFICATION CommandSpec
CONSTANTS
  MaxBits = 5
  MaxRegs = 4
  MaxCount = 3
  MaxRef = 9
  MaxSlave = 3
  IntMax = 127
  ByteSize = 4
  MinPollRate = 100
  UseChipIo = TRUE
  MaxOptions = 3
  MaxValues = 2
  OptionWords <- MCOptionWords
  Texts <- MCTexts
INVARIANTS
  CommandTypeOK
  AcceptedIsValid
  MeansWhatItSays
  WrittenIsWhatWasTyped
  LibraryAgrees
  NoHalfSetUpBridge
  BroadcastsAreAskedFor
CHECK_DEADLOCK FALSE
