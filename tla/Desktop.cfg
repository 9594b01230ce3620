\* The window over the runtime.
SPECIFICATION FairSpec
CONSTANTS
  MaxBits = 2
  MaxRegs = 2
  MaxCount = 2
  MaxRef = 3
  MaxSlave = 1
  IntMax = 20
  WideLimit = 1
  Counts <- MCCounts
  Writings <- MCWritings
  References <- MCReferences
  Lines = {"default", "chosen"}
  Rates = {"default", "chosen"}
  MaxCalls = 1
INVARIANTS
  DesktopTypeOK
  NothingHeldBetweenHandlers
  ReadsAreOfTheShownDevice
  ReadsShowWhatWasReceived
  WritesCarryAllValues
  RtuNeverBroadcasts
  ButtonsTellPolling
  ClicksStopPolling
PROPERTIES
  KeepsTheRules
  PollingOutlivesErrors
  PollingGoesOn
CHECK_DEADLOCK FALSE
