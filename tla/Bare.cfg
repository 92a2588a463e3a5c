SPECIFICATION Spec
CONSTANTS
  Cores = {0, 1}
  AddrMod = 16
  SignBit = 16
  TimeMod = 32
  TsMod = 4
  Xor <- MCXor
  HistBits = 4
  IntBits = 2
  StackSize = 2
  Processes <- BareProcesses
  Code <- BareCode
  KCode <- NoCode
  KStart = 16
  PidList = {}
  TolerateErrors = FALSE
  FilterControl = TRUE
  InitialTraceType = "BTM"
  Messages <- BareTimedMessages
  MaxReads = 5
INVARIANTS TypeOK OneMessageInFlight BranchCountsSpent EveryMessageOnce
PROPERTIES LossIsReported TimeNeverRunsBack
