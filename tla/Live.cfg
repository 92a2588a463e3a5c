SPECIFICATION SpecAll
CONSTANTS
  Cores = {0, 1}
  AddrMod = 16
  SignBit = 16
  TimeMod = 1
  TsMod = 1
  Xor <- MCXor
  HistBits = 8
  IntBits = 8
  StackSize = 2
  Processes <- BareProcesses
  Code <- BareCode
  KCode <- NoCode
  KStart = 16
  PidList = {}
  TolerateErrors = FALSE
  FilterControl = FALSE
  InitialTraceType = "BTM"
  Messages <- NoMessages
  MaxReads = 4
  Modes = {"HTM"}
  Entry = {1}
  JumpTargets = {5}
  Handlers = {}
  MaxICnt = 4
  MaxHist = 2
  MaxPath = 2
  Live = TRUE
PROPERTY ImplementsStream
