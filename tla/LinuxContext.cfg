SPECIFICATION Spec
CONSTANTS
  Cores = {0}
  AddrMod = 16
  SignBit = 4
  TimeMod = 32
  TsMod = 4
  Xor <- MCXor
  HistBits = 4
  IntBits = 4
  StackSize = 2
  Processes <- LinuxProcesses
  Code <- LinuxCode
  KCode <- Kernel
  KStart = 12
  PidList = {}
  TolerateErrors = TRUE
  FilterControl = FALSE
  InitialTraceType = "HTM"
  Messages <- LinuxMessages
  MaxReads = 6
INVARIANT NoCountsWhileUnsynced
