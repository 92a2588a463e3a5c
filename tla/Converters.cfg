SPECIFICATION Spec
CONSTANTS
  Cores = {0, 1}
  AddrMod = 16
  SignBit = 16
  TimeMod = 1
  TsMod = 1
  Xor <- MCXor
  HistBits = 8
  IntBits = 8
  StackSize = 2
  Processes <- MCProcesses
  Code <- MCCode
  KCode <- NoCode
  KStart = 16
  Messages <- MCMessages
  MaxMessages = 4
  QueueEvents = 2
  BufferEvents = 2
  CompactMod = 4
  NoName = {5}
  Unopenable <- MCUnopenable
INVARIANTS TypeOK CtfReadsBack PacketsWalkable CallsAgree
CHECK_DEADLOCK FALSE
