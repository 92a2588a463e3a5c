SPECIFICATION FairSpec
CONSTANTS
  SrcBits = 2
  ValBits = 10
  Garbage = {0, 1}
  MsgSize = 16
  BufSize = 4
  Traces <- AllTraces
  MayFail = TRUE
INVARIANTS TypeOK BufferHoldsStream DeliveredInOrder
PROPERTY AllDelivered
CHECK_DEADLOCK FALSE
