SPECIFICATION Spec
CONSTANTS
  W = 4
  H = 4
  Xor <- MCXor
  MarkerValue = 100
  MaskOf <- MCMaskOf
  MaskWord <- MCMaskWord
  Ports = {"bare", "linux"}
  Types = {"Raw", "Delta", "DeltaXOR"}
  CntrLists <- MCLists
  HwMask = {0, 1, 2, 3}
  CntrWrapVal <- MCWrap
  Advances <- MCAdvances
  Calls <- MCCalls
  TimerPCs = {4}
  MaxCalls = 3
INVARIANTS TypeOK ShownAsRecorded OnlyLastCountWaits
CHECK_DEADLOCK FALSE
