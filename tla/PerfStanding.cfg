SPECIFICATION Spec
CONSTANTS
  W = 4
  H = 4
  Xor <- MCXor
  MarkerValue = 100
  MaskOf <- MCMaskOf
  MaskWord <- MCMaskWord
  Ports = {"linux"}
  Types = {"Delta"}
  CntrLists <- MCLists
  HwMask = {0, 1, 2, 3}
  CntrWrapVal <- MCWrap
  Advances <- MCAdvances
  Calls <- MCCalls
  TimerPCs = {}
  MaxCalls = 3
INVARIANT DeltasAsCounted
CHECK_DEADLOCK FALSE
