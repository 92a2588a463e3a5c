SPECIFICATION Spec
CONSTANTS
  Code <- MCCode
  Path <- MCPath
  CaStarts = {1}
  TeStarts = {1}
  Modes = {"VECTOR"}
  Leads = {1}
  MaxLag = 2
  Cycles = 8
  WordCycles = 2
  BlockWords = 2
  QSize = 5
  MaxSkip = 3
  MaxRun = 2
INVARIANT StartsAtMark
CHECK_DEADLOCK FALSE
