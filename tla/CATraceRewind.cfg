SPECIFICATION Spec
CONSTANTS
  Code <- RewindCode
  Path <- RewindPath
  CaStarts = {2}
  TeStarts = {1}
  Modes = {"VECTOR"}
  Leads = {0}
  MaxLag = 4
  Cycles = 8
  WordCycles = 2
  BlockWords = 2
  QSize = 5
  MaxSkip = 3
  MaxRun = 2
INVARIANT RestQueued
CHECK_DEADLOCK FALSE
