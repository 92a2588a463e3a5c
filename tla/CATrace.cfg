SPECIFICATION Spec
CONSTANTS
  Code <- MCCode
  Path <- MCPath
  CaStarts = {1, 2}
  TeStarts = {1, 4}
  Modes = {"VECTOR", "INSTRUCTION"}
  Leads = {0, 1}
  MaxLag = 2
  Cycles = 8
  WordCycles = 2
  BlockWords = 2
  QSize = 5
  MaxSkip = 3
  MaxRun = 2
INVARIANTS TypeOK QueueHoldsRest RunAheadRight OwnCycles DepthCounted
PROPERTY Ends
CHECK_DEADLOCK FALSE
