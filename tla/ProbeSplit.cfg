SPECIFICATION Spec
CONSTANTS
  Cycles = {"edge_180_x"}
  SyncCount = 4
  Patience = 2
  ClockMod = 3
  Stride = 1
  MaxStarts = 1
  MaxReports = 1
  Troubles = {"split"}
PROPERTIES
  ReadbackSplit
CHECK_DEADLOCK FALSE
