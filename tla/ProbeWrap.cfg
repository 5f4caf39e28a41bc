SPECIFICATION FairSpec
CONSTANTS
  Cycles = {"z_plate"}
  SyncCount = 2
  Patience = 2
  ClockMod = 5
  Stride = 2
  MaxStarts = 1
  MaxReports = 1
  Troubles = {"lost"}
PROPERTIES
  CycleEndsAcrossWrap
CHECK_DEADLOCK FALSE
