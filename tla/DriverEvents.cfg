SPECIFICATION FairSpec
CONSTANTS
  Cycles = {"z_plate"}
  SyncCount = 2
  Patience = 2
  ClockMod = 5
  Stride = 2
  MaxStarts = 2
  MaxReports = 1
  Troubles = {"none", "split", "lost", "mdi", "restart"}
PROPERTIES
  ReadbackIsOwn
  SentInTurn
  CycleEnds
CHECK_DEADLOCK FALSE
