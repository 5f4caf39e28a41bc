SPECIFICATION FairSpec
CONSTANTS
  MaxRetries = 1
  Timeout = 1
  BusyTimeout = 1
  EnumLines = 2
  Enums = TRUE
  Troubles = {"silence", "jobs", "loss"}
  Ops = {"reset", "stop", "unlock"}
  MaxPresses = 2
  MaxQueue = 2
INVARIANTS
  BlockedIsMpg
PROPERTIES
  Connects
  AlarmSeen
  LossNoticed
CHECK_DEADLOCK FALSE
