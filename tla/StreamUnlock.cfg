SPECIFICATION FairSpec
CONSTANTS
  MaxRetries = 1
  HelloTimeout = 2
  Timeout = 2
  LinuxCncOps = {"reset", "unlock"}
  MachOps = {}
  Troubles = {"unlock"}
  MaxPresses = 3
  MaxQueue = 2
PROPERTIES
  Settles
CHECK_DEADLOCK FALSE
