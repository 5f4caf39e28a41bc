SPECIFICATION FairSpec
CONSTANTS
  MaxRetries = 1
  HelloTimeout = 2
  Timeout = 2
  LinuxCncOps = {"reset", "unlock"}
  MachOps = {"reset", "unlock", "mdi"}
  Troubles = {"none", "rough"}
  MaxPresses = 3
  MaxQueue = 2
INVARIANTS
  ReadyIsEnabled
PROPERTIES
  Settles
  EstopSeen
  LossNoticed
  KeptWhileAnswered
CHECK_DEADLOCK FALSE
