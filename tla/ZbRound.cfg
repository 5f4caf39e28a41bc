SPECIFICATION Spec
CONSTANTS
  NumJobs = 3
  Depth = 1
  MaxTries = 2
  SeqMod = 3
  UpCap = 2
  DownCap = 1
  MaxResets = 0
PROPERTIES
  DoneWasDone
CHECK_DEADLOCK FALSE
