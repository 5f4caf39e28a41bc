SPECIFICATION FairSpec
CONSTANTS
  NumJobs = 3
  Depth = 1
  MaxTries = 2
  SeqMod = 4
  UpCap = 2
  DownCap = 1
  MaxResets = 1
INVARIANTS
  RunsPerTry
PROPERTIES
  KeepsPromise
CHECK_DEADLOCK FALSE
