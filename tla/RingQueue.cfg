SPECIFICATION FairSpec
CONSTANTS
  Size = 4
  IndexMod = 8
  Chunks <- MCChunks
INVARIANTS
  NoOverwrite
PROPERTIES
  IsQueue
  Drained
CHECK_DEADLOCK FALSE
