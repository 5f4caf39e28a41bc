SPECIFICATION FairSpec
CONSTANTS
  Gates = {g1}
  Vacs = {v1}
  Rest = {r1}
  Lamps = {l1}
  OffDelay = 2
  Scenes = {"cut", "cleanup", "idle", "emergency"}
  MaxScenes = 2
  Troubles = {"none", "cleanup", "late", "drop", "mid"}
INVARIANTS
  VacuumHasGate
  HaltMeansOff
PROPERTIES
  RunBringsAir
  StopEndsOff
