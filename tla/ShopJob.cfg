SPECIFICATION Spec
CONSTANTS
  Gates = {g1}
  Vacs = {v1}
  Rest = {}
  Lamps = {}
  OffDelay = 2
  Scenes = {"cut", "cleanup", "idle"}
  MaxScenes = 0
  Troubles = {"none"}
PROPERTIES
  JobCompleteHonest
