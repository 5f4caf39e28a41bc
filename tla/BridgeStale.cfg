SPECIFICATION FairSpec
CONSTANTS
  Stations = {"tab5", "other"}
  NumIn = 1
  MaxMixed = 3
  NumOut = 2
  InDepth = 1
  OutDepth = 1
  MaxFlight = 2
  Probers = {"tab5"}
  Saved = "none"
PROPERTIES
  WaitEndsWithOwn
CHECK_DEADLOCK FALSE
