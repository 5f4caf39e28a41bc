SPECIFICATION FairSpec
CONSTANTS
  Stations = {"tab5", "other"}
  NumIn = 3
  MaxMixed = 2
  NumOut = 2
  InDepth = 2
  OutDepth = 1
  MaxFlight = 2
  Probers = {"tab5"}
  Saved = "none"
INVARIANTS
  TypeOK
PROPERTIES
  InboundFifo
  OutboundFifo
  PeerSettles
CHECK_DEADLOCK FALSE
