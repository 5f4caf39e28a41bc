SPECIFICATION FairSpec
CONSTANTS
  NumLines = 1
  Offset <- MCOffset
  RxWindow = 3
  MaxInflight = 2
  AckTimeout = 1
  MaxLag = 1
  CounterMod = 3
  MaxWire = 1
  Ops = {"load", "start", "abort"}
  UsbFails = FALSE
  Silences = FALSE
  Rejects = FALSE
PROPERTY
  ClaimIsReleased
CHECK_DEADLOCK FALSE
