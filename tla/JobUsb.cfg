SPECIFICATION Spec
CONSTANTS
  NumLines = 2
  Offset <- MCOffset
  RxWindow = 3
  MaxInflight = 2
  AckTimeout = 1
  MaxLag = 1
  CounterMod = 3
  MaxWire = 1
  Ops = {"load", "start"}
  UsbFails = TRUE
  Silences = FALSE
  Rejects = FALSE
INVARIANT
  CompleteMeansWholeFile
CHECK_DEADLOCK FALSE
