SPECIFICATION Spec
CONSTANTS
  NumLines = 3
  Offset <- MCOffset
  RxWindow = 3
  MaxInflight = 2
  AckTimeout = 1
  MaxLag = 0
  CounterMod = 3
  MaxWire = 1
  Ops = {"load", "start"}
  UsbFails = FALSE
  Silences = TRUE
  Rejects = FALSE
INVARIANT
  LineHoldsGrant
CHECK_DEADLOCK FALSE
