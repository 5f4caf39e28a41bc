SPECIFICATION Spec
CONSTANTS
  NumLines = 2
  Offset <- MCOffset
  RxWindow = 3
  MaxInflight = 2
  AckTimeout = 1
  MaxLag = 1
  CounterMod = 3
  MaxWire = 1
  Ops = {"load", "start", "stop"}
  UsbFails = FALSE
  Silences = FALSE
  Rejects = FALSE
PROPERTY
  NoReadAfterReset
CHECK_DEADLOCK FALSE
