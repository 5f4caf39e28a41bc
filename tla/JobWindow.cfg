SPECIFICATION Spec
CONSTANTS
  NumLines = 3
  Offset <- MCOffset
  RxWindow = 3
  MaxInflight = 2
  AckTimeout = 1
  MaxLag = 0
  CounterMod = 3
  MaxWire = 1
  Ops = {"load", "start", "hold", "resume", "mpg", "stop", "mdi"}
  UsbFails = TRUE
  Silences = FALSE
  Rejects = FALSE
INVARIANTS
  TypeOK
  WindowInv
  CompleteMeansDrained
  TogglesPaired
CHECK_DEADLOCK FALSE
