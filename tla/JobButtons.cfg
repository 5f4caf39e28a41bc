SPECIFICATION Spec
CONSTANTS
  NumLines = 3
  Offset <- MCOffsetWide
  RxWindow = 2
  MaxInflight = 2
  AckTimeout = 1
  MaxLag = 0
  CounterMod = 2
  MaxWire = 1
  Ops = {"load", "reload", "start", "abort"}
  UsbFails = FALSE
  Silences = FALSE
  Rejects = TRUE
INVARIANTS
  BytesConserved
PROPERTY
  NoReadAfterReset
CHECK_DEADLOCK FALSE
