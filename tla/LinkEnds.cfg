SPECIFICATION LinkFairSpec
CONSTANTS
  NumLines = 2
  Offset <- MCOffset
  RxWindow = 3
  MaxInflight = 2
  AckTimeout = 1
  MaxLag = 1
  CounterMod = 8
  MaxWire = 2
  Ops = {"load", "start"}
  UsbFails = FALSE
  Silences = TRUE
  Rejects = FALSE
  Lossy = TRUE
  Dups = TRUE
  Refuses = TRUE
  Plans = FALSE
  MaxUp = 1
  MaxJobs = 1
INVARIANTS
  RunsNeverBack
  PortReturned
PROPERTY
  JobEnds
CHECK_DEADLOCK FALSE
