SPECIFICATION LinkSpec
CONSTANTS
  NumLines = 3
  Offset <- MCOffset
  RxWindow = 3
  MaxInflight = 2
  AckTimeout = 1
  MaxLag = 0
  CounterMod = 4
  MaxWire = 2
  Ops = {"load", "start"}
  UsbFails = FALSE
  Silences = TRUE
  Rejects = FALSE
  Lossy = TRUE
  Dups = FALSE
  Refuses = TRUE
  Plans = TRUE
  MaxUp = 1
  MaxJobs = 2
INVARIANTS
  FlightFits
  AckedMeansRun
  RunsOnce
  RunsInOrder
  CompleteMeansRun
  LineNeedsGrant
CHECK_DEADLOCK FALSE
