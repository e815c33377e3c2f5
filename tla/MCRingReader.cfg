SPECIFICATION FairSpec
CONSTANTS
  Probes <- MCProbes
  Threads <- MCThreads
  ProcessOf <- MCProcessOf
  RingMax = 1
  InFlightMax = 1
  MaxDrain = 1
  MissedExits = FALSE
  MaxFired = 3
  MaxTime = 2
CONSTRAINT OneIsRead
INVARIANTS
  EveryEventCounted
  GapsAreExact
  AttemptNamesItsPath
PROPERTIES
  DropsAreReported
CHECK_DEADLOCK FALSE
