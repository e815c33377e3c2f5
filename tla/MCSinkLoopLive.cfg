SPECIFICATION FairSpec
CONSTANTS
  x1 = x1
  x2 = x2
  t1 = t1
  t2 = t2
  None = None
  Recs <- MCRecs
  ClassOf <- MCClassOf
  SizeOf <- MCSizeOf
  Messages <- TwoMessages
  SinkStates <- AnySink
  MaxRecords = 3
  MaxBatches = 3
  MaxBytes = 4
  MaxAge = 1
  BaseDelay = 1
  MaxDelay = 1
  MaxWait = 1
  SpoolConfigured = FALSE
  DiskMayFail = FALSE
  MemoryLimited = FALSE
  MaxRestarts = 0
PROPERTIES
  EvidenceSettles
  ShutdownTerminates
