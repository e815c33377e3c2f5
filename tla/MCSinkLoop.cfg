SPECIFICATION Spec
CONSTANTS
  x1 = x1
  x2 = x2
  t1 = t1
  t2 = t2
  None = None
  Recs <- MCRecs
  ClassOf <- MCClassOf
  SizeOf <- MCSizeOf
  Messages <- TwoMessages
  SinkStates <- AnySink
  MaxRecords = 3
  MaxBatches = 2
  MaxBytes = 3
  MaxAge = 1
  BaseDelay = 1
  MaxDelay = 2
  MaxWait = 1
  SpoolConfigured = TRUE
  DiskMayFail = TRUE
  MemoryLimited = TRUE
  MaxRestarts = 1
INVARIANTS
  AnsweredForOnce
  NothingVanishes
  SpoolMirrorsBuffer
PROPERTIES
  ReliabilityShedFirst
  DeadlineNotPostponed
