SPECIFICATION FairSpec
CONSTANTS
  r1 = r1
  r2 = r2
  a = a
  b = b
  c = c
  d = d
  Readers <- TwoReaders
  Msgs <- MixedMsgs
  ReaderOf <- MixedReaders
  Records <- MixedRecords
  Size <- MixedSizes
  MaxBytes = 4
  PressureMax = 2
INVARIANTS
  HeldBytesBounded
  OneMarkerPerEpisode
  TypeOK
  CountersMatch
  CallsAreAccounted
PROPERTIES
  ImplementsLedger
  LedgerDischarged
