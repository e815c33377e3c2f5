SPECIFICATION Spec
\* What can happen is finite, and so are the calls.
CHECK_DEADLOCK FALSE
CONSTANTS
  None = None
  NotUtf8 = NotUtf8
  Configs <- AllConfigs
  Scenarios <- AllScenarios
  MaxCalls = 3
  MaxCrashes = 1
INVARIANTS
  WireIsTrue
  SubjectNamesLifetime
  SettledIsStored
  StoredOnce
