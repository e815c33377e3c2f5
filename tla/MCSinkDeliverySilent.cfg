SPECIFICATION Spec
CHECK_DEADLOCK FALSE
CONSTANTS
  None = None
  NotUtf8 = NotUtf8
  Configs <- DefaultConfig
  Scenarios <- OneFile
  MaxCalls = 2
  MaxCrashes = 0
INVARIANTS
  DropsAreVisible
