SPECIFICATION Spec
CONSTANTS
  Kernels <- MCKernels
  Requests <- MCRequests
  MaxEvents = 2
  MaxFailures = 1
  Stdins = {"file", "map"}
  FILE_F_PATH_OFFSET = 16
  FILE_F_FLAGS_OFFSET = 8
CHECK_DEADLOCK FALSE
INVARIANTS
  ResolvesLikeC
  OffsetsTrueOrAbsent
  NoIllegalInstruction
  
  EveryCallAccounted
