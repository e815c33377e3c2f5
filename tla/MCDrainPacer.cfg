SPECIFICATION Spec
CONSTANTS
  max_bytes_per_sec = 8
  max_batches_per_sec = 3
  recovery_increase = 1
  min_scale = 1
  One = 4
  Hz = 3
  MaxWait = 3
  Sizes = {1, 2, 3, 9}
  MaxTime = 6
INVARIANT WaitIsEnough
PROPERTY DebtIsPaidFirst
CHECK_DEADLOCK FALSE
