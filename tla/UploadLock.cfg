SPECIFICATION Spec
CONSTANTS
  Jobs = {j, k}
  j = j
  k = k
  b = b
  c = c
  Bodies = {b, c}
  Attempts = 2
  STALE_AFTER_SECONDS = 2
  Skew = 1
  MaxErrors = 1
INVARIANT OneWriter
PROPERTY StaleLockIsCleared
