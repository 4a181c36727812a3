SPECIFICATION Spec
CONSTANTS
  Sessions = {s1, s2, s3}
  Unit = 2
  Requests = {1, 2}
  Limits <- MCLimits
  Bursts = {1, 2}
  MaxTime = 3
  MaxChanges = 1
  Lag = 0
  Cancels = TRUE
SYMMETRY Symmetry
INVARIANTS RateBound Conserved
PROPERTY CancelUndoes
CHECK_DEADLOCK FALSE
