SPECIFICATION Spec
CONSTANTS
  Sessions = {s1, s2, s3, s4, s5, s6}
  Unit = 1
  Requests = {1}
  Limits = {1}
  Bursts = {1}
  MaxTime = 3
  MaxChanges = 0
  Lag = 1
  Cancels = FALSE
SYMMETRY Symmetry
INVARIANT RateBoundLag
CHECK_DEADLOCK FALSE
