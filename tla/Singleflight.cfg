SPECIFICATION FairSpec
CONSTANTS
  Sessions = {s1, s2, s3}
  Keys = {k1, k2}
  None = None
  Outcomes = {"ok", "panic", "goexit"}
INVARIANTS OneInFlight SameResult SharedExact
PROPERTY CallsEnd
CHECK_DEADLOCK FALSE
