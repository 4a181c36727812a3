SPECIFICATION FairSpec
CONSTANTS
  NoProc = NoProc
  Procs = {p1, p2, p3}
  Size = 3
  Weights = {1, 2, 3, 4}
  Misuse = TRUE
INVARIANTS Capacity FrontBlocked Conservation
PROPERTIES NoOvertaking AcquireReturns
CHECK_DEADLOCK FALSE
