SPECIFICATION Spec
CONSTANTS
  Addrs = {a1, a2}
  Threads = {t1, t2}
  MaxTime = 3
  MaxCreated = 3
  MaxCalls = 3
INVARIANTS NoLostWakeup SameTimers Armed CancelSticks NoLeak
CHECK_DEADLOCK FALSE
SYMMETRY Symmetry
