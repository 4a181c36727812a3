SPECIFICATION Spec
CONSTANTS
  STACK_SIZE = 3
  DEFAULT_COROUTINE = 2
  MaxCap = 4
  Frames = {f, g}
  NULL = NULL
INVARIANTS NoAssert StackIntact
PROPERTY OnlyRunnerDies
