CONSTANTS
  p1 = p1
  p2 = p2
  p3 = p3
  Process = {p1, p2}
  THREADS_COUNT = 2
  Sizes = {1, 3}
  MaxOpens = 2
  MaxStores = 0
  RenameFails = FALSE
SPECIFICATION Spec
INVARIANTS SuccessIsSealedOnce
CHECK_DEADLOCK FALSE
