CONSTANTS
  p1 = p1
  p2 = p2
  p3 = p3
  Process = {p1, p2, p3}
  THREADS_COUNT = 2
  Sizes = {0, 2, 3}
  MaxOpens = 4
  MaxStores = 1
  RenameFails = TRUE
SPECIFICATION FairSpec
CONSTRAINT InTurn
INVARIANTS TextKept ViewKept DescriptorIsFile
PROPERTIES OpenReturns
CHECK_DEADLOCK FALSE
