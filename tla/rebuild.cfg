CONSTANTS
  THREADS_COUNT = 3
  Page = 4
  Block = 2
  IntLimit = 48
  Sizes <- AllSizes
  Faults <- SomeFaults
  MaxFaults = 3
  Spares <- FewSpares
SPECIFICATION FairSpec
INVARIANTS TypeOK RebuiltExact OriginalKept
PROPERTIES Returns
CHECK_DEADLOCK FALSE
