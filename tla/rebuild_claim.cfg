CONSTANTS
  THREADS_COUNT = 4
  Page = 8
  Block = 4
  IntLimit = 96
  Sizes <- ClaimSizes
  Faults <- NoFaults
  MaxFaults = 0
  Spares <- ManySpares
SPECIFICATION Spec
INVARIANTS SuccessIsRebuilt
CHECK_DEADLOCK FALSE
