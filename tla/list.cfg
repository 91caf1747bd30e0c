CONSTANTS
  t1 = t1
  t2 = t2
  Thread = {t1, t2}
  Fd = {1, 2, 3}
  MaxNodes = 3
  MaxCalls = 7
  RacedCalls = 4
SPECIFICATION FairSpec
CONSTRAINT RacedBound
INVARIANTS ListIsSequence NoWildPointer AddsAreHarmless
PROPERTIES QueryAnswers CallsEnd
CHECK_DEADLOCK FALSE
