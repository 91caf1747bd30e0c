CONSTANTS
  c1 = c1
  c2 = c2
  NoClient = NoClient
  Client = {c1, c2}
  Silent = {c2}
  Request <- MCRequests
  Junk <- MCJunk
  File = {1, 2}
  CharSigned = FALSE
  MaxFails = 2
  MaxChanges = 3
SPECIFICATION FairSpec
CONSTRAINT OneAtATime
INVARIANTS WholeRequestServed
PROPERTIES ClientsServed RestoredForGood
CHECK_DEADLOCK FALSE
