CONSTANTS
  t1 = t1
  t2 = t2
  Cell <- MCCell
  Zero = 0
  Block = 3
  HeaderCells <- MCHeader
  Encrypt <- MCEncrypt
  Decrypt <- MCDecrypt
  Thread = {t1, t2}
  NumDesc = 2
  Setups <- MCSetups
  Bodies <- MCBodies
  Payloads <- MCPayloads
  ReadSizes = {1, 4}
  Seeks <- MCSeeks
  MaxLen = 12
  MaxCalls = 4
SPECIFICATION Spec
INVARIANTS DamageContained
PROPERTIES ReadsExact StepsAreCalls ReadsAsWhole
CHECK_DEADLOCK FALSE
