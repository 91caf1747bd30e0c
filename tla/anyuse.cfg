CONSTANTS
  p1 = p1
  p2 = p2
  Cell <- MCCell
  Zero = 0
  Block <- MCBlock
  HeaderCells <- MCHeader
  Encrypt <- MCEncrypt
  Decrypt <- MCDecrypt
  Path = {p1}
  NoPath = NoPath
  Supported = {p1}
  Special = {}
  Fd <- Fd2
  MaxOpen = 2
  MaxLen = 6
  MaxInfo = 3
  PlainFiles0 <- AnyFiles
  Leftovers <- AnyLeftovers
  Flags <- AnyFlags
  Payloads <- AnyPayloads
  RawWrites <- AnyWrites
  ReadSizes <- AnyReads
  Seeks <- AnySeeks
  SharedMaps = TRUE
  Dups = TRUE
  Toggles = FALSE
SPECIFICATION Spec
INVARIANTS TypeOK TrackingExact ReadExact SizesAgree
PROPERTIES HeaderLostOnlyBelow
