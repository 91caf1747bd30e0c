CONSTANTS
  p1 = p1
  p2 = p2
  Cell <- MCCell
  Zero = 0
  Block <- MCBlock
  HeaderCells <- MCHeader
  Encrypt <- MCEncrypt
  Decrypt <- MCDecrypt
  Path = {p1, p2}
  NoPath = NoPath
  Supported = {p1, p2}
  Special = {p2}
  Fd <- Fd2
  MaxOpen = 2
  MaxLen = 4
  MaxInfo = 3
  PlainFiles0 <- ToggleFiles
  Leftovers <- NoLeftovers
  Flags <- ToggleFlags
  Payloads = {}
  RawWrites <- NoWrites
  ReadSizes = {}
  Seeks = {}
  SharedMaps = FALSE
  Dups = TRUE
  Toggles = TRUE
SPECIFICATION Spec
PROPERTIES TrackingKept
