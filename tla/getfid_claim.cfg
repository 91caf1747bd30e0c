CONSTANTS
  p1 = p1
  p2 = p2
  Cell <- MCCell
  Zero = 0
  Block <- MCBlock
  HeaderCells <- MCHeader
  Encrypt <- MCEncrypt
  Decrypt <- MCDecrypt
  Path <- TypedPaths
  NoPath = NoPath
  Supported <- OfType
  Special <- OfSpecialType
  Fd <- Fd3
  MaxOpen = 2
  MaxLen = 8
  MaxInfo = 3
  PlainFiles0 <- ContractFiles
  Leftovers <- NoLeftovers
  Flags <- ContractFlags
  Payloads <- ContractPayloads
  RawWrites <- NoWrites
  ReadSizes <- ContractReads
  Seeks <- ContractSeeks
  SharedMaps = FALSE
  Dups = FALSE
  Toggles = FALSE
  Piece <- MCPiece
  types <- MCTypes
  TID_MP4_TMP = 405
  MaxPieces = 6
  Files <- StreamFiles
  Counts <- StreamCounts
  Targets <- StreamTargets
  MaxSeeks = 2
  MaxPos = 18
SPECIFICATION TypedSpec
INVARIANTS FidOfLastDot
CHECK_DEADLOCK FALSE
