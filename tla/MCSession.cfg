SPECIFICATION FairSpec
CONSTANTS
  s = s  r = r
  NL <- MCNL
  MaxLen = 11
  Capacity = 30
  BufSize = 8
  MaxKilled = 1
  Conns <- MCConns
  Senders <- MCSenders
  Receivers <- MCReceivers
  Username <- MCUsername
  RoomName <- MCRoomName
  Scripts <- MCScripts
  Lowercase <- MCLowercase
  White <- MCWhite
  Chars <- MCChars
  Pieces <- MCPieces
INVARIANTS
  TypeOK
  LinesInOrder
  RepliesInStep
  PrintedAsSaid
PROPERTIES
  RequestsReturn
  SaidIsPrinted
CHECK_DEADLOCK FALSE
