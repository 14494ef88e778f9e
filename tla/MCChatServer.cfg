SPECIFICATION Spec
CONSTANTS
  s1 = s1  s2 = s2  r1 = r1  r2 = r2
  lobby = lobby  attic = attic
  ann = ann  bob = bob  eve = eve
  NULL = NULL
  NoThread = NoThread
  Senders <- MCSenders
  Receivers <- MCReceivers
  RoomNames <- MCOneRoomName
  Username <- MCUsername
  MaxReq <- MCMaxReq
INVARIANTS
  TypeOK
  CriticalSections
  NoDanglingUser
  TokensMatchQueue
PROPERTIES
  IsAtomicChat
