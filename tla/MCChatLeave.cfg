SPECIFICATION Spec
CONSTANTS
  s1 = s1  s2 = s2  r1 = r1  r2 = r2
  lobby = lobby  attic = attic
  ann = ann  bob = bob  eve = eve
  NULL = NULL
  NoThread = NoThread
  Senders <- MCOneSender
  Receivers <- MCOneReceiver
  RoomNames <- MCRoomNames
  Username <- MCUsername
  MaxReq <- MCFourRequests
INVARIANTS
  CastsOnlyWhereJoined
