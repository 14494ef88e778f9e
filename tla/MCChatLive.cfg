SPECIFICATION FairSpec
CONSTANTS
  s1 = s1  s2 = s2  r1 = r1  r2 = r2
  lobby = lobby  attic = attic
  ann = ann  bob = bob  eve = eve
  NULL = NULL
  NoThread = NoThread
  Senders <- MCSenders
  Receivers <- MCOneReceiver
  RoomNames <- MCRoomNames
  Username <- MCUsername
  MaxReq <- MCTwoRequests
INVARIANT
  OneRoomPerName
PROPERTIES
  SendAllAnswered
  FailedWorkerEnds
  QueuedIsWritten
