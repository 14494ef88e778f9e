SPECIFICATION FairSpec
CONSTANTS
  p1 = p1  p2 = p2  c1 = c1  c2 = c2
  m1 = m1  m2 = m2  m3 = m3
  NULL = NULL
  NoThread = NoThread
  Producers <- MCProducers
  Consumers <- MCConsumers
  Messages <- MCMessages
INVARIANTS
  TypeOK
  DequeAccessLocked
  SemaphoreCounts
  NoPopOfEmpty
PROPERTIES
  IsFifoQueue
  CallsReturn
  EnqueuedIsHandedOut
