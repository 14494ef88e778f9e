SPECIFICATION Spec
CONSTANTS
  Full = 7
  NULL = NULL
  Undefined = Undefined
  NumSlots = 1
  MaxCommands = 5
  Builds <- MCBuilds
  Commands <- MCCommands
INVARIANTS
  PictureIsPainted
  SlotsHoldPictures
  WrittenReadsBack
CHECK_DEADLOCK FALSE
