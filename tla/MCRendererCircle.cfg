SPECIFICATION Spec
CONSTANTS
  Full = 7
  NULL = NULL
  Undefined = Undefined
  NumSlots = 1
  MaxCommands = 3
  Builds <- MCBuilds
  Commands <- MCCommands
INVARIANT
  CirclesAreRound
CHECK_DEADLOCK FALSE
