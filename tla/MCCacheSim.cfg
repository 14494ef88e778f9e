SPECIFICATION Spec
CONSTANTS
  Args <- MCArgs
  Blocks <- MCBlocks
  MaxOps = 5
INVARIANTS
  TypeOK
  TimestampsOrder
  IndexAgrees
  WriteBacksFromStores
PROPERTIES
  IsReplacementList
