SPECIFICATION Spec
CONSTANTS
  Args <- MCBackArgs
  Blocks <- MCBlocks
  MaxOps = 4
PROPERTIES
  StoreMarksDirty
