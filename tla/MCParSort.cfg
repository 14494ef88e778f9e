SPECIFICATION FairSpec
CONSTANTS
  Files <- MCFiles
  Thresholds <- MCThresholds
  MaxPid = 7
INVARIANTS
  TypeOK
  SuccessMeansSorted
  SegmentsApart
  HalvesSorted
  SuccessMeansAlone
PROPERTIES
  AllEnd
CHECK_DEADLOCK FALSE
