SPECIFICATION TextSpec
CONSTANTS
  Size = 8
  Base = 2
  Digits = 3
  Texts <- MCTexts
INVARIANTS
  TypeOK
  ResultOrReason
  ComparesByValue
  TextRoundTrip
