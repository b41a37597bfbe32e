CONSTANTS
  MaxSeq = 3
  Cap = 3
  Batch = 2
  MaxPrunes = 1
  MaxTampers = 0
SPECIFICATION VerifierSpec
PROPERTY MissingEnds
CHECK_DEADLOCK FALSE
