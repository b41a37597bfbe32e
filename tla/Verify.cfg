CONSTANTS
  MaxSeq = 4
  Cap = 3
  Batch = 2
  MaxPrunes = 1
  MaxTampers = 2
SPECIFICATION VerifierSpec
INVARIANTS VerdictRight AlterationFound NoFalseAlarm
PROPERTIES Ends
CHECK_DEADLOCK FALSE
