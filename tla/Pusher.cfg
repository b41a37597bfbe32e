CONSTANTS
  WeekLen = 2
  MaxDay = 4
  MaxInst = 2
  MaxFailures = 1
  MaxMishaps = 1
SPECIFICATION FairSpec
INVARIANTS RepeatsExplained MarkHonest
PROPERTY AllReported
CHECK_DEADLOCK FALSE
