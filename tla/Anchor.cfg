CONSTANTS
  MaxSeq = 4
  Threshold = 2
  TimerMin = 1
  BreakAfter = 2
  BaseDelay = 1
  MaxDelay = 3
  MaxPrunes = 1
  MaxStops = 1
  MaxMishaps = 1
SPECIFICATION FairSpec
INVARIANTS RangesDisjoint CleanUnlessPruned NoOrphans NoStorm
PROPERTIES AllAnchored
CHECK_DEADLOCK FALSE
