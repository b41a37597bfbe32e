CONSTANTS
  Ids = {c1}
  Configs <- MCConfigs
  MaxInst = 2
  MaxPasses = 2
  MaxMishaps = 2
SPECIFICATION FairSpec
INVARIANTS NotifiedOnce FlagHonest
PROPERTY EachSettled
CHECK_DEADLOCK FALSE
