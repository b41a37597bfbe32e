CONSTANTS
  Runs <- MCRuns
  Job <- MCJob
  RunId <- MCRunId
  Context <- MCContext
  Tools = {"t"}
  Models = {"m"}
  Peers = {"p"}
  Bodies <- MCBodies
  Digest <- MCDigest
  Uses <- MCUses
  Instants <- MCInstants
  MaxRows = 5
  Offset <- MCOffset
  DupWindow = 1
  DenialWindow = 2
  DenialThreshold = 2
  Lookback = 1
  FetchCap = 6
  CronLast = 2
  SessionLimit = 4
  SpendLimit = 2
SPECIFICATION HooksSpec
INVARIANTS TotalsAgree BurstsNoticed CronRowsTrue SessionFaithful
PROPERTY ReportFinal
CHECK_DEADLOCK FALSE
