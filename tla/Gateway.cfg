CONSTANTS
  Types = {tool, cron, stop}
  Full = {cron}
  MaxPerSec = 1
  Capacity = 2
  MaxEvents = 5
  MaxRefusals = 1
  StopType = stop
  Signals = {sigterm, sigint}
SPECIFICATION FairStopSpec
INVARIANTS AtMostOneStop Fidelity NeverStuck
PROPERTIES IsStream AllSettled
CHECK_DEADLOCK FALSE
