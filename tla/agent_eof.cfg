SPECIFICATION FairSpec
CONSTANTS
  ExecSets <- QuickSets
  MaxValues = 1
  MaxRecv = 2
  Startup <- TimedStartup
  HasRule = TRUE
  RecvModes = {TRUE}
  QUEUE_SIZE = 16
  MaxSignals = 0
INVARIANTS NoLostWakeup EveryTargetReported
PROPERTIES EndOfInputStops
CHECK_DEADLOCK FALSE
