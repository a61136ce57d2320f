SPECIFICATION FairSpec
CONSTANTS
  ExecSets <- QuickSets
  MaxValues = 1
  MaxRecv = 1
  Startup <- NoStartup
  HasRule = TRUE
  RecvModes = {TRUE, FALSE}
  QUEUE_SIZE = 16
  MaxSignals = 2
PROPERTIES ExternalStopJoins
CHECK_DEADLOCK FALSE
