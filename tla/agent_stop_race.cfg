SPECIFICATION FairSpec
CONSTANTS
  ExecSets <- OneQuick
  MaxValues = 1
  MaxRecv = 1
  Startup <- NoStartup
  HasRule = FALSE
  RecvModes = {TRUE}
  QUEUE_SIZE = 8
  MaxSignals = 1
PROPERTIES StopJoins
CHECK_DEADLOCK FALSE
