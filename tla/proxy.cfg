SPECIFICATION FairSpec
CONSTANTS
  PROX_ITEM_QUEUE_DEPTH = 1
  BufSize = 1
  MaxConn = 3
  MaxUp = 2
  MaxDown = 2
  MaxFaults = 1
  MaxSignals = 1
INVARIANTS RelayedInOrder
PROPERTIES Relayed Reconnects ShutdownEndsReception
CHECK_DEADLOCK FALSE
