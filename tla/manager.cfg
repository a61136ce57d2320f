SPECIFICATION FairSpec
CONSTANTS
  Eid = {"e1", "E1", "e2"}
  Peer = {"E1", "e2"}
  Rest = {r1, r2}
  LogCfg <- NoLog
  Builds = {TRUE, FALSE}
  Lower <- MCLower
  RptSets <- MCRptSets
  MaxRecv = 1
  MaxValues = 1
  MaxRequests = 2
  MaxSignals = 1
  MaxFaults = 1
  MaxEvents = 3
INVARIANTS RegisteredOnce  RowsMatchAgents
PROPERTIES ManagerStops
CHECK_DEADLOCK FALSE
