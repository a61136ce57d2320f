CONSTANTS
  t1 = t1
  s1 = s1
  Rule <- Two
  TBRs <- TimeTwo
  AdmRules <- OneState
  Params <- EnsureParams
  Ops = {"ensure", "enable", "disable", "reset", "obsolete"}
  MaxOps = 3
  Boot = 2
  MaxTime = 5
  OpsBy = 5
  BusyBy = 5
  CountMod = 4
SPECIFICATION Spec
CHECK_DEADLOCK FALSE
PROPERTIES KeepsLimits
