CONSTANTS
  t1 = t1
  s1 = s1
  Rule <- Two
  TBRs <- TimeTwo
  AdmRules <- Two
  Params <- PeriodParams
  Ops = {"enable"}
  MaxOps = 2
  Boot = 1
  MaxTime = 8
  OpsBy = 4
  BusyBy = 4
  CountMod = 4
SPECIFICATION FairSpec
CHECK_DEADLOCK FALSE
INVARIANTS EnabledHasEvent
PROPERTIES KeepsContract LimitReached
