SPECIFICATION FairSpec
CONSTANTS
  Target <- MCTargets
  Null = 0
  Ctrl <- MCCtrlNames
  CtrlDef <- MCCtrls
  ExpandsTo <- MCExpand
  Inputs <- MCInputs
  MaxTime = 12
  CondBy = 2
  BusyBy = 2
INVARIANTS CountersBalance NothingLeftOver StatusOwnerLives
PROPERTIES AllFinish DeadlineKept
CHECK_DEADLOCK FALSE
