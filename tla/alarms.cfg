SPECIFICATION FairSpec
CONSTANTS
  Thread = {t1, t2}
  Concurrent = {TRUE, FALSE}
  Resource = {"r1"}
  Category = {"c1"}
  NoCategory = "none"
  Row = {"c1", "any"}
  Resources <- RowResources
  Categories <- RowCategories
  Severity = {0, 3}
  Mgr = {"m1"}
  States = {1, 3}
  Null = Null
  MaxSets = 2
  MaxTime = 2
  MaxRows = 1
INVARIANTS ListInSync
PROPERTIES SetRefsReturns
CHECK_DEADLOCK FALSE
