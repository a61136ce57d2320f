SPECIFICATION Spec
CONSTANTS
  Gid = {1, 2}
  Name = {"a", "b"}
  Mgr = {"m"}
  Aid = {1, 2}
  Right = {"execute"}
  Ctx = {1}
  MaxGen = 4
INVARIANTS CacheCoherent  
