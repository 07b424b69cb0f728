CONSTANTS
  Repositories = {"r", "s"}
  Clients = {"a", "b", "c", "d"}
  Order <- MCOrder
  Plans <- EdgePlans
  BatchSize = 1
  EdgeCap = 2
  PoolSize = 2
  IncreaseAfter = 1
  CeilingMultiplier = 2
  MaxThrottlesAtMin = 2
SPECIFICATION Spec
INVARIANTS EdgeBatchesNeedNoGuard
CHECK_DEADLOCK FALSE
