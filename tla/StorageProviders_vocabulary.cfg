CONSTANTS
  Repositories = {"r", "s"}
  Clients = {"a", "b", "c"}
  Order <- MCOrder
  Plans <- CosmosPlans
  BatchSize = 1
  EdgeCap = 2
  PoolSize = 2
  IncreaseAfter = 1
  CeilingMultiplier = 2
  MaxThrottlesAtMin = 2
SPECIFICATION Spec
INVARIANTS HasVocabulary
CHECK_DEADLOCK FALSE
