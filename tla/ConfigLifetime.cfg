SPECIFICATION Spec
CONSTANTS
  Listeners <- MCListeners
  PrefixOf <- MCPrefixOf
  Routes <- MCRoutes
  TagsOf <- MCTagsOf
  LimitsOf <- MCLimitsOf
  ThreadLocal <- MCThreadLocal
  Workers = {"w1", "w2"}
  Requests = {"a", "b"}
  AdminBodies = {{}, {"k1"}, {"k1", "bad"}}
  ValidKeys = {"k1"}
  Cycle = 2
  Budgets <- MCBudgets
INVARIANTS
  AdminHandlerOwned
  ScopesShared
  EntriesIndependent
PROPERTIES
  GoneLeavesNothing
CHECK_DEADLOCK FALSE
