SPECIFICATION Spec
CONSTANTS
  PoolSize = 3
  MaxRequest = 4
  MaxCalls = 6
  MaxSleeps = 1
  AsksAfterSleep = TRUE
INVARIANTS
  FreshAfterSleep
