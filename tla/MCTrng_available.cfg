SPECIFICATION Spec
CONSTANTS
  PoolSize = 3
  MaxRequest = 4
  MaxCalls = 3
  MaxSleeps = 0
  AsksAfterSleep = FALSE
INVARIANTS
  AvailableIsThere
