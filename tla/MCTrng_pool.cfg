SPECIFICATION FairSpec
CONSTANTS
  PoolSize = 3
  MaxRequest = 4
  MaxCalls = 5
  MaxSleeps = 2
  AsksAfterSleep = FALSE
INVARIANTS
  TypeOK
  NoByteTwice
  ShortMeansFailed
  FreshAfterSleep
  StoppedBeforeOff
PROPERTIES
  DataReturns
