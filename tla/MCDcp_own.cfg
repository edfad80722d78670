SPECIFICATION FairSpec
CONSTANTS
  main = main
  isr = isr
  isr2 = isr2
  ch0 = ch0
  ch1 = ch1
  NoTask = NoTask
  Tasks = {main, isr, isr2}
  Channels = {ch0, ch1}
  ChannelsOf <- OneOwnerChannelsOf
  ClearsErrorCode = TRUE
  MaxSema = 2
INVARIANTS
  TypeOK
  Truthful
  FailureIsOwn
PROPERTIES
  EveryCallReturns
