SPECIFICATION HmacDrbgSpec
CONSTANTS
  Extras = {x1}
  NoExtra = NoExtra
  ZeroBytes = ZeroBytes
  OneBytes = OneBytes
  Byte0 = Byte0
  Byte1 = Byte1
  BrokenKey = BrokenKey
  RestartAfterFailure = FALSE
  MaxReseedCounter = 2
  MaxOutBlocks = 2
  MaxCalls = 4
INVARIANTS
  SeededOutput
