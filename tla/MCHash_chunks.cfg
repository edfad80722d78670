SPECIFICATION HFairSpec
CONSTANTS
  main = main
  ch0 = ch0
  sha = sha
  NoTask = NoTask
  Garbage = Garbage
  NoOutput = NoOutput
  Tasks = {main}
  Channels = {ch0}
  ChannelsOf <- OneChannelOf
  ClearsErrorCode = TRUE
  MaxSema = 1
  Objects = {sha}
  Owner <- ShaOwner
  CrcObjects = {}
  Channel0 = ch0
  BlockSize = 3
  SizeMod = 16
  MaxMessage = 10
  MaxChunk = 8
INVARIANTS
  HTypeOK
PROPERTIES
  ImplementsHashSpec
  FollowsDriver
  HashCallReturns
