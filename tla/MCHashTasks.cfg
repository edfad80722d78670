SPECIFICATION HSpec
CONSTANTS
  main = main
  isr = isr
  isr2 = isr2
  ch0 = ch0
  ch1 = ch1
  ch2 = ch2
  sha = sha
  crc = crc
  sha2 = sha2
  sha3 = sha3
  NoTask = NoTask
  Garbage = Garbage
  NoOutput = NoOutput
  Tasks = {main, isr, isr2}
  Channels = {ch0, ch1, ch2}
  ChannelsOf <- TheirChannelsOf
  ClearsErrorCode = TRUE
  MaxSema = 0
  Objects = {sha, crc, sha2, sha3}
  Owner <- TheirOwner
  CrcObjects = {crc}
  Channel0 = ch2
  BlockSize = 2
  SizeMod = 16
  MaxMessage = 4
  MaxChunk = 3
CONSTRAINT
  Bounds
SYMMETRY
  Alike
INVARIANTS
  DigestCorrect
  ContextHoldsMessage
  NoReturnWhileRunning
PROPERTIES
  NoClobber
  JobDataStable
