SPECIFICATION PartsSpec
CONSTANTS
  HmacKeys = {k1, k2}
  LongKeys = {k2}
  Pieces = {a, nothing}
  NoPiece = nothing
  MaxPieces = 2
  HmacChannels = {c0, c1}
  ZeroChannel = c0
  NoKey = NoKey
  NoTag = NoTag
  HashSize = 2
  CounterMod = 5
  Salts = {s1}
  NoSalt = NoSalt
  Zeros = Zeros
  Infos = {i1}
  NoInput = NoInput
  NoPrk = NoPrk
  Tokens = {prover, verifier}
  TempSize = 4
  ByteBase = 4
  OffsetMod = 2
  Window = 2
  Radix = 3
  MaxDigits = 1
  Times <- AllTimes
  TimeSteps = {0, 2}
  Leftovers = {0, 1}
  Tags <- AllTags
  DrbgInputs = {in1}
  NoDrbgInput = NoDrbgInput
  DfBlocks = 2
  MaxBlocks = 2
  MaxCounter = 2
  MaxSeeds = 2
  MaxDraws = 3
  Base = 4
  SumSize = 3
  MaxAddend = 4
  Extras = {x1}
  NoExtra = NoExtra
  ZeroBytes = ZeroBytes
  OneBytes = OneBytes
  Byte0 = Byte0
  Byte1 = Byte1
  BrokenKey = BrokenKey
  RestartAfterFailure = TRUE
  MaxReseedCounter = 2
  MaxOutBlocks = 2
  MaxCalls = 4
  WordSize = 32
  Texts <- AllTexts
  ByteSeqs <- AllByteSeqs
  Registers = {"MCTL", "SCMISC", "SDCTL", "SCML", "SCR1L", "SCR2L", "SCR3L", "SCR4L", "SCR5L",
               "SCR6PL", "HPCOMR", "HPCR", "HPSICR", "HPSVCR", "HPSR", "HPSVSR", "LPMKCR", "LPSR",
               "ICSR", "AIRCR", "CFSR", "HFSR", "DFSR", "CGPR", "CCGR0", "CCGR6", "CISR", "GPR3", "GPR10"}
  MaxAssignments = 2
  Keys = {k1, k2}
  InitialKey = k0
  WordCount = 4
  OtpKey = OtpKey
  CacheLineSize = 2
  Lines = 2
  Jobs <- AllJobs
  CpuValues = {0, 1}
  DmaValue = 2
  Empty = Empty
INVARIANTS
  HmacHoldsKey
  HkdfOutput
  TotpAgree
  HashDrbgState
  HashDrbgBlocksFresh
  AddToAdds
  HmacDrbgAsStandard
  RangeAnswer
  Unbiased
  Base32RoundTrip
  ZmkWhole
  JobDataCoherent
PROPERTIES
  ImplementsMacSpec
  OnlyThatField
CHECK_DEADLOCK FALSE
