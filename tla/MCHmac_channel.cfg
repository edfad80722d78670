SPECIFICATION HmacSpec
CONSTANTS
  HmacKeys = {k1, k2}
  LongKeys = {k2}
  Pieces = {a, nothing}
  NoPiece = nothing
  MaxPieces = 2
  HmacChannels = {c0, c1}
  ZeroChannel = c0
  NoKey = NoKey
  NoTag = NoTag
INVARIANTS
  JobsOnMessageChannel
