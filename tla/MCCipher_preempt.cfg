SPECIFICATION CSpec
CONSTANTS
  main = main
  isr = isr
  ch0 = ch0
  ch1 = ch1
  aes = aes
  aes2 = aes2
  slot0 = slot0
  slot1 = slot1
  NoTask = NoTask
  Garbage = Garbage
  NoKey = NoKey
  NoIV = NoIV
  Tasks = {main, isr}
  Channels = {ch0}
  ChannelsOf <- SharedChannelsOf
  ClearsErrorCode = TRUE
  MaxSema = 0
  Objects = {aes, aes2}
  Owner <- TwoOwner
  SlotsOf <- TwoSlotsOf
  SramSlots = {slot0}
  Slot0 = slot0
  OtpSlots = {}
  Payload = Payload
  Keys = {k1, k2}
  Sources = {p1}
  IVs = {v1}
  Channel0 = ch0
  KeyWords = 2
  RestartAfterFailure = TRUE
INVARIANTS
  KeySlotWhole
PROPERTIES
  CryptDataStable
