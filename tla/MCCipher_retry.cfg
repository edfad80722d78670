SPECIFICATION CSpec
CONSTANTS
  main = main
  isr = isr
  ch0 = ch0
  ch1 = ch1
  aes = aes
  aes2 = aes2
  slot0 = slot0
  slot1 = slot1
  NoTask = NoTask
  Garbage = Garbage
  NoKey = NoKey
  NoIV = NoIV
  Tasks = {main}
  Channels = {ch0, ch1}
  ChannelsOf <- SoleChannelsOf
  ClearsErrorCode = TRUE
  MaxSema = 1
  Objects = {aes}
  Owner <- SoleOwner
  SlotsOf <- SoleSlotsOf
  SramSlots = {slot0}
  Slot0 = slot0
  OtpSlots = {otp}
  Payload = Payload
  Keys = {k1, k2}
  Sources = {p1, p2}
  IVs = {v1, v2}
  Channel0 = ch0
  KeyWords = 2
  RestartAfterFailure = FALSE
INVARIANTS
  CryptCorrect
