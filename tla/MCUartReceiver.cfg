SPECIFICATION Spec
CONSTANTS
  a = a
  b = b
  NoByte = NoByte
  Byte = {a, b}
  bufsz = 4
  MaxMsgs = 2
  ReadMax = 2
  Burst = 2
INVARIANTS
  ReceiverInv
  StrandedOnlyAfterLoss
PROPERTIES
  IsByteStream
  BytesAreRead
