CONSTANTS
  RxSize = 4
  TxSize = 3
  MaxIn = 8
  MaxOut = 5
  Burst = 1
  Byte <- MCByte
  Lines <- SomeLines
  Payloads <- SomeData
  MaxSaid = 3
  MaxLine = 4
  MaxHead = 3
  NULL = NULL
  Requests <- AllRequests
  Closers <- CloseText
  OtherTexts <- Unknown
  MaxFrames = 3
  MaxJoined = 12
  HbpDelay = 6
  CloseDelay = 12
  MaxAnswer = 4
SPECIFICATION LinkSpec
INVARIANT DecodedAsSent
CHECK_DEADLOCK FALSE
