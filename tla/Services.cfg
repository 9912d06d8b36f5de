CONSTANTS
  NULL = NULL
  PageBlocks = {p1, p2, p3}
  Byte = {1, 2}
  PageSize = 2
  Clients = {k1, k2, k3}
  NumBlocks = 7
  BlockSize = 8
  BodySize = 4
  Sizes = {4, 5, 13, 21}
  Tasks = {1, 4}
  Msgs = {m1, m2, m3, m4}
  max = 2
  NumCbTimers = 3
  NoCallback = NoCallback
  c1 = c1
  c2 = c2
  Callbacks <- MCCallbacks
  Timeouts <- MCTimeouts
  LastDay = 49710
  Stride = 86399
  Bits = 16
  Group = 2
  UintLen = 5
  Alphabet <- SomeChars
  MaxText = 5
SPECIFICATION ServicesSpec
INVARIANTS ServicesSound
PROPERTIES FifoIsQueue HeapAllocates IsQueues CalledInTime ConversionsHold
CHECK_DEADLOCK FALSE
