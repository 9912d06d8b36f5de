SPECIFICATION Spec
CONSTANTS
  TaskCnt = 3
  Msgs = {m1, m2, m3}
  Flags = {f1}
  SYS_EVENT_MSG = SYS_EVENT_MSG
  NULL = NULL
INVARIANTS NoStrandedMessage BufferOwnership
PROPERTIES MailboxFifo Delivery
