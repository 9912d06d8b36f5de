SPECIFICATION Spec
CONSTANTS
  NumCbTimers = 2
  NoCallback = NoCallback
  Idle = Idle
  LongTouch = 3
  Debounce = 1
  AlarmDelay = 2
  AlarmBeep <- MCAlarmBeep
  OtherBeeps <- MCOtherBeeps
  MaxMsgs = 2
INVARIANTS DriversSound DoorIsKnown
PROPERTIES KeysAreReported
