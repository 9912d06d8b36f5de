SPECIFICATION Spec
CONSTANTS
  Timer = {x, y}
  Timeouts = {1, 4}
  Blocks = {b1, b2, b3}
  None = None
  Free = Free
  Byte = 2
  Wrap = 5
  MaxLag = 3
  MaxTime = 11
SYMMETRY Interchange
INVARIANTS TypeOK OneRecordPerTimer ClockKeepsTime
PROPERTIES TimersKeepContract
