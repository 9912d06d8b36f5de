SPECIFICATION Spec
CONSTANTS
  Orderly = TRUE
  Budget = 6
  Keys = {}
INVARIANTS AssertionsHold TransferSettles NoCheckWithoutTarget
