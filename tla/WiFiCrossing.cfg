SPECIFICATION Spec
CONSTANTS
  Orderly = FALSE
  Budget = 2
  Keys = {"DoorOpened", "LongPress"}
INVARIANTS WebSocketFollowsSocket DataToOpenSocket CommandsInPlace OneConnection ShadowSettles
PROPERTIES SessionOrder
CHECK_DEADLOCK FALSE
