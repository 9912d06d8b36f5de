SPECIFICATION FairSpec
CONSTANTS
  Orderly = FALSE
  Budget = 1
  Keys = {}
PROPERTIES DisconnectFollows
CHECK_DEADLOCK FALSE
