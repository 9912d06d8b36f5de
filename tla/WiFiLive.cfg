SPECIFICATION FairSpec
CONSTANTS
  Orderly = TRUE
  Budget = 2
  Keys = {"DoorOpened", "LongPress"}
PROPERTIES EventuallyOnline PairingEnds LongPressPairs ClosingCloses
