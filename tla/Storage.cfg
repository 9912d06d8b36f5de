CONSTANTS
  Ssids <- SomeSsids
  Passwds <- SomePasswds
  Urls <- SomeUrls
  Default <- TheDefault
  MaxName = 4
  MaxServer = 8
  WordChars = 2
  NUL = "0"
  FF = "F"
  Port = "u"
  MaxPairings = 2
  MaxUpdates = 1
  MaxCuts = 1
  u = u
  v = v
  None = None
  Junk = Junk
  Ids = {1, 2}
  AlignedLen <- Lengths
  Values <- TwoValues
  PageWords = 9
  LenWidth = 64
  Thresholds = {70, 95}
  MaxFaults = 2
SYMMETRY ValuesAlike
SPECIFICATION StorageSpec
INVARIANTS StorageSound
PROPERTIES OldNewOrNothing IsStore
