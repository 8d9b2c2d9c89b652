CONSTANTS
  Hashes = {1, 2}
  Strays = {"zeroBalance", "addressBalance"}
  Nonces = {1, 2}
  Results = {1, 2, 3}
  MaxResult = 3
  MaxJobs = 3
  MaxWire = 2
  MaxIDs = 6
  MaxProxies = 3
  MaxShares = 2
  Word = 32
  Keys = {1, 2, 3, 4}
  Values = {1, 2}
  copyThreshold = 2
  maxDeletion = 2
  MaxCount = 6
SPECIFICATION SharesSpec
INVARIANTS
  WindowTypeOK
  PairingRecovers
  RaceHarmless
  DirectorTypeOK
  SharesConserved
  StatsNotShort
  SafeMapTypeOK
  NoKeyTwice
PROPERTIES
  BestOfWindow
  NewSharesSound
  ImplementsMap
CHECK_DEADLOCK FALSE
