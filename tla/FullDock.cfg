SPECIFICATION FairSpec
CONSTANTS
  Kits <- MCKits
  Sources = 1
  Stores = 2
  Soups = 1
  MaxEntries = 2
  MaxCalls = 1
  MaxTurns = 2
INVARIANTS DockIInv Authenticated NeverBothWait InstallTold NothingMissed
PROPERTIES NewtonServed SyncEnds
CHECK_DEADLOCK FALSE
