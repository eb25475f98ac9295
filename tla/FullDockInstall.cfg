SPECIFICATION Spec
CONSTANTS
  Kits <- MCKits
  Sources = 1
  Stores = 2
  Soups = 1
  MaxEntries = 2
  MaxCalls = 1
  MaxTurns = 2
INVARIANTS InstallConfirmed
CHECK_DEADLOCK FALSE
