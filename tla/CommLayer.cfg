SPECIFICATION FairSpec
CONSTANTS
  MaxPipeCount = 2
  MaxStarts = 2
  MaxCalls = 4
  MaxFree = 1
  MaxFails = 2
INVARIANT AcceptNeverBlocks
PROPERTIES RequestsServed StopEnds
CHECK_DEADLOCK FALSE
