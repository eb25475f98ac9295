SPECIFICATION Spec
CONSTANTS
  MaxPipeCount = 0
  MaxStarts = 2
  MaxCalls = 1
  MaxFree = 0
  MaxFails = 0
INVARIANT NowListening
CHECK_DEADLOCK FALSE
