SPECIFICATION Spec
CONSTANTS
  Encoding <- Encode
  Decoding <- Decode
  SortThreshold = 4
  Starts <- MCStarts
  NewParts <- MCNewParts
  NewNames <- MCNames
  Loads = {0, 4096}
  PageSize = 16
  MaxSetCount = 4
  MaxEdits = 2
  MaxWrites = 2
INVARIANTS SetsFit WriteEnds
PROPERTY PackageIsEqual
CHECK_DEADLOCK FALSE
