SPECIFICATION Spec
CONSTANTS
  Encoding <- Encode
  Decoding <- Decode
  SortThreshold = 4
  Capacity = 32
  Word = 65536
  CutSizes = {9, 20}
  MaxFaults = 1
  Starts <- MCStarts
  Names = {4, 5}
  Immediates = {256, 4806}
  Junk = {0}
  MaxEdits = 2
  MaxExchanges = 2
INVARIANTS SlotsFound InStep BytesInOrder
PROPERTIES EchoIsEqual ExchangeEnds
CHECK_DEADLOCK FALSE
