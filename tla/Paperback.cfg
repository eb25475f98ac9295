SPECIFICATION Spec
CONSTANTS
  LittleEndian = TRUE
  Texts <- MCTexts
  Room = 4
  Pieces = {1, 16}
  Foreign <- MCForeign
  Prefix <- MCPrefix
  Garbage = {0, 10, 13, 35}
  Chunk = 4
  BookChunk = 3
INVARIANT BookIsTheText
PROPERTY BookEnds
CHECK_DEADLOCK FALSE
