CONSTANTS
  Requests <- PlainGet
  ChunkMax = 2
  ReadMax = 1
  HasDeadline = TRUE
  ReadAgain = TRUE
SPECIFICATION Spec
INVARIANT BuffersSurvive
