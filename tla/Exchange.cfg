CONSTANTS
  Requests <- AllRequests
  ChunkMax = 2
  ReadMax = 1
  HasDeadline = TRUE
  ReadAgain = FALSE
SPECIFICATION Spec
INVARIANTS
  TypeOK
  BuffersSurvive
  BodySentWhole
  OneAnswer
PROPERTY OperationsEnd
