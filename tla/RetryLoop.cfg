CONSTANTS
  get = get
  put = put
  upload = upload
  Requests = {get, put, upload}
  InScope = {get, put, upload}
  Body <- ThreeBodies
  MaxRetries = 2
  HasBudget = TRUE
  Retryable = {"busy", "timeout"}
  HasDeadline = TRUE
  Slots = 1
  SlotTime = 1
  Permille = 1000
  Baseline = 1
  MaxLog = 0
SPECIFICATION Spec
INVARIANTS
  TypeOK
  NoHollowAttempt
  NoRetryStorm
PROPERTIES
  DeadlineCoversRetries
  ExecuteEnds
