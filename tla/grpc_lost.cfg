SPECIFICATION GrpcSpec
CONSTANTS
  NEvents = 1
  MaxDeliveries = 2
  Verdict <- OneValid
  KillsProcess = TRUE
  BufferSize = 1
  MaxCrashes = 0
  MayDrop = FALSE
INVARIANTS
  NothingForgotten
CHECK_DEADLOCK FALSE
