SPECIFICATION GrpcSpec
CONSTANTS
  NEvents = 3
  MaxDeliveries = 2
  Verdict <- ValidInvalidNotAllowed
  KillsProcess = FALSE
  BufferSize = 1
  MaxCrashes = 1
  MayDrop = TRUE
INVARIANTS
  LostOnlyIfInterrupted
  OnlyValidCopied
CHECK_DEADLOCK FALSE
