SPECIFICATION HttpSpec
CONSTANTS
  NEvents = 2
  MaxDeliveries = 2
  Verdict <- ValidInvalid
  KillsProcess = FALSE
  BufferSize = 2
  MaxCrashes = 1
  MayDrop = TRUE
  AutoAck = TRUE
INVARIANTS
  TypeOK
  LostOnlyIfInterrupted
  PendingIsGuarded
PROPERTIES
  NoAlarmAfterSuccess
CHECK_DEADLOCK FALSE
