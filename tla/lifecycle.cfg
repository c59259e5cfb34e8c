SPECIFICATION FairLifeSpec
CONSTANTS
  NEvents = 2
  MaxDeliveries = 1
  Verdict <- UnreadableValid
  KillsProcess = TRUE
  BufferSize = 1
  MaxCrashes = 2
  MayDrop = FALSE
  AutoAck = FALSE
  NSubs = 2
  Ours = 1
  MaxFailures = 2
INVARIANTS
  WorksOnOwnConnections
PROPERTIES
  CopiesReliably
  StartsAndCopies
  EveryWriteAnswered
  EveryDeliveryAnswered
CHECK_DEADLOCK FALSE
