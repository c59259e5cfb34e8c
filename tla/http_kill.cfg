SPECIFICATION HttpSpec
CONSTANTS
  NEvents = 3
  MaxDeliveries = 2
  Verdict <- InvalidValidValid
  KillsProcess = TRUE
  BufferSize = 1
  MaxCrashes = 0
  MayDrop = TRUE
  AutoAck = FALSE
INVARIANTS
  LetGoIsCopied
  InOrder
  InFlightIsInHand
  NothingGoesSilently
PROPERTIES
  CopiesReliably
  KillHasCause
CHECK_DEADLOCK FALSE
