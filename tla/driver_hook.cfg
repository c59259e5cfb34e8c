SPECIFICATION WriteSpec
CONSTANTS
  NEvents = 2
  MaxDeliveries = 1
  Verdict <- ValidValid
  KillsProcess = FALSE
INVARIANTS
  HookOncePerTry
CHECK_DEADLOCK FALSE
