SPECIFICATION FairGuardSpec
CONSTANTS
  Interval = 4
  Timeout = 3
  RetryDelay = 1
  MaxTries = 3
  Latency = 1
  Chains = 2
  Slots = 3
INVARIANTS
  GuardTypeOK
  BoundedDetection
  NoKillOfHealthyLink
  RetriesBridgeOutage
  BoundedPings
PROPERTIES
  KeepsPinging
CHECK_DEADLOCK FALSE
