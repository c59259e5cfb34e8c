SPECIFICATION SettingsSpec
CONSTANTS
  Undefined = Undefined
  NSubs = 2
  MaxFailures = 2
INVARIANTS
  SettingsTypeOK
  ReadyBeforeEvents
  UpsertedBeforeEvents
  ConsumesAsConfigured
PROPERTIES
  AsConfiguredStays
  StartEnds
  EventuallyAsConfigured
CHECK_DEADLOCK FALSE
