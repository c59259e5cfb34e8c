SPECIFICATION WiringSpec
INVARIANTS
  WiringTypeOK
  RightStores
PROPERTIES
  CompleteComesUp
