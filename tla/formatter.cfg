SPECIFICATION FormatterSpec
CONSTANTS
  Values = {v1, v2}
  UserFields = {note}
  Missing = Missing
  MaxHops = 3
INVARIANTS
  FormatterTypeOK
  IdentityKept
  MetadataKept
PROPERTIES
  CopyOfCopyIsSame
CHECK_DEADLOCK FALSE
