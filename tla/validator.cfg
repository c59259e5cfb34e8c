SPECIFICATION ValidatorSpec
CONSTANTS
  Types = {T1, T2}
  Unknown = NoType
  Required = {id}
  Optional = {note, tag}
INVARIANTS
  ValidatorTypeOK
  FullEventsJudgedAlone
  WrongVerdictHasSource
