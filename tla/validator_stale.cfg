SPECIFICATION ValidatorSpec
CONSTANTS
  Types = {T1, T2}
  Unknown = NoType
  Required = {id}
  Optional = {note}
INVARIANTS
  JudgedOnOwnData
