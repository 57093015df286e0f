SPECIFICATION Spec
CONSTANTS
  Capacity = 4
  Values = {v1, v2}
  NoValue = NoValue
INVARIANTS
  TypeOK
  NoRace
PROPERTY
  ImplementsFifo
