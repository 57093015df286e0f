SPECIFICATION FairSpec
CONSTANTS
  Capacity = 8
  Keys = {5, 6, 7, 13, 15}
  Values = {1, 2}
  EMPTY = EMPTY
  NoValue = NoValue
  MaxLive = 5
INVARIANTS
  TypeOK
  NoKeyTwice
  FindsWhatIsThere
  ProbesReachTheirKeys
PROPERTIES
  IsAMap
  EraseEnds
