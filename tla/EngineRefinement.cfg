SPECIFICATION Spec
CONSTANTS
  INVALID_INDEX = INVALID_INDEX
  NoOrder = NoOrder
  TICK = 2
  WINDOW = 4
  Books = {b1}
  Refs = {r1, r2, r3}
  MaxPrice = 12
  Prices = {6, 7}
  Quantities = {0, 1, 2}
  FreshRefs = {r1, r2, r3}
  MaxSlots = 3
SYMMETRY Symmetry
VIEW View
PROPERTY
  ImplementsPriceTimeBook
  NoOvertaking
INVARIANTS
  RestsOnce
  QueuesAreLinked
  MatchingProgresses
