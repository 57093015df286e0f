SPECIFICATION Spec
CONSTANTS
  INVALID_INDEX = INVALID_INDEX
  NoOrder = NoOrder
  TICK = 2
  WINDOW = 4
  Books = {b1, b2}
  Refs = {r1, r2}
  MaxPrice = 12
  Prices = {6, 7}
  Quantities = {1, 2}
  FreshRefs = {r2}
  MaxSlots = 3
SYMMETRY Symmetry
VIEW View
INVARIANTS
  SlotsInOnePlace
  MapAgreesWithBooks
