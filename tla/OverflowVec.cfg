SPECIFICATION Spec
CONSTANTS
  Prices = {1, 3, 4, 8, 9}
  MaxOrders = 3
INVARIANTS
  Sorted
PROPERTY
  IsTheMap
