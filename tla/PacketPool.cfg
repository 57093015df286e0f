SPECIFICATION Spec
CONSTANTS
  NumSlots = 4
  kPoolInvalid = kPoolInvalid
INVARIANTS
  NextIsCurrent
PROPERTY
  ImplementsFreeStack
