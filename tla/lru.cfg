CONSTANTS
  Node = {n1, n2}
  Slot <- SomeSlots
  Capacity = 3
  Entry <- Entries
  NULL = NULL
  MaxSent = 1
  MaxOps = 8
SPECIFICATION Spec
INVARIANTS WellFormed DiesOnlyBeyondMap
PROPERTIES ImplementsRecency
CHECK_DEADLOCK FALSE
