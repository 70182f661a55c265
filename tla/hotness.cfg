CONSTANTS
  n1 = n1
  n2 = n2
  s1 = s1
  s2 = s2
  Node = {n1, n2}
  Slot = {s1, s2}
  Copy <- CopyOfFirst
  FirstOwner <- OneEach
  MEvery = 1
  LEvery = 2
  HOT_SLOT = 1
  COLD_SLOT = 2
  Scale = 4
  Load = {100}
  MaxEvent = 2
SPECIFICATION Spec
INVARIANTS WindowExact
PROPERTIES CoolsDown
