CONSTANTS
  Source = src
  Target = dst
  NoNode = NoNode
  Client = {c1}
  Key = {1, 2}
  Pipeline = 1
  Moves = {"moveone"}
  SlotsLeft = TRUE
  MaxRedirect = 1
  MaxWrite = 0
  MaxLost = 0
  MaxFault = 0
SPECIFICATION Spec
INVARIANTS ServedLatest
CHECK_DEADLOCK FALSE
