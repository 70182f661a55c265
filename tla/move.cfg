CONSTANTS
  Source = src
  Target = dst
  NoNode = NoNode
  Client = {c1, c2}
  Key = {1, 2}
  Pipeline = 2
  Moves = {"moveone", "moveall"}
  SlotsLeft = TRUE
  MaxRedirect = 1
  MaxWrite = 1
  MaxLost = 1
  MaxFault = 1
SPECIFICATION Spec
INVARIANTS TypeOK KeyInOnePlace MoveIsTransparent
PROPERTIES RequestAnswered
CHECK_DEADLOCK FALSE
