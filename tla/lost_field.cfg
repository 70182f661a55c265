CONSTANTS
  Owner = n1
  Node = {n1, n2}
  Client = {c1}
  Key = {k1}
  Stored = {k1}
  Field = {f1, f2}
  WriteSets <- WriteOneField
  Mode = {"1s"}
  Way = {"avg"}
  MaxWrite = 2
  MaxTime = 1
  MaxAdmin = 0
  MaxFault = 0
SPECIFICATION EstablishedSpec
INVARIANTS SingleWriterConverges
CHECK_DEADLOCK FALSE
