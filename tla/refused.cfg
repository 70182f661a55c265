CONSTANTS
  Owner = n1
  Node = {n1, n2}
  Client = {c1}
  Key = {k1}
  Stored = {k1}
  Field = {f1}
  WriteSets <- WriteAllFields
  Mode = {"immd"}
  Way = {"avg"}
  MaxWrite = 1
  MaxTime = 1
  MaxAdmin = 0
  MaxFault = 1
SPECIFICATION EstablishedSpec
PROPERTIES RefusedIsNotSent
CHECK_DEADLOCK FALSE
