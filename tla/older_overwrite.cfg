CONSTANTS
  Owner = n1
  Node = {n1, n2}
  Client = {c1, c2}
  Key = {k1}
  Stored = {k1}
  Field = {f1}
  WriteSets <- WriteAllFields
  Mode = {"1s"}
  Way = {"avg"}
  MaxWrite = 2
  MaxTime = 2
  MaxAdmin = 0
  MaxFault = 0
SPECIFICATION EstablishedSpec
PROPERTIES NoOlderOverwrites
CHECK_DEADLOCK FALSE
