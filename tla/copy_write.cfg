CONSTANTS
  n1 = n1
  n2 = n2
  n3 = n3
  Owner = n1
  Node = {n1, n2}
  Client = {c1}
  Key = {1}
  Stored = {1}
  Field = {f1}
  WriteSets <- WriteAllFields
  Mode = {"immd"}
  Way = {"avg"}
  MaxWrite = 1
  MaxTime = 1
  MaxAdmin = 4
  MaxFault = 0
  Targets <- OneTarget
  Pipeline = 1
SPECIFICATION CopySpec
INVARIANTS CopyCatchesUp
CHECK_DEADLOCK FALSE
