CONSTANTS
  n1 = n1
  n2 = n2
  n3 = n3
  Owner = n1
  Node = {n1, n2}
  Client = {c1}
  Key = {1, 2, 3}
  Stored = {2, 3}
  Field = {f1}
  WriteSets <- WriteAllFields
  Mode = {"immd"}
  Way = {"avg"}
  MaxWrite = 2
  MaxTime = 1
  MaxAdmin = 4
  MaxFault = 1
  Targets <- OneTarget
  Pipeline = 1
SPECIFICATION CopySpec
INVARIANTS CopyComplete ReachesEstablished CopyAgrees
PROPERTIES CopyEnds
CHECK_DEADLOCK FALSE
