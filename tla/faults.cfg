CONSTANTS
  Owner = n1
  Node = {n1, n2, n3}
  Client = {c1}
  Key = {k1}
  Stored = {k1}
  Field = {f1}
  WriteSets <- WriteAllFields
  Mode = {"1s", "immd"}
  Way = {"avg"}
  MaxWrite = 3
  MaxTime = 1
  MaxAdmin = 1
  MaxFault = 2
SPECIFICATION EstablishedSpec
SYMMETRY Symmetry
INVARIANTS OriginOrder FaultStaysLocal SingleWriterConverges
CHECK_DEADLOCK FALSE
