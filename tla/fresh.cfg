CONSTANTS
  Owner = n1
  Node = {n1, n2}
  Client = {c1}
  Key = {k1, k2}
  Stored = {k1, k2}
  Field = {f1}
  WriteSets <- WriteAllFields
  Mode = {"1s", "immd"}
  Way = {"skew"}
  MaxWrite = 2
  MaxTime = 1
  MaxAdmin = 4
  MaxFault = 0
SPECIFICATION Spec
SYMMETRY Symmetry
INVARIANTS TypeOK NeverCopyingWithCopy HangsOnlyDeserted MembershipTracks CacheCounted
PROPERTIES NothingStaysBehind SentIsServed
CHECK_DEADLOCK FALSE
