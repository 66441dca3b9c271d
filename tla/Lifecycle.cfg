\* Three requests of any kind on three open incidents and a child.
SPECIFICATION Spec
CONSTANTS
  r1 = r1
  r2 = r2
  r3 = r3
  a = a
  b = b
  c = c
  d = d
  e1 = e1
  e2 = e2
  e3 = e3
  e4 = e4
  None = None
  Requests = {r1, r2, r3}
  Incidents = {a, b, c, d}
  Evidence = {e1, e2, e3, e4}
  Kinds = {"transition", "merge", "split", "extend"}
  Opening <- TriangleOpening
  Attached <- TriangleAttached
  Selections <- TheSelections
  Additions <- TheAdditions
INVARIANTS
  TypeOK
  EvidenceStaysLive
  MergeForest
  PairsNeverDeadlock
  SomeoneProceeds
PROPERTIES
  MergeIsFinal
  ImplementsCaseFile
SYMMETRY AnyOrder
CHECK_DEADLOCK FALSE
