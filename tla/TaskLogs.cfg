SPECIFICATION Spec
CONSTANTS
  Instances = {i1, i2}
  Conns = {c1}
  Posts = {p1, p2}
  Nodes = {n1, n2}
  Lines <- OneEach
  Cap = 1
  MaxTime = 1
  MaxCrashes = 1
  None = None
INVARIANTS
  TypeOK
  SeenOnceInOrder
  ShownIsKept
  HistoryHasAccepted
SYMMETRY Symmetry
