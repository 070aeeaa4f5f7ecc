SPECIFICATION Spec
CONSTANTS
  Tasks = {t1, t2, t3}
  Stores = {s1, s2, s3}
  Nodes = {n1, n2}
  Keys = {1}
  Values = {5}
  NBuckets = 1
  NULL = NULL
  InitTask = t1
  InitStore = s1
  MaxRef = 3
INVARIANTS
  RefCountCovers
  NoUseAfterFree
  FreeingAlone
  NodesAccounted
  Isolation
PROPERTY
  Linearizable
SYMMETRY Symmetry
